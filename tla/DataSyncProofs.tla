--------------------------- MODULE DataSyncProofs ---------------------------
(***************************************************************************)
(* What holds of DataSync for every number of keys, window size and bound. *)
(* Part 1: type correctness, with the accounting of the sending window.    *)
(* Part 2: the peer water mark never passes a record that is not saved,    *)
(* as long as the local water mark follows every packet that is sent.      *)
(* Part 3: a task that finished has delivered, unless something other than *)
(* losses and restarts of the receiver befell this very task.              *)
(***************************************************************************)
EXTENDS DataSync, FiniteSetTheorems, TLAPS

(* The window: a live session owns the unacknowledged packets and the free *)
(* places, and their number is the window size.                            *)
WindowInv ==
    /\ IsFiniteSet(reSendMap)
    /\ sessionId = 0 => reSendMap = {}
    /\ sessionId # 0 => Cardinality(reSendMap) + windowSize
                           = HighVersionWindowSize
    /\ \A i, j \in reSendMap : i.seq = j.seq => i = j
    /\ \A i \in reSendMap : /\ i.seq <= maxSequenceIdHasSent
                            /\ i.end > i.start => i.end <= MaxClock
    /\ sending => sessionId # 0 /\ windowSize > 0

TaskInv ==
    /\ \A k \in Keys : store[k] <= clock
    /\ status # "syncing" => sessionId = 0
    /\ status \in {"start", "syncing"} => requestSession # 0

TypeInv == TypeOK /\ WindowInv /\ TaskInv

USE ConstantsAssumption DEF ConstantsAssumption

LEMMA TypeInit == Init => TypeInv
<1>1. IsFiniteSet({}) /\ Cardinality({}) = 0
  BY FS_EmptySet, Zenon
<1>2. Init => FlagTypeOK
  BY Zenon DEF Init, FlagTypeOK
<1>3. Init => TypeOK
  BY <1>2 DEF Init, TypeOK, HistoryTypeOK, SenderTypeOK, NetTypeOK, ReceiverTypeOK, RequestType,
     AckType, ReSendInfoType, Marks, Stamps, DataSets, NoPacket
<1>4. Init => WindowInv
  BY <1>1, Zenon DEF Init, WindowInv
<1> QED
  BY <1>3, <1>4 DEF Init, TypeInv, TaskInv

(* What the storage returns is a set of stamped keys.                      *)
LEMMA RecordsTyped ==
    ASSUME SenderTypeOK, TaskInv
    PROVE  \A r \in Records : /\ r \in Keys \X Stamps
                               /\ r[1] \in Keys /\ r[2] = store[r[1]]
                               /\ r[2] \in 1..clock /\ clock <= MaxClock
  BY DEF SenderTypeOK, TaskInv, Records, Stamps

LEMMA GetSyncDataTyped ==
    ASSUME SenderTypeOK, TaskInv, NEW from, NEW to
    PROVE  GetSyncData(from, to) \in DataSets
  BY RecordsTyped, Zenon DEF GetSyncData, DataSets

(* A block ends at the water mark or with a record.                        *)
LEMMA BlockEndTyped ==
    ASSUME SenderTypeOK, TaskInv, NEW from \in Marks, NEW end \in Marks,
           BlockEnd(from, end)
    PROVE  /\ end = localMark \/ end \in 1..MaxClock
           /\ MarkAfter(GetSyncData(from, end), end) \in Marks
<1>1. end = localMark \/ end \in 1..MaxClock
  BY RecordsTyped DEF BlockEnd, GetSyncData, SenderTypeOK, Stamps
<1>2. CASE GetSyncData(from, end) = {}
  BY <1>1, <1>2, Zenon DEF MarkAfter
<1>3. CASE GetSyncData(from, end) # {} /\ end <= MaxClock
  <2>1. MarkAfter(GetSyncData(from, end), end) = end + 1
    BY <1>3, Zenon DEF MarkAfter
  <2>2. end + 1 \in Marks
    BY <1>3 DEF Marks
  <2> QED BY <1>1, <2>1, <2>2, Zenon
<1>4. CASE GetSyncData(from, end) # {} /\ end > MaxClock
  <2>1. PICK r \in Records : from <= r[2] /\ r[2] <= end
    BY <1>4, Zenon DEF GetSyncData
  <2>2. r[2] <= clock
    BY <2>1, RecordsTyped DEF SenderTypeOK, Stamps
  <2>3. r \in GetSyncData(from, clock)
    BY <2>1, <2>2, Zenon DEF GetSyncData
  <2>4. \A q \in GetSyncData(from, clock) : end # q[2]
    BY <1>4, RecordsTyped DEF GetSyncData, Marks, SenderTypeOK, Stamps
  <2> QED BY <2>3, <2>4, Zenon DEF BlockEnd
<1> QED BY <1>1, <1>2, <1>3, <1>4 DEF Marks

(* What is saved keeps its type whatever a packet holds.                   *)
LEMMA MergeTyped ==
    ASSUME ReceiverTypeOK, NEW data \in DataSets
    PROVE  Merge(data) \in [Keys -> Stamps]
<1> SUFFICES ASSUME NEW k \in Keys, NEW r \in data, r[1] = k, r[2] > saved[k]
             PROVE  (CHOOSE t \in 1..MaxClock : <<k, t>> \in data) \in Stamps
  BY Zenon DEF Merge, ReceiverTypeOK
<1>1. r = <<k, r[2]>> /\ r[2] \in 1..MaxClock
  BY DEF DataSets, Stamps, ReceiverTypeOK
<1>2. \E t \in 1..MaxClock : <<k, t>> \in data
  BY <1>1, Zenon
<1> QED
  BY <1>2 DEF Stamps

(* A step of the other side.                                               *)
LEMMA SenderFrame ==
    ASSUME TypeInv, UNCHANGED <<storeVars, senderVars>>
    PROVE  (FlagTypeOK /\ SenderTypeOK /\ WindowInv /\ TaskInv)'
  BY Zenon DEF TypeInv, TypeOK, FlagTypeOK, SenderTypeOK, WindowInv, TaskInv,
     storeVars, senderVars, taskVars, windowVars, dataVars

LEMMA ReceiverFrame ==
    ASSUME ReceiverTypeOK, UNCHANGED receiverVars PROVE ReceiverTypeOK'
  BY Zenon DEF ReceiverTypeOK, receiverVars, schedVars

LEMMA HistoryStep == HistoryTypeOK /\ [Next]_vars => HistoryTypeOK'
<1> SUFFICES ASSUME HistoryTypeOK, [Next]_vars PROVE HistoryTypeOK'
  OBVIOUS
<1>1. \/ UNCHANGED met \/ met' = {} \/ met' = met \cup {"refused"}
      \/ met' = met \cup {"restart"} \/ met' = met \cup {"removed"}
      \/ met' = met \cup {} \/ met' = met \cup {"cut"}
      \/ met' = met \cup {"exception"} \cup {"stale"}
      \/ met' = met \cup {"exception"} \cup {}
  BY Zenon DEF vars, Next, Sender, Receiver, CopyTargetData, SyncStart, SendFails,
     TaskTimeout, RequestStart, ReSendData, AckDropped, AckRecvError,
     DealWaterMarkException, TryContinueSync, NewSession, WaterMarkErrHandle,
     SaveDataFails, DataRequestRecv, SendFinishedDataAck, UpdatePeerWaterMark,
     SavePeerWaterMarkFails, ReceiverRestart, RemoveDeviceData, LoseRequest,
     LoseAck, Put
<1> QED BY <1>1, Zenon DEF HistoryTypeOK

(* Every step keeps the types and the window; one step per action.         *)
LEMMA TypeStep == TypeInv /\ [Next]_vars => TypeInv'
<1> SUFFICES ASSUME TypeInv, [Next]_vars PROVE TypeInv'
  OBVIOUS
<1> USE DEF TypeInv
<1>0. HistoryTypeOK'
  BY HistoryStep, Zenon DEF TypeOK
<1>1. ASSUME CopyTargetData PROVE TypeInv'
  <2>1. FlagTypeOK'
    BY <1>1, Zenon DEF TypeOK, FlagTypeOK, storeVars, senderVars, taskVars,
       windowVars, dataVars,
       CopyTargetData
  <2>2. SenderTypeOK'
    BY <1>1 DEF TypeOK, SenderTypeOK, storeVars, senderVars, taskVars,
       windowVars, dataVars,
       CopyTargetData, TaskInv
  <2>3. NetTypeOK'
    BY <1>1, Zenon DEF TypeOK, NetTypeOK, netVars, CopyTargetData
  <2>4. ReceiverTypeOK'
    BY <1>1, ReceiverFrame, Zenon DEF TypeOK, CopyTargetData
  <2>5. (WindowInv /\ TaskInv)'
    BY <1>1, FS_EmptySet DEF TypeOK, SenderTypeOK, FlagTypeOK, WindowInv,
       TaskInv, storeVars, senderVars, netVars, receiverVars, taskVars,
       windowVars, dataVars, schedVars, CopyTargetData
  <2> QED BY <1>0, <2>1, <2>2, <2>3, <2>4, <2>5, Zenon DEF TypeOK
<1>2. ASSUME SyncStart PROVE TypeInv'
  <2>1. FlagTypeOK'
    BY <1>2, Zenon DEF TypeOK, FlagTypeOK, storeVars, senderVars, taskVars,
       windowVars, dataVars, SyncStart
  <2>2. SenderTypeOK'
    BY <1>2 DEF TypeOK, SenderTypeOK, storeVars, senderVars, taskVars,
       windowVars, dataVars, SyncStart,
       TaskInv
  <2>3. NetTypeOK'
    BY <1>2, Zenon DEF TypeOK, NetTypeOK, netVars, SyncStart
  <2>4. ReceiverTypeOK'
    BY <1>2, ReceiverFrame, Zenon DEF TypeOK, SyncStart
  <2>5. (WindowInv /\ TaskInv)'
    BY <1>2, FS_EmptySet DEF TypeOK, SenderTypeOK, FlagTypeOK, WindowInv,
       TaskInv, storeVars, senderVars, netVars, receiverVars, taskVars,
       windowVars, dataVars, schedVars, SyncStart
  <2> QED BY <1>0, <2>1, <2>2, <2>3, <2>4, <2>5, Zenon DEF TypeOK
<1>3. ASSUME SendFails PROVE TypeInv'
  <2>1. FlagTypeOK'
    BY <1>3, Zenon DEF TypeOK, FlagTypeOK, storeVars, senderVars, taskVars,
       windowVars, dataVars, SendFails,
       AbortInner, InnerClearSyncStatus
  <2>2. SenderTypeOK'
    BY <1>3 DEF Marks, TypeOK, SenderTypeOK, storeVars, senderVars, taskVars,
       windowVars, dataVars, SendFails,
       AbortInner, InnerClearSyncStatus
  <2>3. NetTypeOK'
    BY <1>3, Zenon DEF TypeOK, NetTypeOK, netVars, SendFails
  <2>4. ReceiverTypeOK'
    BY <1>3, ReceiverFrame, Zenon DEF TypeOK, SendFails
  <2>5. (WindowInv /\ TaskInv)'
    BY Zenon, <1>3, FS_EmptySet DEF TypeOK, SenderTypeOK, FlagTypeOK, WindowInv,
       TaskInv, storeVars, senderVars, netVars, receiverVars, taskVars,
       windowVars, dataVars, schedVars, SendFails, AbortInner,
       InnerClearSyncStatus
  <2> QED BY <1>0, <2>1, <2>2, <2>3, <2>4, <2>5, Zenon DEF TypeOK
<1>4. ASSUME TaskTimeout PROVE TypeInv'
  <2>1. FlagTypeOK'
    BY <1>4, Zenon DEF TypeOK, FlagTypeOK, storeVars, senderVars, taskVars,
       windowVars, dataVars, TaskTimeout,
       AbortInner, InnerClearSyncStatus
  <2>2. SenderTypeOK'
    BY <1>4 DEF Marks, TypeOK, SenderTypeOK, storeVars, senderVars, taskVars,
       windowVars, dataVars, TaskTimeout,
       AbortInner, InnerClearSyncStatus
  <2>3. NetTypeOK'
    BY <1>4, Zenon DEF TypeOK, NetTypeOK, netVars, TaskTimeout
  <2>4. ReceiverTypeOK'
    BY <1>4, ReceiverFrame, Zenon DEF TypeOK, TaskTimeout
  <2>5. (WindowInv /\ TaskInv)'
    BY Zenon, <1>4, FS_EmptySet DEF TypeOK, SenderTypeOK, FlagTypeOK, WindowInv,
       TaskInv, storeVars, senderVars, netVars, receiverVars, taskVars,
       windowVars, dataVars, schedVars, TaskTimeout, AbortInner,
       InnerClearSyncStatus
  <2> QED BY <1>0, <2>1, <2>2, <2>3, <2>4, <2>5, Zenon DEF TypeOK
<1>5. ASSUME NEW end \in Marks, NEW result \in SendResults, RequestStart(end, result) PROVE TypeInv'
  <2> DEFINE from == GetDataFrom
             data == GetSyncData(from, end)
             info == [seq |-> maxSequenceIdHasSent + 1, start |-> localMark,
                      end |-> end, packet |-> packetId + 1]
  <2>1. FlagTypeOK'
    BY <1>5, Zenon DEF TypeOK, FlagTypeOK, RequestStart, UpdateSendInfo, MoreToSend
  <2>2. from \in Marks /\ data \in DataSets
    BY GetSyncDataTyped, Zenon DEF GetDataFrom, TypeOK, SenderTypeOK
  <2>3. /\ end = localMark \/ end \in 1..MaxClock
        /\ MarkAfter(data, end) \in Marks
    BY <1>5, <2>2, BlockEndTyped, Zenon DEF RequestStart, TypeOK
  <2>4. (IF GetSyncData(end + 1, clock) = {} THEN 0 ELSE end + 1) \in Marks
    <3>1. CASE GetSyncData(end + 1, clock) # {}
      <4>1. PICK r \in Records : end + 1 <= r[2]
        BY <3>1, Zenon DEF GetSyncData
      <4> QED BY <3>1, <4>1, RecordsTyped DEF TypeOK, SenderTypeOK, Marks, Stamps
    <3> QED BY <3>1 DEF Marks
  <2>5. info \in ReSendInfoType /\ info \notin reSendMap
    BY <1>5 DEF TypeOK, SenderTypeOK, ReSendInfoType, WindowInv
  <2>6. /\ reSendMap' = reSendMap \cup {info}
        /\ windowSize' = windowSize - 1
        /\ maxSequenceIdHasSent' = maxSequenceIdHasSent + 1
        /\ sessionId' = sessionId /\ sending
    BY <1>5, Zenon DEF RequestStart, UpdateSendInfo
  <2>7. SenderTypeOK'
    <3>1. localMark' \in Marks
      BY <1>5, <2>3, Zenon DEF RequestStart, TypeOK, SenderTypeOK
    <3>2. continueToken' \in Marks
      BY <1>5, <2>4, Zenon DEF RequestStart
    <3>3. packetId' \in 0..MaxPacket
      BY <1>5 DEF RequestStart, TypeOK, SenderTypeOK
    <3>4. windowSize' \in 0..HighVersionWindowSize
      BY <2>6 DEF WindowInv, TypeOK, SenderTypeOK
    <3> QED
      BY <1>5, <2>5, <2>6, <3>1, <3>2, <3>3, <3>4
         DEF RequestStart, TypeOK, SenderTypeOK, storeVars, taskVars
  <2>8. Request(maxSequenceIdHasSent + 1, packetId + 1, localMark, data)
            \in RequestType
    BY <2>2, <2>6 DEF Request, RequestType, TypeOK, SenderTypeOK, WindowInv
  <2>9. NetTypeOK' /\ ReceiverTypeOK'
    BY Zenon, <1>5, <2>8 DEF RequestStart, TypeOK, NetTypeOK, ReceiverTypeOK, receiverVars,
                   schedVars
  <2>10. /\ IsFiniteSet(reSendMap')
         /\ Cardinality(reSendMap') = Cardinality(reSendMap) + 1
    BY <2>5, <2>6, FS_AddElement, Zenon DEF WindowInv
  <2>11. sending' => windowSize' > 0
    BY <1>5, Zenon DEF RequestStart, MoreToSend
  <2>12. Cardinality(reSendMap) \in Nat
    BY FS_CardinalityType, Zenon DEF WindowInv
  <2>13. Cardinality(reSendMap') + windowSize' = HighVersionWindowSize
    BY <2>6, <2>10, <2>12 DEF WindowInv, TypeOK, SenderTypeOK
  <2>14. \A i \in reSendMap' :
            /\ i.seq <= maxSequenceIdHasSent'
            /\ i.end > i.start => i.end <= MaxClock
            /\ i # info => i \in reSendMap
    BY <2>3, <2>6 DEF WindowInv, TypeOK, SenderTypeOK, Marks, ReSendInfoType
  <2>15. \A i, j \in reSendMap' : i.seq = j.seq => i = j
    BY <2>6, <2>14 DEF WindowInv, TypeOK, SenderTypeOK, ReSendInfoType
  <2>16. WindowInv'
    BY <2>6, <2>10, <2>11, <2>13, <2>14, <2>15, Zenon DEF WindowInv
  <2>17. TaskInv'
    BY <1>5, Zenon DEF RequestStart, UpdateSendInfo, TaskInv, taskVars, storeVars
  <2> QED BY <1>0, <2>1, <2>7, <2>9, <2>16, <2>17, Zenon DEF TypeOK
<1>6. ASSUME NEW info \in reSendMap, NEW end \in Marks, ReSendData(info, end) PROVE TypeInv'
  <2>1. FlagTypeOK'
    BY <1>6, Zenon DEF TypeOK, FlagTypeOK, storeVars, senderVars, taskVars,
       windowVars, dataVars, ReSendData,
       Request, GetSyncData, Records, Oldest, MayHappen
  <2>2. SenderTypeOK'
    BY <1>6 DEF TypeOK, SenderTypeOK, storeVars, senderVars, taskVars,
       windowVars, dataVars, ReSendData,
       Request, GetSyncData, Records, Oldest, MayHappen, ReSendInfoType,
       Marks, WindowInv
  <2>6. Request(info.seq, info.packet, info.start,
                GetSyncData(info.start, end)) \in RequestType
    BY <1>6, GetSyncDataTyped DEF ReSendData, Request, RequestType, ReSendInfoType,
       TypeOK, SenderTypeOK, TaskInv
  <2>3. NetTypeOK'
    BY <1>6, <2>6, Zenon DEF TypeOK, NetTypeOK, netVars, ReSendData
  <2>4. ReceiverTypeOK'
    BY <1>6, ReceiverFrame, Zenon DEF TypeOK, ReSendData
  <2>5. (WindowInv /\ TaskInv)'
    BY Zenon, <1>6, FS_EmptySet DEF TypeOK, SenderTypeOK, FlagTypeOK, WindowInv,
       TaskInv, storeVars, senderVars, netVars, receiverVars, taskVars,
       windowVars, dataVars, schedVars, ReSendData, Request, GetSyncData,
       Records, Oldest, MayHappen
  <2> QED BY <1>0, <2>1, <2>2, <2>3, <2>4, <2>5, Zenon DEF TypeOK
<1>7. ASSUME NEW a \in acks, AckDropped(a) PROVE TypeInv'
  <2>1. (FlagTypeOK /\ SenderTypeOK /\ WindowInv /\ TaskInv)'
    BY <1>7, SenderFrame, Zenon DEF AckDropped
  <2>2. NetTypeOK'
    BY <1>7, Zenon DEF TypeOK, NetTypeOK, netVars, AckDropped
  <2>3. ReceiverTypeOK'
    BY <1>7, ReceiverFrame, Zenon DEF TypeOK, AckDropped
  <2> QED BY <1>0, <2>1, <2>2, <2>3, Zenon DEF TypeOK
<1>8. ASSUME NEW a \in acks, AckRecvError(a) PROVE TypeInv'
  <2>1. FlagTypeOK'
    BY <1>8, Zenon DEF TypeOK, FlagTypeOK, storeVars, senderVars, taskVars,
       windowVars, dataVars,
       AckRecvError, AckOf, AbortInner, InnerClearSyncStatus, IsPacketValid
  <2>2. SenderTypeOK'
    BY <1>8 DEF Marks, TypeOK, SenderTypeOK, storeVars, senderVars, taskVars,
       windowVars, dataVars,
       AckRecvError, AckOf, AbortInner, InnerClearSyncStatus, IsPacketValid
  <2>3. NetTypeOK'
    BY <1>8, Zenon DEF TypeOK, NetTypeOK, netVars, AckRecvError, AckOf
  <2>4. ReceiverTypeOK'
    BY <1>8, ReceiverFrame, Zenon DEF TypeOK, AckRecvError
  <2>5. (WindowInv /\ TaskInv)'
    BY Zenon, <1>8, FS_EmptySet DEF TypeOK, SenderTypeOK, FlagTypeOK, WindowInv,
       TaskInv, storeVars, senderVars, netVars, receiverVars, taskVars,
       windowVars, dataVars, schedVars, AckRecvError, AckOf, AbortInner,
       InnerClearSyncStatus, IsPacketValid
  <2> QED BY <1>0, <2>1, <2>2, <2>3, <2>4, <2>5, Zenon DEF TypeOK
<1>9. ASSUME NEW a \in acks, DealWaterMarkException(a) PROVE TypeInv'
  <2>1. FlagTypeOK'
    BY <1>9, Zenon DEF TypeOK, FlagTypeOK, storeVars, senderVars, taskVars,
       windowVars, dataVars,
       DealWaterMarkException, AckOf, InnerClearSyncStatus, IsPacketValid
  <2>2. SenderTypeOK'
    BY <1>9 DEF TypeOK, SenderTypeOK, storeVars, senderVars, taskVars,
       windowVars, dataVars,
       DealWaterMarkException, AckOf, InnerClearSyncStatus, IsPacketValid,
       NetTypeOK, AckType, Marks
  <2>3. NetTypeOK'
    BY <1>9, Zenon DEF TypeOK, NetTypeOK, netVars, DealWaterMarkException, AckOf
  <2>4. ReceiverTypeOK'
    BY <1>9, ReceiverFrame, Zenon DEF TypeOK, DealWaterMarkException
  <2>5. (WindowInv /\ TaskInv)'
    BY Zenon, <1>9, FS_EmptySet DEF TypeOK, SenderTypeOK, FlagTypeOK, WindowInv,
       TaskInv, storeVars, senderVars, netVars, receiverVars, taskVars,
       windowVars, dataVars, schedVars, DealWaterMarkException, AckOf,
       InnerClearSyncStatus, IsPacketValid
  <2> QED BY <1>0, <2>1, <2>2, <2>3, <2>4, <2>5, Zenon DEF TypeOK
<1>10. ASSUME NEW a \in acks, TryContinueSync(a) PROVE TypeInv'
  <2> DEFINE rest == {i \in reSendMap : i.seq # a.seq}
  <2>1. /\ AckOf(a, "ok")
        /\ UNCHANGED <<storeVars, localMark, requests, losses, receiverVars>>
    BY <1>10, Zenon DEF TryContinueSync
  <2>2. NetTypeOK' /\ ReceiverTypeOK'
    BY <2>1, Zenon DEF AckOf, TypeOK, NetTypeOK, ReceiverTypeOK, receiverVars, schedVars
  <2>3. CASE UNCHANGED <<taskVars, windowVars, dataVars>>
    BY Zenon, <1>0, <2>1, <2>2, <2>3 DEF TypeOK, FlagTypeOK, SenderTypeOK, WindowInv, TaskInv,
       taskVars, windowVars, dataVars, storeVars
  <2>4. CASE InnerClearSyncStatus /\ status' = "finished"
             /\ UNCHANGED <<requestSession, dataVars>> /\ isAllDataHasSent
    <3>1. FlagTypeOK'
      BY <2>4, Zenon DEF TypeOK, FlagTypeOK, InnerClearSyncStatus, dataVars
    <3>2. SenderTypeOK'
      BY <2>1, <2>4 DEF TypeOK, SenderTypeOK, InnerClearSyncStatus, dataVars, storeVars
    <3>3. ~sending'
      BY <2>1, <2>4, Zenon DEF AckOf, IsPacketValid, dataVars
    <3>4. WindowInv'
      BY <2>4, <3>3, FS_EmptySet, Zenon DEF InnerClearSyncStatus, WindowInv
    <3>5. TaskInv'
      BY <2>1, <2>4, Zenon DEF TaskInv, InnerClearSyncStatus, storeVars
    <3> QED BY <1>0, <2>2, <3>1, <3>2, <3>4, <3>5, Zenon DEF TypeOK
  <2>5. CASE /\ reSendMap' = rest /\ rest # reSendMap
             /\ a.session = sessionId
             /\ windowSize' = windowSize + 1
             /\ sending' = ~isAllDataHasSent
             /\ UNCHANGED <<taskVars, sessionId, maxSequenceIdHasSent,
                              isAllDataHasSent, packetId, continueToken,
                              needRetry>>
    <3>1. FlagTypeOK'
      BY <2>5, Zenon DEF TypeOK, FlagTypeOK
    <3>2. PICK i \in reSendMap : i.seq = a.seq
      BY <2>5, Zenon
    <3>3. rest = reSendMap \ {i}
      BY <3>2, Zenon DEF WindowInv
    <3>4. /\ IsFiniteSet(reSendMap')
          /\ Cardinality(reSendMap') = Cardinality(reSendMap) - 1
      BY <2>5, <3>2, <3>3, FS_RemoveElement DEF WindowInv
    <3>5. Cardinality(reSendMap) \in Nat /\ Cardinality(reSendMap') \in Nat
      BY <3>4, FS_CardinalityType, Zenon DEF WindowInv
    <3>6. sessionId # 0
      BY <3>2, Zenon DEF WindowInv
    <3>7. /\ windowSize' \in 1..HighVersionWindowSize
          /\ Cardinality(reSendMap') + windowSize' = HighVersionWindowSize
      BY <2>5, <3>4, <3>5, <3>6 DEF WindowInv, TypeOK, SenderTypeOK
    <3>8. SenderTypeOK'
      BY <2>1, <2>5, <3>7 DEF TypeOK, SenderTypeOK, taskVars, storeVars
    <3>9. WindowInv'
      BY <2>5, <3>4, <3>6, <3>7 DEF WindowInv
    <3>10. TaskInv'
      BY <2>1, <2>5, Zenon DEF TaskInv, taskVars, storeVars
    <3> QED BY <1>0, <2>2, <3>1, <3>8, <3>9, <3>10, Zenon DEF TypeOK
  <2> QED BY <1>10, <2>3, <2>4, <2>5, Zenon DEF TryContinueSync
<1>11. ASSUME NEW m \in requests, NewSession(m) PROVE TypeInv'
  <2>1. (FlagTypeOK /\ SenderTypeOK /\ WindowInv /\ TaskInv)'
    BY <1>11, SenderFrame, Zenon DEF NewSession
  <2>2. NetTypeOK'
    BY <1>11, Zenon DEF TypeOK, NetTypeOK, netVars, NewSession
  <2>3. ReceiverTypeOK'
    BY <1>11 DEF TypeOK, ReceiverTypeOK, schedVars, NewSession, NetTypeOK,
       RequestType
  <2> QED BY <1>0, <2>1, <2>2, <2>3, Zenon DEF TypeOK
<1>12. ASSUME NEW m \in requests, WaterMarkErrHandle(m) PROVE TypeInv'
  <2>1. (FlagTypeOK /\ SenderTypeOK /\ WindowInv /\ TaskInv)'
    BY <1>12, SenderFrame, Zenon DEF WaterMarkErrHandle
  <2>4. DataAck(m, "waterMarkErr") \in AckType
    BY Zenon DEF DataAck, AckType, RequestType, TypeOK, NetTypeOK, ReceiverTypeOK
  <2>2. NetTypeOK'
    BY <1>12, <2>4, Zenon DEF TypeOK, NetTypeOK, netVars, WaterMarkErrHandle
  <2>3. ReceiverTypeOK'
    BY Zenon, <1>12 DEF TypeOK, ReceiverTypeOK, schedVars, WaterMarkErrHandle,
       IsDue, NetTypeOK, RequestType
  <2> QED BY <1>0, <2>1, <2>2, <2>3, Zenon DEF TypeOK
<1>13. ASSUME NEW m \in requests, SaveDataFails(m) PROVE TypeInv'
  <2>1. (FlagTypeOK /\ SenderTypeOK /\ WindowInv /\ TaskInv)'
    BY <1>13, SenderFrame, Zenon DEF SaveDataFails
  <2>4. DataAck(m, "error") \in AckType
    BY Zenon DEF DataAck, AckType, RequestType, TypeOK, NetTypeOK, ReceiverTypeOK
  <2>2. NetTypeOK'
    BY <1>13, <2>4, Zenon DEF TypeOK, NetTypeOK, netVars, SaveDataFails
  <2>3. ReceiverTypeOK'
    BY <1>13 DEF TypeOK, ReceiverTypeOK, schedVars, SaveDataFails, IsDue,
       NetTypeOK, RequestType
  <2> QED BY <1>0, <2>1, <2>2, <2>3, Zenon DEF TypeOK
<1>14. ASSUME NEW m \in requests, DataRequestRecv(m) PROVE TypeInv'
  <2>1. UNCHANGED <<storeVars, senderVars, losses, peerMark, schedVars>>
    BY <1>14, Zenon DEF DataRequestRecv
  <2>2. m \in RequestType /\ m.data \in DataSets
    BY Zenon DEF TypeOK, NetTypeOK, RequestType
  <2>3. ReceiverTypeOK'
    BY <1>14, <2>2, MergeTyped, Zenon DEF DataRequestRecv, TypeOK, ReceiverTypeOK, schedVars
  <2>4. DataAck(m, "ok") \in AckType
    BY <2>2, Zenon DEF DataAck, AckType, RequestType, TypeOK, ReceiverTypeOK
  <2>5. NetTypeOK'
    BY <1>14, <2>4, Zenon DEF DataRequestRecv, TypeOK, NetTypeOK
  <2>6. (FlagTypeOK /\ SenderTypeOK /\ WindowInv /\ TaskInv)'
    BY <2>1, SenderFrame, Zenon
  <2> QED BY <1>0, <2>3, <2>5, <2>6, Zenon DEF TypeOK
<1>15. ASSUME NEW m \in requests, SendFinishedDataAck(m) PROVE TypeInv'
  <2>1. (FlagTypeOK /\ SenderTypeOK /\ WindowInv /\ TaskInv)'
    BY <1>15, SenderFrame, Zenon DEF SendFinishedDataAck
  <2>4. DataAck(m, "ok") \in AckType
    BY Zenon DEF DataAck, AckType, RequestType, TypeOK, NetTypeOK, ReceiverTypeOK
  <2>2. NetTypeOK'
    BY <1>15, <2>4, Zenon DEF TypeOK, NetTypeOK, netVars, SendFinishedDataAck
  <2>3. ReceiverTypeOK'
    BY <1>15, ReceiverFrame, Zenon DEF TypeOK, SendFinishedDataAck
  <2> QED BY <1>0, <2>1, <2>2, <2>3, Zenon DEF TypeOK
<1>16. ASSUME NEW mark \in Marks, UpdatePeerWaterMark(mark) PROVE TypeInv'
  <2>1. (FlagTypeOK /\ SenderTypeOK /\ WindowInv /\ TaskInv)'
    BY <1>16, SenderFrame, Zenon DEF UpdatePeerWaterMark
  <2>2. NetTypeOK'
    BY <1>16, Zenon DEF TypeOK, NetTypeOK, netVars, UpdatePeerWaterMark
  <2>3. ReceiverTypeOK'
    BY <1>16 DEF TypeOK, ReceiverTypeOK, schedVars, UpdatePeerWaterMark,
       RequestType, NoPacket
  <2> QED BY <1>0, <2>1, <2>2, <2>3, Zenon DEF TypeOK
<1>17. ASSUME ReceiverRestart PROVE TypeInv'
  <2>1. (FlagTypeOK /\ SenderTypeOK /\ WindowInv /\ TaskInv)'
    BY <1>17, SenderFrame, Zenon DEF ReceiverRestart
  <2>2. NetTypeOK'
    BY <1>17 DEF TypeOK, NetTypeOK, netVars, ReceiverRestart
  <2>3. ReceiverTypeOK'
    BY <1>17 DEF TypeOK, ReceiverTypeOK, schedVars, ReceiverRestart
  <2> QED BY <1>0, <2>1, <2>2, <2>3, Zenon DEF TypeOK
<1>18. ASSUME NEW rowsToo \in BOOLEAN, RemoveDeviceData(rowsToo) PROVE TypeInv'
  <2>1. (FlagTypeOK /\ SenderTypeOK /\ WindowInv /\ TaskInv)'
    BY <1>18, SenderFrame, Zenon DEF RemoveDeviceData
  <2>2. NetTypeOK'
    BY <1>18 DEF TypeOK, NetTypeOK, netVars, RemoveDeviceData
  <2>3. ReceiverTypeOK'
    BY <1>18 DEF TypeOK, ReceiverTypeOK, schedVars, RemoveDeviceData, Marks,
       Stamps
  <2> QED BY <1>0, <2>1, <2>2, <2>3, Zenon DEF TypeOK
<1>19. ASSUME NEW m \in requests, LoseRequest(m) PROVE TypeInv'
  <2>1. (FlagTypeOK /\ SenderTypeOK /\ WindowInv /\ TaskInv)'
    BY <1>19, SenderFrame, Zenon DEF LoseRequest
  <2>2. NetTypeOK'
    BY <1>19 DEF TypeOK, NetTypeOK, netVars, LoseRequest
  <2>3. ReceiverTypeOK'
    BY <1>19, ReceiverFrame, Zenon DEF TypeOK, LoseRequest
  <2> QED BY <1>0, <2>1, <2>2, <2>3, Zenon DEF TypeOK
<1>20. ASSUME NEW a \in acks, LoseAck(a) PROVE TypeInv'
  <2>1. (FlagTypeOK /\ SenderTypeOK /\ WindowInv /\ TaskInv)'
    BY <1>20, SenderFrame, Zenon DEF LoseAck
  <2>2. NetTypeOK'
    BY <1>20 DEF TypeOK, NetTypeOK, netVars, LoseAck
  <2>3. ReceiverTypeOK'
    BY <1>20, ReceiverFrame, Zenon DEF TypeOK, LoseAck
  <2> QED BY <1>0, <2>1, <2>2, <2>3, Zenon DEF TypeOK
<1>21. ASSUME NEW k \in Keys, Put(k) PROVE TypeInv'
  <2>1. FlagTypeOK'
    BY <1>21, Zenon DEF TypeOK, FlagTypeOK, storeVars, senderVars, taskVars,
       windowVars, dataVars, Put
  <2>2. SenderTypeOK'
    BY <1>21 DEF TypeOK, SenderTypeOK, storeVars, senderVars, taskVars,
       windowVars, dataVars, Put, Stamps
  <2>3. NetTypeOK'
    BY <1>21, Zenon DEF TypeOK, NetTypeOK, netVars, Put
  <2>4. ReceiverTypeOK'
    BY <1>21, ReceiverFrame, Zenon DEF TypeOK, Put
  <2>5. WindowInv'
    BY <1>21, Zenon DEF WindowInv, senderVars, windowVars, dataVars, Put
  <2>6. TaskInv'
    BY <1>21 DEF TypeOK, SenderTypeOK, TaskInv, Stamps, senderVars, taskVars,
       windowVars, Put
  <2> QED BY <1>0, <2>1, <2>2, <2>3, <2>4, <2>5, <2>6, Zenon DEF TypeOK
<1>22. ASSUME UNCHANGED vars PROVE TypeInv'
  BY <1>0, <1>22, SenderFrame, ReceiverFrame, Zenon
     DEF vars, netVars, TypeOK, NetTypeOK
<1>23. ASSUME SavePeerWaterMarkFails PROVE TypeInv'
  <2>1. (FlagTypeOK /\ SenderTypeOK /\ WindowInv /\ TaskInv)'
    BY <1>23, SenderFrame, Zenon DEF SavePeerWaterMarkFails
  <2>2. NetTypeOK'
    BY <1>23 DEF TypeOK, NetTypeOK, SavePeerWaterMarkFails
  <2>3. ReceiverTypeOK'
    BY <1>23 DEF TypeOK, ReceiverTypeOK, SavePeerWaterMarkFails, RequestType, NoPacket
  <2> QED BY <1>0, <2>1, <2>2, <2>3, Zenon DEF TypeOK
<1> QED
  BY Zenon, <1>1, <1>2, <1>3, <1>4, <1>5, <1>6, <1>7, <1>8, <1>9, <1>10, <1>11,
       <1>12, <1>13, <1>14, <1>15, <1>16, <1>17, <1>18, <1>19, <1>20, <1>21,
       <1>22, <1>23 DEF Next, Sender, Receiver

(* Every state has its type: in particular the window counter never runs   *)
(* below zero or past the window size, however acks and resends interleave *)
(* (UpdateSendInfo, TryContinueSync).                                      *)
THEOREM TypeCorrect == Spec => []TypeOK
<1>1. Init => TypeInv
  BY TypeInit, Zenon
<1>2. TypeInv /\ [Next]_vars => TypeInv'
  BY TypeStep, Zenon
<1>3. TypeInv => TypeOK
  BY Zenon DEF TypeInv
<1> QED
  BY <1>1, <1>2, <1>3, PTL DEF Spec

-----------------------------------------------------------------------------
(* Part 2.  Where the sender reads from is never above its water mark, and *)
(* a read that is over has no continue token.                              *)
TokenInv ==
    /\ continueToken # 0 /\ ~needRetry => continueToken <= localMark
    /\ isAllDataHasSent => continueToken = 0
    /\ status \in {"idle", "finished", "failed"} => continueToken = 0

(* What a packet holds: versions the sender has or had, one for each key,  *)
(* and every newest version between the packet's mark and its last record. *)
Sound(m) ==
    /\ \A r \in m.data : 0 < r[2] /\ r[2] <= store[r[1]]
    /\ \A r, q \in m.data : r[1] = q[1] => r = q
    /\ \A k \in Keys : \A r \in m.data :
           m.mark <= store[k] /\ store[k] <= r[2] /\ store[k] # 0
               => <<k, store[k]>> \in m.data

DataInv ==
    /\ \A k \in Keys : saved[k] <= store[k]
    /\ peerMark <= clock + 1
    /\ \A m \in requests : Sound(m)

(* Between the save and the peer mark: everything up to the packet's last  *)
(* record is saved.                                                        *)
HandlingInv ==
    handling # NoPacket =>
        /\ Sound(handling)
        /\ \A k \in Keys : \A r \in handling.data :
               store[k] # 0 /\ store[k] <= r[2] => saved[k] = store[k]

MarkInv == DataInv /\ HandlingInv /\ PeerMarkCoversData

(* A step that moves no data keeps MarkInv.                                *)
LEMMA MarkFrame ==
    ASSUME MarkInv, requests' \subseteq requests,
           UNCHANGED <<store, clock, saved, peerMark, handling>>
    PROVE  MarkInv'
<1>1. \A m \in requests' : Sound(m)'
  BY Zenon DEF MarkInv, DataInv, Sound
<1>2. handling # NoPacket => (Sound(handling))'
  BY Zenon DEF MarkInv, HandlingInv, Sound
<1>3. HandlingInv'
  BY <1>2, Zenon DEF MarkInv, HandlingInv
<1>4. DataInv'
  BY <1>1, Zenon DEF MarkInv, DataInv
<1>5. PeerMarkCoversData'
  BY Zenon DEF MarkInv, PeerMarkCoversData
<1> QED BY <1>3, <1>4, <1>5, Zenon DEF MarkInv

(* A block read from the storage is sound for every mark it starts at or   *)
(* below.                                                                  *)
LEMMA BlockSound ==
    ASSUME TypeInv, NEW from \in Marks, NEW mark \in Marks, NEW end \in Marks,
           NEW seq, NEW id, from <= mark
    PROVE  Sound(Request(seq, id, mark, GetSyncData(from, end)))
<1> DEFINE data == GetSyncData(from, end)
<1>0. SenderTypeOK /\ TaskInv
  BY Zenon DEF TypeInv, TypeOK
<1>1. \A r \in data : /\ r[1] \in Keys /\ r[2] = store[r[1]] /\ r[2] > 0
                      /\ r = <<r[1], r[2]>> /\ r[2] \in Nat /\ r[2] <= end
  BY <1>0, RecordsTyped DEF GetSyncData, SenderTypeOK, Stamps
<1>2. \A r \in data : 0 < r[2] /\ r[2] <= store[r[1]]
  BY <1>1
<1>3. \A r, q \in data : r[1] = q[1] => r = q
  BY <1>1
<1>4. ASSUME NEW k \in Keys, NEW r \in data, mark <= store[k],
             store[k] <= r[2], store[k] # 0
      PROVE  <<k, store[k]>> \in data
  <2>1. <<k, store[k]>> \in Records
    BY <1>4, Zenon DEF Records
  <2>2. from <= store[k] /\ store[k] <= end
    BY <1>0, <1>1, <1>4 DEF SenderTypeOK, Stamps, Marks
  <2> QED BY <2>1, <2>2, Zenon DEF GetSyncData
<1> HIDE DEF data
<1>5. /\ Request(seq, id, mark, data).data = data
      /\ Request(seq, id, mark, data).mark = mark
  BY Zenon DEF Request
<1>6. Sound(Request(seq, id, mark, data))
  BY <1>2, <1>3, <1>4, <1>5, Zenon DEF Sound
<1> QED BY <1>6, Zenon DEF data

(* Saving a sound packet that starts at or below the peer water mark.      *)
LEMMA MergeSaves ==
    ASSUME TypeInv, MarkInv, NEW m \in requests, ~Refused(m)
    PROVE  /\ \A k \in Keys : Merge(m.data)[k] <= store[k]
           /\ \A k \in Keys : saved[k] = store[k] => Merge(m.data)[k] = store[k]
           /\ \A k \in Keys : \A r \in m.data :
                  store[k] # 0 /\ store[k] <= r[2]
                      => Merge(m.data)[k] = store[k]
<1> DEFINE new == Merge(m.data)
<1>0. /\ m.data \in DataSets /\ m.mark \in Marks /\ peerMark \in Marks
      /\ store \in [Keys -> Stamps] /\ saved \in [Keys -> Stamps]
  BY Zenon DEF TypeInv, TypeOK, NetTypeOK, SenderTypeOK, ReceiverTypeOK, RequestType
<1>1. Sound(m)
  BY Zenon DEF MarkInv, DataInv
<1>2. \A r \in m.data : /\ r[1] \in Keys /\ r[2] \in Stamps
                        /\ r = <<r[1], r[2]>> /\ r[2] > 0
  BY <1>0, <1>1 DEF DataSets, Sound
<1>3. ASSUME NEW k \in Keys
      PROVE  \/ /\ new[k] = saved[k]
                /\ \A r \in m.data : r[1] = k => r[2] <= saved[k]
             \/ <<k, new[k]>> \in m.data /\ new[k] \in Stamps
  <2>1. CASE \E r \in m.data : r[1] = k /\ r[2] > saved[k]
    <3>1. PICK r \in m.data : r[1] = k /\ r[2] > saved[k]
      BY <2>1, Zenon
    <3>2. r[2] \in 1..MaxClock /\ <<k, r[2]>> \in m.data
      BY <1>2, <3>1 DEF Stamps
    <3>3. new[k] = CHOOSE t \in 1..MaxClock : <<k, t>> \in m.data
      BY <2>1, Zenon DEF Merge
    <3> QED BY <3>2, <3>3 DEF Stamps
  <2>2. CASE ~ \E r \in m.data : r[1] = k /\ r[2] > saved[k]
    <3>1. new[k] = saved[k]
      BY <2>2, Zenon DEF Merge
    <3> QED BY <3>1, <2>2, <1>2, <1>0 DEF Stamps
  <2> QED BY <2>1, <2>2, Zenon
<1>4. ASSUME NEW k \in Keys PROVE new[k] <= store[k]
  <2>1. saved[k] <= store[k]
    BY Zenon DEF MarkInv, DataInv
  <2>2. ASSUME <<k, new[k]>> \in m.data PROVE new[k] <= store[k]
    BY <2>2, <1>1, Zenon DEF Sound
  <2> QED BY <2>1, <2>2, <1>3, Zenon
<1>5. ASSUME NEW k \in Keys, saved[k] = store[k] PROVE new[k] = store[k]
  <2>1. CASE \E r \in m.data : r[1] = k /\ r[2] > saved[k]
    <3>1. \A r \in m.data : r[1] = k => r[2] <= store[k]
      BY <1>1, Zenon DEF Sound
    <3> QED BY <2>1, <3>1, <1>5, <1>0, <1>2 DEF Stamps
  <2>2. CASE ~ \E r \in m.data : r[1] = k /\ r[2] > saved[k]
    BY <2>2, <1>5, Zenon DEF Merge
  <2> QED BY <2>1, <2>2, Zenon
<1>6. ASSUME NEW k \in Keys, NEW r \in m.data, store[k] # 0, store[k] <= r[2]
      PROVE  new[k] = store[k]
  <2>1. CASE store[k] < m.mark
    <3>1. store[k] < peerMark
      BY <2>1, <1>0 DEF Refused, Marks, Stamps
    <3> QED BY <3>1, <1>5, <1>6, Zenon DEF MarkInv, PeerMarkCoversData
  <2>2. CASE m.mark <= store[k]
    <3>1. <<k, store[k]>> \in m.data
      BY <2>2, <1>1, <1>6, Zenon DEF Sound
    <3>2. CASE <<k, new[k]>> \in m.data
      <4>1. <<k, new[k]>> = <<k, store[k]>>
        BY <3>1, <3>2, <1>1, Zenon DEF Sound
      <4> QED BY <4>1, Zenon
    <3>3. CASE /\ new[k] = saved[k]
               /\ \A q \in m.data : q[1] = k => q[2] <= saved[k]
      <4>1. store[k] <= saved[k]
        BY <3>1, <3>3, Zenon
      <4> QED BY <4>1, <3>3, <1>0 DEF MarkInv, DataInv, Stamps
    <3> QED BY <3>2, <3>3, <1>3, Zenon
  <2> QED BY <2>1, <2>2, <1>0 DEF Marks, Stamps
<1> QED BY <1>4, <1>5, <1>6, Zenon

(* The faults under which the two water marks may part: the local mark not *)
(* moved with a packet that is sent or resent, and a removal between the   *)
(* save and the peer mark.                                                 *)
MarksFollow ==
    /\ "sendTimeout" \notin Faults /\ "markNotSaved" \notin Faults
    /\ "removeRace" \notin Faults

(* Sending a sound packet keeps MarkInv.                                   *)
LEMMA MarkAdd ==
    ASSUME MarkInv, NEW new, Sound(new), requests' \subseteq requests \cup {new},
           UNCHANGED <<store, clock, saved, peerMark, handling>>
    PROVE  MarkInv'
<1>1. \A m \in requests' : Sound(m)'
  BY Zenon DEF MarkInv, DataInv, Sound
<1>2. handling # NoPacket => (Sound(handling))'
  BY Zenon DEF MarkInv, HandlingInv, Sound
<1>3. HandlingInv'
  BY <1>2, Zenon DEF MarkInv, HandlingInv
<1>4. DataInv'
  BY <1>1, Zenon DEF MarkInv, DataInv
<1>5. PeerMarkCoversData'
  BY Zenon DEF MarkInv, PeerMarkCoversData
<1> QED BY <1>3, <1>4, <1>5, Zenon DEF MarkInv

LEMMA MarkInit == Init => TokenInv /\ MarkInv
<1> SUFFICES ASSUME Init PROVE TokenInv /\ MarkInv
  OBVIOUS
<1>1. TokenInv
  BY Zenon DEF Init, TokenInv
<1>2. DataInv /\ HandlingInv /\ PeerMarkCoversData
  BY DEF Init, DataInv, HandlingInv, PeerMarkCoversData
<1> QED BY <1>1, <1>2, Zenon DEF MarkInv

(* Where the sender reads from stays at or below its water mark.           *)
LEMMA TokenStep ==
    ASSUME MarksFollow, TypeInv, TokenInv, [Next]_vars PROVE TokenInv'
<1> USE DEF TokenInv
<1>1. ASSUME CopyTargetData PROVE TokenInv'
  BY Zenon, <1>1 DEF TypeInv, TypeOK, SenderTypeOK, senderVars, netVars,
     receiverVars, taskVars, windowVars, dataVars, storeVars, schedVars,
     CopyTargetData
<1>2. ASSUME SyncStart PROVE TokenInv'
  BY Zenon, <1>2 DEF TypeInv, TypeOK, SenderTypeOK, senderVars, netVars,
     receiverVars, taskVars, windowVars, dataVars, storeVars, schedVars,
     SyncStart
<1>3. ASSUME SendFails PROVE TokenInv'
  BY Zenon, <1>3 DEF TypeInv, TypeOK, SenderTypeOK, senderVars, netVars,
     receiverVars, taskVars, windowVars, dataVars, storeVars, schedVars,
     SendFails, AbortInner, InnerClearSyncStatus
<1>4. ASSUME TaskTimeout PROVE TokenInv'
  BY Zenon, <1>4 DEF TypeInv, TypeOK, SenderTypeOK, senderVars, netVars,
     receiverVars, taskVars, windowVars, dataVars, storeVars, schedVars,
     TaskTimeout, AbortInner, InnerClearSyncStatus
<1>5. ASSUME NEW end \in Marks, NEW result \in SendResults, RequestStart(end, result) PROVE TokenInv'
  <2> DEFINE from == GetDataFrom
             data == GetSyncData(from, end)
             more == GetSyncData(end + 1, clock)
  <2>0. /\ SenderTypeOK /\ TaskInv
        /\ from \in Marks /\ from <= localMark /\ localMark \in Marks
    BY <1>5 DEF GetDataFrom, TypeInv, TypeOK, SenderTypeOK, FlagTypeOK, Marks
  <2>1. /\ localMark' = MarkAfter(data, end)
        /\ continueToken' = IF more = {} THEN 0 ELSE end + 1
        /\ isAllDataHasSent' = (continueToken' = 0)
        /\ status' = status
    BY <1>5, Zenon DEF RequestStart, UpdateSendInfo, SendResults, MarksFollow, taskVars
  <2>2. status = "syncing"
    BY <1>5, Zenon DEF RequestStart, TypeInv, WindowInv, TaskInv
  <2>3. CASE GetSyncData(from, clock) = {} /\ end = localMark
    <3>1. more = {}
      BY <2>0, <2>3, RecordsTyped DEF GetSyncData, Marks, SenderTypeOK, Stamps
    <3> QED BY <3>1, <2>1, <2>2, Zenon
  <2>4. CASE \E r \in GetSyncData(from, clock) : end = r[2]
    <3>1. data # {}
      BY <2>4, <2>0, RecordsTyped DEF GetSyncData, SenderTypeOK, Stamps
    <3>2. localMark' = end + 1
      BY <2>1, <3>1, Zenon DEF MarkAfter
    <3>3. isAllDataHasSent' => continueToken' = 0
      BY <2>1, Zenon
    <3>4. continueToken' # 0 => continueToken' <= localMark'
      BY <2>1, <3>2 DEF Marks
    <3> QED BY <2>1, <2>2, <3>3, <3>4, Zenon
  <2> QED BY <1>5, <2>3, <2>4, Zenon DEF RequestStart, BlockEnd
<1>6. ASSUME NEW info \in reSendMap, NEW end \in Marks, ReSendData(info, end) PROVE TokenInv'
  BY <1>6 DEF TypeInv, TypeOK, SenderTypeOK, ReSendInfoType, Marks,
     senderVars, netVars, receiverVars, taskVars, windowVars, dataVars,
     storeVars, schedVars, ReSendData
<1>7. ASSUME NEW a \in acks, AckDropped(a) PROVE TokenInv'
  BY Zenon, <1>7 DEF TypeInv, TypeOK, SenderTypeOK, senderVars, netVars,
     receiverVars, taskVars, windowVars, dataVars, storeVars, schedVars,
     AckDropped
<1>8. ASSUME NEW a \in acks, AckRecvError(a) PROVE TokenInv'
  BY Zenon, <1>8 DEF TypeInv, TypeOK, SenderTypeOK, senderVars, netVars,
     receiverVars, taskVars, windowVars, dataVars, storeVars, schedVars,
     AckRecvError, AckOf, AbortInner, InnerClearSyncStatus, IsPacketValid
<1>9. ASSUME NEW a \in acks, DealWaterMarkException(a) PROVE TokenInv'
  BY Zenon, <1>9 DEF TypeInv, TypeOK, SenderTypeOK, senderVars, netVars,
     receiverVars, taskVars, windowVars, dataVars, storeVars, schedVars,
     DealWaterMarkException, AckOf, InnerClearSyncStatus, IsPacketValid
<1>10. ASSUME NEW a \in acks, TryContinueSync(a) PROVE TokenInv'
  BY Zenon, <1>10 DEF TypeInv, TypeOK, SenderTypeOK, senderVars, netVars,
     receiverVars, taskVars, windowVars, dataVars, storeVars, schedVars,
     TryContinueSync, AckOf, InnerClearSyncStatus, IsPacketValid
<1>11. ASSUME NEW m \in requests, NewSession(m) PROVE TokenInv'
  BY Zenon, <1>11 DEF TypeInv, TypeOK, SenderTypeOK, senderVars, netVars,
     receiverVars, taskVars, windowVars, dataVars, storeVars, schedVars,
     NewSession
<1>12. ASSUME NEW m \in requests, WaterMarkErrHandle(m) PROVE TokenInv'
  BY Zenon, <1>12 DEF TypeInv, TypeOK, SenderTypeOK, senderVars, netVars,
     receiverVars, taskVars, windowVars, dataVars, storeVars, schedVars,
     WaterMarkErrHandle, IsDue, DataAck
<1>13. ASSUME NEW m \in requests, SaveDataFails(m) PROVE TokenInv'
  BY Zenon, <1>13 DEF TypeInv, TypeOK, SenderTypeOK, senderVars, netVars,
     receiverVars, taskVars, windowVars, dataVars, storeVars, schedVars,
     SaveDataFails, IsDue, DataAck
<1>14. ASSUME NEW m \in requests, DataRequestRecv(m) PROVE TokenInv'
  BY Zenon, <1>14 DEF TypeInv, TypeOK, SenderTypeOK, senderVars, netVars,
     receiverVars, taskVars, windowVars, dataVars, storeVars, schedVars,
     DataRequestRecv, IsDue, DataAck, Refused
<1>15. ASSUME NEW m \in requests, SendFinishedDataAck(m) PROVE TokenInv'
  BY Zenon, <1>15 DEF TypeInv, TypeOK, SenderTypeOK, senderVars, netVars,
     receiverVars, taskVars, windowVars, dataVars, storeVars, schedVars,
     SendFinishedDataAck, DataAck
<1>16. ASSUME NEW mark \in Marks, UpdatePeerWaterMark(mark) PROVE TokenInv'
  BY Zenon, <1>16 DEF TypeInv, TypeOK, SenderTypeOK, senderVars, netVars,
     receiverVars, taskVars, windowVars, dataVars, storeVars, schedVars,
     UpdatePeerWaterMark
<1>17. ASSUME ReceiverRestart PROVE TokenInv'
  BY Zenon, <1>17 DEF TypeInv, TypeOK, SenderTypeOK, senderVars, netVars,
     receiverVars, taskVars, windowVars, dataVars, storeVars, schedVars,
     ReceiverRestart
<1>18. ASSUME NEW rowsToo \in BOOLEAN, RemoveDeviceData(rowsToo) PROVE TokenInv'
  BY Zenon, <1>18 DEF TypeInv, TypeOK, SenderTypeOK, senderVars, netVars,
     receiverVars, taskVars, windowVars, dataVars, storeVars, schedVars,
     RemoveDeviceData, MayHappen
<1>19. ASSUME NEW m \in requests, LoseRequest(m) PROVE TokenInv'
  BY Zenon, <1>19 DEF TypeInv, TypeOK, SenderTypeOK, senderVars, netVars,
     receiverVars, taskVars, windowVars, dataVars, storeVars, schedVars,
     LoseRequest
<1>20. ASSUME NEW a \in acks, LoseAck(a) PROVE TokenInv'
  BY Zenon, <1>20 DEF TypeInv, TypeOK, SenderTypeOK, senderVars, netVars,
     receiverVars, taskVars, windowVars, dataVars, storeVars, schedVars,
     LoseAck
<1>21. ASSUME NEW k \in Keys, Put(k) PROVE TokenInv'
  BY Zenon, <1>21 DEF TypeInv, TypeOK, SenderTypeOK, senderVars, netVars,
     receiverVars, taskVars, windowVars, dataVars, storeVars, schedVars, Put
<1>22. ASSUME UNCHANGED vars PROVE TokenInv'
  BY <1>22, Zenon DEF vars, senderVars, netVars, receiverVars, taskVars, windowVars, dataVars, storeVars, schedVars
<1>23. ASSUME SavePeerWaterMarkFails PROVE TokenInv'
  BY Zenon, <1>23 DEF senderVars, taskVars, windowVars, dataVars,
     SavePeerWaterMarkFails
<1> QED
  BY Zenon, <1>1, <1>2, <1>3, <1>4, <1>5, <1>6, <1>7, <1>8, <1>9, <1>10, <1>11,
     <1>12, <1>13, <1>14, <1>15, <1>16, <1>17, <1>18, <1>19, <1>20, <1>21,
     <1>22, <1>23 DEF Next, Sender, Receiver

(* The peer water mark stays at or below what is saved.                    *)
LEMMA MarkStep ==
    ASSUME MarksFollow, TypeInv, TokenInv, MarkInv, [Next]_vars PROVE MarkInv'
<1>0. /\ store \in [Keys -> Stamps] /\ saved \in [Keys -> Stamps]
      /\ clock \in Stamps /\ peerMark \in Marks
  BY Zenon DEF TypeInv, TypeOK, SenderTypeOK, ReceiverTypeOK
<1>1. ASSUME CopyTargetData PROVE MarkInv'
  BY Zenon, <1>1, MarkFrame DEF senderVars, netVars, receiverVars, taskVars,
     windowVars, dataVars, storeVars, schedVars, CopyTargetData
<1>2. ASSUME SyncStart PROVE MarkInv'
  BY Zenon, <1>2, MarkFrame DEF senderVars, netVars, receiverVars, taskVars,
     windowVars, dataVars, storeVars, schedVars, SyncStart
<1>3. ASSUME SendFails PROVE MarkInv'
  BY Zenon, <1>3, MarkFrame DEF senderVars, netVars, receiverVars, taskVars,
     windowVars, dataVars, storeVars, schedVars, SendFails, AbortInner,
     InnerClearSyncStatus
<1>4. ASSUME TaskTimeout PROVE MarkInv'
  BY Zenon, <1>4, MarkFrame DEF senderVars, netVars, receiverVars, taskVars,
     windowVars, dataVars, storeVars, schedVars, TaskTimeout, AbortInner,
     InnerClearSyncStatus
<1>5. ASSUME NEW end \in Marks, NEW result \in SendResults, RequestStart(end, result) PROVE MarkInv'
  <2> DEFINE from == GetDataFrom
             new == Request(maxSequenceIdHasSent + 1, packetId + 1, localMark,
                            GetSyncData(from, end))
  <2>1. from \in Marks /\ localMark \in Marks /\ from <= localMark
    BY <1>5 DEF GetDataFrom, TypeInv, TypeOK, SenderTypeOK, FlagTypeOK, Marks, TokenInv
  <2>2. Sound(new)
    BY <2>1, BlockSound, Zenon
  <2>3. /\ requests' \subseteq requests \cup {new}
        /\ UNCHANGED <<store, clock, saved, peerMark, handling>>
    BY <1>5, Zenon DEF RequestStart, storeVars, receiverVars
  <2> HIDE DEF new
  <2> QED BY <2>2, <2>3, MarkAdd, Zenon
<1>6. ASSUME NEW info \in reSendMap, NEW end \in Marks, ReSendData(info, end) PROVE MarkInv'
  <2> DEFINE new == Request(info.seq, info.packet, info.start,
                            GetSyncData(info.start, end))
  <2>1. info.start \in Marks
    BY Zenon DEF TypeInv, TypeOK, SenderTypeOK, ReSendInfoType
  <2>2. Sound(new)
    BY <2>1, BlockSound DEF Marks
  <2>3. /\ requests' \subseteq requests \cup {new}
        /\ UNCHANGED <<store, clock, saved, peerMark, handling>>
    BY <1>6, Zenon DEF ReSendData, storeVars, receiverVars
  <2> HIDE DEF new
  <2> QED BY <2>2, <2>3, MarkAdd, Zenon
<1>7. ASSUME NEW a \in acks, AckDropped(a) PROVE MarkInv'
  BY Zenon, <1>7, MarkFrame DEF senderVars, netVars, receiverVars, taskVars,
     windowVars, dataVars, storeVars, schedVars, AckDropped
<1>8. ASSUME NEW a \in acks, AckRecvError(a) PROVE MarkInv'
  BY Zenon, <1>8, MarkFrame DEF senderVars, netVars, receiverVars, taskVars,
     windowVars, dataVars, storeVars, schedVars, AckRecvError, AckOf,
     AbortInner, InnerClearSyncStatus, IsPacketValid
<1>9. ASSUME NEW a \in acks, DealWaterMarkException(a) PROVE MarkInv'
  BY Zenon, <1>9, MarkFrame DEF senderVars, netVars, receiverVars, taskVars,
     windowVars, dataVars, storeVars, schedVars, DealWaterMarkException,
     AckOf, InnerClearSyncStatus, IsPacketValid
<1>10. ASSUME NEW a \in acks, TryContinueSync(a) PROVE MarkInv'
  BY Zenon, <1>10, MarkFrame DEF senderVars, netVars, receiverVars, taskVars,
     windowVars, dataVars, storeVars, schedVars, TryContinueSync, AckOf,
     InnerClearSyncStatus, IsPacketValid
<1>11. ASSUME NEW m \in requests, NewSession(m) PROVE MarkInv'
  BY Zenon, <1>11, MarkFrame DEF senderVars, netVars, receiverVars, taskVars,
     windowVars, dataVars, storeVars, schedVars, NewSession
<1>12. ASSUME NEW m \in requests, WaterMarkErrHandle(m) PROVE MarkInv'
  BY Zenon, <1>12, MarkFrame DEF senderVars, netVars, receiverVars, taskVars,
     windowVars, dataVars, storeVars, schedVars, WaterMarkErrHandle, IsDue,
     DataAck
<1>13. ASSUME NEW m \in requests, SaveDataFails(m) PROVE MarkInv'
  BY Zenon, <1>13, MarkFrame DEF senderVars, netVars, receiverVars, taskVars,
     windowVars, dataVars, storeVars, schedVars, SaveDataFails, IsDue,
     DataAck
<1>14. ASSUME NEW m \in requests, DataRequestRecv(m) PROVE MarkInv'
  <2>1. /\ saved' = Merge(m.data) /\ handling' = m /\ ~Refused(m)
        /\ requests' \subseteq requests
        /\ UNCHANGED <<store, clock, peerMark>>
    BY <1>14, Zenon DEF DataRequestRecv, storeVars
  <2>2. /\ \A k \in Keys : saved'[k] <= store[k]
        /\ \A k \in Keys : saved[k] = store[k] => saved'[k] = store[k]
        /\ \A k \in Keys : \A r \in m.data :
               store[k] # 0 /\ store[k] <= r[2] => saved'[k] = store[k]
    BY <2>1, MergeSaves, Zenon
  <2>3. \A x \in requests : Sound(x)'
    BY <2>1, Zenon DEF MarkInv, DataInv, Sound
  <2>4. DataInv'
    BY <2>1, <2>2, <2>3, Zenon DEF MarkInv, DataInv
  <2>5. Sound(handling)'
    BY <2>1, <2>3, Zenon DEF Sound
  <2>6. HandlingInv'
    BY <2>1, <2>2, <2>5, Zenon DEF HandlingInv
  <2>7. PeerMarkCoversData'
    BY <2>1, <2>2, Zenon DEF MarkInv, PeerMarkCoversData
  <2> QED BY <2>4, <2>6, <2>7, Zenon DEF MarkInv
<1>15. ASSUME NEW m \in requests, SendFinishedDataAck(m) PROVE MarkInv'
  BY Zenon, <1>15, MarkFrame DEF senderVars, netVars, receiverVars, taskVars,
     windowVars, dataVars, storeVars, schedVars, SendFinishedDataAck,
     DataAck
<1>16. ASSUME NEW mark \in Marks, UpdatePeerWaterMark(mark) PROVE MarkInv'
  <2>1. /\ handling # NoPacket /\ handling' = NoPacket /\ peerMark' = mark
        /\ UNCHANGED <<store, clock, saved, requests>>
    BY <1>16, Zenon DEF UpdatePeerWaterMark, storeVars, netVars
  <2>2. \A x \in requests : Sound(x)'
    BY <2>1, Zenon DEF MarkInv, DataInv, Sound
  <2>3. HandlingInv'
    BY <2>1, Zenon DEF HandlingInv
  <2>4. CASE handling.data = {}
    <3>1. peerMark' = peerMark
      BY <1>16, <2>4, Zenon DEF UpdatePeerWaterMark
    <3> QED BY <2>1, <2>2, <2>3, <3>1, Zenon DEF MarkInv, DataInv, PeerMarkCoversData
  <2>5. CASE handling.data # {}
    <3>1. PICK r \in handling.data : r[2] = mark - 1
      BY <1>16, <2>5, Zenon DEF UpdatePeerWaterMark, IsDataEnd
    <3>2. handling.data \in DataSets
      BY <2>1, Zenon DEF TypeInv, TypeOK, ReceiverTypeOK, RequestType
    <3>3. r[1] \in Keys /\ r[2] \in Stamps /\ r[2] <= store[r[1]]
      BY <2>1, <3>2, Zenon DEF MarkInv, HandlingInv, Sound, DataSets
    <3>4. store[r[1]] <= clock
      BY <3>3, Zenon DEF TypeInv, TaskInv
    <3>5. mark <= clock + 1
      BY <3>1, <3>3, <3>4, <1>0 DEF Stamps, Marks
    <3>6. PeerMarkCoversData'
      BY <2>1, <3>1, <3>3, <1>0 DEF MarkInv, HandlingInv, PeerMarkCoversData,
         Stamps, Marks
    <3> QED BY <2>1, <2>2, <2>3, <3>5, <3>6, Zenon DEF MarkInv, DataInv
  <2> QED BY <2>4, <2>5, Zenon
<1>17. ASSUME ReceiverRestart PROVE MarkInv'
  <2>1. /\ handling' = NoPacket
        /\ UNCHANGED <<store, clock, saved, peerMark, requests>>
    BY <1>17, Zenon DEF ReceiverRestart, storeVars
  <2>2. \A x \in requests : Sound(x)'
    BY <2>1, Zenon DEF MarkInv, DataInv, Sound
  <2> QED
    BY <2>1, <2>2, Zenon DEF MarkInv, DataInv, HandlingInv, PeerMarkCoversData
<1>18. ASSUME NEW rowsToo \in BOOLEAN, RemoveDeviceData(rowsToo) PROVE MarkInv'
  <2>1. /\ handling = NoPacket /\ handling' = NoPacket /\ peerMark' = 0
        /\ saved' = [k \in Keys |-> 0] \/ saved' = saved
        /\ UNCHANGED <<store, clock, requests>>
    BY <1>18, Zenon DEF RemoveDeviceData, MayHappen, MarksFollow, storeVars
  <2>2. \A x \in requests : Sound(x)'
    BY <2>1, Zenon DEF MarkInv, DataInv, Sound
  <2>3. \A k \in Keys : saved'[k] <= store[k]
    BY <2>1, <1>0 DEF MarkInv, DataInv, Stamps
  <2>4. PeerMarkCoversData'
    BY <2>1, <1>0 DEF PeerMarkCoversData, Stamps
  <2> QED
    BY <2>1, <2>2, <2>3, <2>4, <1>0 DEF MarkInv, DataInv, HandlingInv, Stamps
<1>19. ASSUME NEW m \in requests, LoseRequest(m) PROVE MarkInv'
  BY Zenon, <1>19, MarkFrame DEF senderVars, netVars, receiverVars, taskVars,
     windowVars, dataVars, storeVars, schedVars, LoseRequest
<1>20. ASSUME NEW a \in acks, LoseAck(a) PROVE MarkInv'
  BY Zenon, <1>20, MarkFrame DEF senderVars, netVars, receiverVars, taskVars,
     windowVars, dataVars, storeVars, schedVars, LoseAck
<1>21. ASSUME NEW k \in Keys, Put(k) PROVE MarkInv'
  <2>1. /\ clock' = clock + 1 /\ store' = [store EXCEPT ![k] = clock + 1]
        /\ UNCHANGED <<saved, peerMark, handling, requests>>
    BY <1>21, Zenon DEF Put, netVars, receiverVars
  <2>2. \A x \in Keys : /\ store[x] <= clock /\ store[x] <= store'[x]
                        /\ store'[x] = store[x] \/ store'[x] = clock + 1
                        /\ store'[x] \in Nat /\ store[x] \in Nat
                        /\ saved[x] \in Nat
    BY <2>1, <1>0 DEF TypeInv, TaskInv, Stamps
  <2>3. ASSUME NEW m, m.data \in DataSets, m.mark \in Marks, Sound(m)
        PROVE  /\ Sound(m)'
               /\ \A x \in Keys : \A r \in m.data :
                      store'[x] <= r[2] => store'[x] = store[x]
    <3>1. \A r \in m.data : /\ r[1] \in Keys /\ r[2] \in Nat
                            /\ r[2] <= store[r[1]] /\ 0 < r[2]
      BY <2>3 DEF Sound, DataSets, Stamps
    <3>2. \A r \in m.data : r[2] <= clock /\ r[2] <= store'[r[1]]
      BY <3>1, <2>2, <1>0 DEF Stamps
    <3>3. \A x \in Keys : \A r \in m.data :
              store'[x] <= r[2] => store'[x] = store[x]
      BY <3>1, <3>2, <2>2, <1>0 DEF Stamps
    <3> QED BY <2>3, <3>1, <3>2, <3>3, Zenon DEF Sound
  <2>4. \A m \in requests : Sound(m)'
    BY <2>3, Zenon DEF MarkInv, DataInv, TypeInv, TypeOK, NetTypeOK, RequestType
  <2>5. HandlingInv'
    <3> SUFFICES ASSUME handling # NoPacket PROVE HandlingInv'
      BY <2>1, Zenon DEF HandlingInv
    <3>1. handling.data \in DataSets /\ handling.mark \in Marks
      BY Zenon DEF TypeInv, TypeOK, ReceiverTypeOK, RequestType
    <3>2. Sound(handling)
      BY Zenon DEF MarkInv, HandlingInv
    <3>3. \A x \in Keys : \A r \in handling.data :
              store'[x] <= r[2] => store'[x] = store[x]
      BY <3>1, <3>2, <2>3, Zenon
    <3>4. Sound(handling)'
      BY <3>1, <3>2, <2>1, <2>3, Zenon DEF Sound
    <3> QED BY <2>1, <3>3, <3>4, Zenon DEF MarkInv, HandlingInv
  <2>6. DataInv'
    BY <2>1, <2>2, <2>4, <1>0 DEF MarkInv, DataInv, Stamps, Marks
  <2>7. PeerMarkCoversData'
    BY <2>1, <2>2, <1>0 DEF MarkInv, DataInv, PeerMarkCoversData, Stamps, Marks
  <2> QED BY <2>5, <2>6, <2>7, Zenon DEF MarkInv
<1>22. ASSUME UNCHANGED vars PROVE MarkInv'
  BY <1>22, MarkFrame, Zenon DEF vars, senderVars, netVars, receiverVars, taskVars, windowVars, dataVars, storeVars, schedVars
<1>23. ASSUME SavePeerWaterMarkFails PROVE MarkInv'
  <2>1. /\ handling' = NoPacket
        /\ UNCHANGED <<store, clock, saved, peerMark, requests>>
    BY <1>23, Zenon DEF SavePeerWaterMarkFails, storeVars
  <2>2. \A x \in requests : Sound(x)'
    BY <2>1, Zenon DEF MarkInv, DataInv, Sound
  <2> QED
    BY <2>1, <2>2, Zenon DEF MarkInv, DataInv, HandlingInv, PeerMarkCoversData
<1> QED
  BY Zenon, <1>1, <1>2, <1>3, <1>4, <1>5, <1>6, <1>7, <1>8, <1>9, <1>10, <1>11,
     <1>12, <1>13, <1>14, <1>15, <1>16, <1>17, <1>18, <1>19, <1>20, <1>21,
     <1>22, <1>23 DEF Next, Sender, Receiver

(* As long as the local water mark moves with every packet sent and no     *)
(* removal falls between a save and its mark, the peer water mark never    *)
(* passes a record that is not saved, for any number of keys, sessions,    *)
(* losses and save failures (DataRequestRecv, WaterMarkErrHandle).         *)
THEOREM PeerMarkSafe == ASSUME MarksFollow PROVE Spec => []PeerMarkCoversData
<1>1. Init => TypeInv /\ TokenInv /\ MarkInv
  BY TypeInit, MarkInit, Zenon
<1>2. TypeInv /\ TokenInv /\ MarkInv /\ [Next]_vars
          => (TypeInv /\ TokenInv /\ MarkInv)'
  BY TypeStep, TokenStep, MarkStep, Zenon
<1>3. TypeInv /\ TokenInv /\ MarkInv => PeerMarkCoversData
  BY Zenon DEF MarkInv
<1> QED
  BY <1>1, <1>2, <1>3, PTL DEF Spec

-----------------------------------------------------------------------------
(* Part 3.  A task that finished has delivered, as long as no packet of it *)
(* is refused by its content or cut when it is resent, its data are not    *)
(* removed, and its water marks are not negotiated anew.  What befell the  *)
(* tasks before it does not matter.                                        *)
Calm == met \subseteq {"restart"}

Active == status \in {"start", "syncing"}
Delivered ==
    \A k \in Keys : store[k] # 0 /\ store[k] < localMark => saved[k] = store[k]

(* A packet or ack is of the running task or of one before it; Last is the *)
(* newest packet of the running task, which holds all that is to be sent   *)
(* between its mark and the local water mark.                              *)
OfTask(m) ==
    /\ m.session <= requestSession
    /\ Active /\ m.session = requestSession => m.seq <= maxSequenceIdHasSent
Last(m) ==
    Active /\ m.session = requestSession /\ m.seq = maxSequenceIdHasSent
Holds(m) ==
    \A k \in Keys : store[k] # 0 /\ m.mark <= store[k] /\ store[k] < localMark
                      => <<k, store[k]>> \in m.data

(* The local water mark is where the next block starts and where the last  *)
(* block sent ends.                                                        *)
BlockInv ==
    /\ localMark <= clock + 1 /\ ~needRetry
    /\ continueToken # 0 => continueToken = localMark
    /\ sessionId = 0 => maxSequenceIdHasSent = 0
    /\ \A i \in reSendMap :
           /\ i.end <= localMark /\ (i.start < i.end => i.end < localMark)
           /\ i.seq = maxSequenceIdHasSent => localMark <= i.end + 1
SeqInv ==
    /\ \A m \in requests \cup acks : OfTask(m)
    /\ handling # NoPacket => /\ OfTask(handling) /\ handling.seq = expected
                              /\ handling.session = currentSession
    /\ currentSession <= requestSession
    /\ Active /\ currentSession = requestSession
           => expected <= maxSequenceIdHasSent + 1
(* Who knows that the last packet was saved: its ack, the thread that has  *)
(* saved it, the sequence id the receiver expects, the sender's window.    *)
DeliveryInv ==
    /\ \A m \in requests : Last(m) => Holds(m)
    /\ \A a \in acks : a.code = "ok" /\ Last(a) => Delivered
    /\ handling # NoPacket /\ Last(handling) => Delivered
    /\ /\ Active /\ currentSession = requestSession
       /\ 0 < maxSequenceIdHasSent /\ maxSequenceIdHasSent < expected
       => Delivered
    /\ Active /\ maxSequenceIdHasSent > 0
           => Delivered \/ \E i \in reSendMap : i.seq = maxSequenceIdHasSent
    /\ status = "finished" => Delivered

(* What holds in every task, and is all that the next one builds on: no    *)
(* mark is ahead of the sender's clock, nothing on its way or handled is   *)
(* of a session to come.                                                   *)
RestInv ==
    /\ sessionId = 0 => maxSequenceIdHasSent = 0
    /\ localMark <= clock + 1
    /\ \A i \in reSendMap :
           i.end <= clock + 1 /\ (i.start < i.end => i.end <= clock)
    /\ \A a \in acks : a.session <= requestSession /\ a.mark <= clock + 1
    /\ \A m \in requests : m.session <= requestSession
    /\ currentSession <= requestSession
    /\ handling # NoPacket => /\ handling.seq = expected
                              /\ handling.session = currentSession

(* The kinds of steps that a task takes while it is calm.                  *)
Abort ==
    /\ AbortInner /\ acks' \subseteq acks
    /\ UNCHANGED <<storeVars, localMark, requestSession, requests, receiverVars>>
Drop ==
    /\ requests' \subseteq requests /\ acks' \subseteq acks
    /\ UNCHANGED <<storeVars, senderVars, receiverVars>>
Step ==
    \/ Abort \/ Drop \/ SyncStart \/ ReceiverRestart \/ SavePeerWaterMarkFails
    \/ \E end \in Marks : RequestStart(end, "ok")
    \/ \E info \in reSendMap : ReSendData(info, info.end)
    \/ \E a \in acks : TryContinueSync(a)
    \/ \E m \in requests : \/ NewSession(m) \/ WaterMarkErrHandle(m)
                           \/ DataRequestRecv(m) \/ SendFinishedDataAck(m)
    \/ \E mark \in Marks : UpdatePeerWaterMark(mark)
    \/ \E k \in Keys : Put(k)

(* A step after which the task is calm is of one of these kinds.           *)
LEMMA Steps ==
    ASSUME MarksFollow, [Next]_vars, ~CopyTargetData, Calm' PROVE Calm /\ Step
<1>1. SendResults = {"ok"}
  BY SMT DEF MarksFollow, SendResults
<1>2. ASSUME SendFails \/ TaskTimeout \/ \E a \in acks : AckRecvError(a)
      PROVE  Abort /\ met' = met
  BY <1>2, Zenon DEF SendFails, TaskTimeout, AckRecvError, AckOf, Abort, netVars
<1>3. ASSUME \/ UNCHANGED vars \/ (\E a \in acks : AckDropped(a) \/ LoseAck(a))
             \/ \E m \in requests : LoseRequest(m)
      PROVE  Drop /\ met' = met
  BY <1>3, Zenon DEF vars, AckDropped, LoseAck, LoseRequest, Drop, netVars
<1>4. "cut" \notin met' /\ "exception" \notin met' /\ "refused" \notin met'
      /\ "removed" \notin met'
  BY SMT DEF Calm
<1>5. ASSUME NEW info \in reSendMap, NEW end \in Marks, ReSendData(info, end)
      PROVE  end = info.end /\ met \subseteq met'
  BY <1>4, <1>5, Zenon DEF ReSendData
<1>6. /\ \A m \in requests : ~SaveDataFails(m)
      /\ \A rowsToo \in BOOLEAN : ~RemoveDeviceData(rowsToo)
      /\ \A a \in acks : ~DealWaterMarkException(a)
  BY <1>4, Zenon DEF SaveDataFails, RemoveDeviceData, DealWaterMarkException
<1>7. ASSUME \/ SyncStart \/ \E end \in Marks : RequestStart(end, "ok")
             \/ \E a \in acks : TryContinueSync(a)
      PROVE  met' = met
  BY <1>7, Zenon DEF SyncStart, RequestStart, TryContinueSync
<1>8. ASSUME \/ \E m \in requests : \/ NewSession(m) \/ WaterMarkErrHandle(m)
                                     \/ DataRequestRecv(m)
                                     \/ SendFinishedDataAck(m)
             \/ \E mark \in Marks : UpdatePeerWaterMark(mark)
             \/ SavePeerWaterMarkFails \/ ReceiverRestart
             \/ \E k \in Keys : Put(k)
      PROVE  met \subseteq met'
  BY <1>8, Zenon DEF NewSession, WaterMarkErrHandle, DataRequestRecv, Put,
     SendFinishedDataAck, UpdatePeerWaterMark, SavePeerWaterMarkFails, ReceiverRestart
<1>9. ASSUME Sender PROVE Step /\ met \subseteq met'
  BY <1>1, <1>2, <1>3, <1>5, <1>6, <1>7, <1>9, Zenon DEF Sender, Step
<1>10. ASSUME Receiver PROVE Step /\ met \subseteq met'
  BY <1>6, <1>8, <1>10, Zenon DEF Receiver, Step
<1>11. Step /\ met \subseteq met'
  BY <1>3, <1>8, <1>9, <1>10, Zenon DEF Next, Step
<1> QED BY <1>11, Zenon DEF Calm

(* The numbers that the invariant compares.                                *)
LEMMA Numbers ==
    ASSUME TypeInv
    PROVE  /\ store \in [Keys -> Nat] /\ saved \in [Keys -> Nat] /\ clock \in Nat
           /\ localMark \in Nat /\ peerMark \in Nat /\ continueToken \in Nat
           /\ requestSession \in Nat /\ currentSession \in Nat
           /\ maxSequenceIdHasSent \in Nat /\ expected \in Nat
           /\ needRetry \in BOOLEAN /\ isAllDataHasSent \in BOOLEAN
           /\ \A m \in requests : /\ m.session \in Nat /\ m.seq \in Nat \ {0}
                                  /\ m.mark \in Nat
           /\ \A a \in acks : /\ a.session \in Nat /\ a.seq \in Nat \ {0}
                              /\ a.mark \in Nat
           /\ \A i \in reSendMap : /\ i.seq \in Nat \ {0} /\ i.start \in Nat
                                   /\ i.end \in Nat
           /\ handling # NoPacket =>
                  handling.session \in Nat /\ handling.seq \in Nat \ {0}
<1>1. /\ Stamps \subseteq Nat /\ Marks \subseteq Nat
      /\ 0..MaxSession \subseteq Nat /\ 1..MaxSession \subseteq Nat
  BY SMT DEF Stamps, Marks
<1>2. store \in [Keys -> Nat] /\ saved \in [Keys -> Nat]
  BY <1>1, Zenon DEF TypeInv, TypeOK, SenderTypeOK, ReceiverTypeOK
<1> QED
  BY <1>1, <1>2, Zenon DEF TypeInv, TypeOK, FlagTypeOK, SenderTypeOK, NetTypeOK,
     ReceiverTypeOK, RequestType, AckType, ReSendInfoType

(* What RequestStart sends: the block from the local water mark to the new *)
(* one, with every record in between.                                      *)
LEMMA NextBlock ==
    ASSUME TypeInv, BlockInv, NEW end \in Marks, RequestStart(end, "ok")
    PROVE  /\ Active /\ sessionId # 0 /\ sessionId' = sessionId
           /\ maxSequenceIdHasSent' = maxSequenceIdHasSent + 1
           /\ \E id \in Nat : reSendMap' = reSendMap \cup
                  {[seq |-> maxSequenceIdHasSent + 1, start |-> localMark,
                    end |-> end, packet |-> id]}
           /\ \E id, data :
                  /\ requests' = requests \cup
                         {Request(maxSequenceIdHasSent + 1, id, localMark, data)}
                  /\ \A k \in Keys :
                         /\ store[k] # 0 /\ localMark <= store[k]
                         /\ store[k] < localMark'
                         => <<k, store[k]>> \in data
           /\ localMark' \in Nat
           /\ localMark <= localMark' /\ localMark' <= clock + 1
           /\ end <= localMark' /\ localMark' <= end + 1
           /\ localMark < end => end < localMark'
           /\ continueToken' # 0 => continueToken' = localMark'
           /\ ~needRetry'
           /\ UNCHANGED <<storeVars, taskVars, acks, receiverVars>>
<1> DEFINE data == GetSyncData(localMark, end)
           more == GetSyncData(end + 1, clock)
<1>0. /\ SenderTypeOK /\ TaskInv /\ packetId \in Nat /\ end \in Nat
      /\ store \in [Keys -> Nat] /\ clock \in Nat /\ localMark \in Nat
      /\ maxSequenceIdHasSent \in Nat
  BY Numbers, SMT DEF TypeInv, TypeOK, SenderTypeOK, Marks
<1>1. GetDataFrom = localMark
  BY Zenon DEF BlockInv, GetDataFrom
<1>2. Active /\ sessionId # 0
  BY Zenon DEF RequestStart, TypeInv, WindowInv, TaskInv, Active
<1>3. /\ BlockEnd(localMark, end) /\ ~needRetry'
      /\ continueToken' = IF more = {} THEN 0 ELSE end + 1
      /\ localMark' = MarkAfter(data, end)
      /\ requests' = requests \cup
             {Request(maxSequenceIdHasSent + 1, packetId + 1, localMark, data)}
      /\ UNCHANGED <<storeVars, taskVars, acks, receiverVars>>
  BY <1>1, Zenon DEF RequestStart
<1>4. /\ maxSequenceIdHasSent' = maxSequenceIdHasSent + 1 /\ sessionId' = sessionId
      /\ reSendMap' = reSendMap \cup
             {[seq |-> maxSequenceIdHasSent + 1, start |-> localMark,
               end |-> end, packet |-> packetId + 1]}
  BY Zenon DEF RequestStart, UpdateSendInfo
<1>5. \A r \in Records : r[2] \in Nat /\ r[2] <= clock
  BY <1>0, RecordsTyped, SMT
<1>6. /\ localMark <= localMark' /\ localMark' <= clock + 1
      /\ end <= localMark' /\ localMark' <= end + 1
      /\ localMark < end => end < localMark'
      /\ continueToken' # 0 => continueToken' = localMark'
  <2>1. CASE GetSyncData(localMark, clock) = {} /\ end = localMark
    <3>1. data = {} /\ more = {}
      BY <1>0, <1>5, <2>1, SMT DEF GetSyncData
    <3>2. localMark' = localMark /\ continueToken' = 0
      BY <1>3, <2>1, <3>1, Zenon DEF MarkAfter
    <3> QED BY <1>0, <2>1, <3>2, SMT DEF BlockInv
  <2>2. CASE \E r \in GetSyncData(localMark, clock) : end = r[2]
    <3>1. PICK r \in Records : localMark <= r[2] /\ r[2] <= clock /\ end = r[2]
      BY <2>2, Zenon DEF GetSyncData
    <3>2. r \in data
      BY <1>0, <3>1, SMT DEF GetSyncData
    <3>3. localMark' = end + 1
      BY <1>3, <3>2, Zenon DEF MarkAfter
    <3> QED BY <1>0, <1>3, <3>1, <3>3, SMT
  <2> QED BY <1>3, <2>1, <2>2, Zenon DEF BlockEnd
<1>7. ASSUME NEW k \in Keys, store[k] # 0, localMark <= store[k],
             store[k] < localMark'
      PROVE  <<k, store[k]>> \in data
  <2>1. <<k, store[k]>> \in Records
    BY <1>7, Zenon DEF Records
  <2>2. store[k] <= end
    BY <1>0, <1>3, <1>6, <1>7, SMT DEF MarkAfter
  <2> QED BY <1>7, <2>1, <2>2, Zenon DEF GetSyncData
<1> HIDE DEF data
<1>8. packetId + 1 \in Nat /\ localMark' \in Nat
  BY <1>0, <1>3, SMT DEF MarkAfter
<1> QED BY <1>2, <1>3, <1>4, <1>6, <1>7, <1>8, Zenon

(* ReSendData finds the local water mark behind the block already.         *)
LEMMA MarkKept ==
    ASSUME TypeInv, BlockInv, NEW info \in reSendMap, ReSendData(info, info.end)
    PROVE  localMark' = localMark
<1>1. /\ info.start \in Nat /\ info.end \in Nat /\ localMark \in Nat
      /\ info.end <= localMark /\ (info.start < info.end => info.end < localMark)
  BY Numbers, Zenon DEF BlockInv
<1>2. localMark >= IF info.end > info.start THEN info.end + 1 ELSE info.end
  BY <1>1, SMT
<1> QED BY <1>2, Zenon DEF ReSendData

(* The blocks stay adjacent: RequestStart reads on where it stopped.       *)
LEMMA BlockStep ==
    ASSUME TypeInv, BlockInv, Step PROVE BlockInv'
<1>0. /\ localMark \in Nat /\ clock \in Nat /\ maxSequenceIdHasSent \in Nat
      /\ \A i \in reSendMap : /\ i.seq \in Nat /\ i.end \in Nat /\ i.start \in Nat
                              /\ i.seq <= maxSequenceIdHasSent
  BY Numbers, Zenon DEF TypeInv, WindowInv
<1>1. ASSUME UNCHANGED <<localMark, clock, needRetry, continueToken, sessionId,
                         maxSequenceIdHasSent, reSendMap>>
      PROVE  BlockInv'
  BY <1>1, Zenon DEF BlockInv
<1>2. ASSUME UNCHANGED <<localMark, clock>>, ~needRetry',
             maxSequenceIdHasSent' = 0, reSendMap' = {},
             continueToken' = continueToken \/ continueToken' = 0
      PROVE  BlockInv'
  BY <1>2, Zenon DEF BlockInv
<1>3. CASE Abort
  BY <1>2, <1>3, Zenon DEF Abort, AbortInner, InnerClearSyncStatus, storeVars
<1>4. CASE SyncStart
  BY <1>2, <1>4, Zenon DEF SyncStart, storeVars, BlockInv
<1>5. CASE SavePeerWaterMarkFails
  BY <1>1, <1>5, Zenon DEF SavePeerWaterMarkFails, storeVars, senderVars,
     windowVars, dataVars
<1>6. CASE Drop \/ ReceiverRestart
  BY <1>1, <1>6, Zenon DEF Drop, ReceiverRestart, storeVars, senderVars,
     windowVars, dataVars
<1>7. CASE \E m \in requests : \/ NewSession(m) \/ WaterMarkErrHandle(m)
                               \/ DataRequestRecv(m) \/ SendFinishedDataAck(m)
  BY <1>1, <1>7, Zenon DEF NewSession, WaterMarkErrHandle, DataRequestRecv,
     SendFinishedDataAck, storeVars, senderVars, windowVars, dataVars
<1>8. CASE \E mark \in Marks : UpdatePeerWaterMark(mark)
  BY <1>1, <1>8, Zenon DEF UpdatePeerWaterMark, storeVars, senderVars, windowVars,
     dataVars
<1>9. ASSUME NEW info \in reSendMap, ReSendData(info, info.end) PROVE BlockInv'
  BY <1>1, <1>9, MarkKept, Zenon DEF ReSendData, storeVars, windowVars, dataVars
<1>10. ASSUME NEW k \in Keys, Put(k) PROVE BlockInv'
  <2>1. /\ clock' = clock + 1
        /\ UNCHANGED <<localMark, needRetry, continueToken, sessionId,
                       maxSequenceIdHasSent, reSendMap>>
    BY <1>10, Zenon DEF Put, senderVars, windowVars, dataVars
  <2>2. localMark' <= clock' + 1
    BY <1>0, <2>1, SMT DEF BlockInv
  <2> QED BY <2>1, <2>2, Zenon DEF BlockInv
<1>11. ASSUME NEW a \in acks, TryContinueSync(a) PROVE BlockInv'
  <2>1. UNCHANGED <<localMark, clock, continueToken, needRetry>>
    BY <1>11, Zenon DEF TryContinueSync, storeVars, dataVars
  <2>2. \/ UNCHANGED windowVars
        \/ InnerClearSyncStatus
        \/ /\ reSendMap' = {i \in reSendMap : i.seq # a.seq}
           /\ UNCHANGED <<sessionId, maxSequenceIdHasSent>>
    BY <1>11, Zenon DEF TryContinueSync
  <2> QED BY <2>1, <2>2, Zenon DEF windowVars, InnerClearSyncStatus, BlockInv
<1>12. ASSUME NEW end \in Marks, RequestStart(end, "ok") PROVE BlockInv'
  <2>1. PICK id \in Nat : reSendMap' = reSendMap \cup
            {[seq |-> maxSequenceIdHasSent + 1, start |-> localMark,
              end |-> end, packet |-> id]}
    BY <1>12, NextBlock, Zenon
  <2>2. /\ sessionId # 0 /\ sessionId' = sessionId
        /\ maxSequenceIdHasSent' = maxSequenceIdHasSent + 1
        /\ localMark <= localMark' /\ localMark' <= clock + 1 /\ clock' = clock
        /\ end <= localMark' /\ localMark' <= end + 1
        /\ localMark < end => end < localMark'
        /\ continueToken' # 0 => continueToken' = localMark'
        /\ ~needRetry'
    BY <1>12, NextBlock, Zenon DEF storeVars
  <2>3. localMark' \in Nat /\ end \in Nat
    BY <1>12, NextBlock, SMT DEF Marks
  <2>4. ASSUME NEW i \in reSendMap
        PROVE  /\ i.end <= localMark' /\ (i.start < i.end => i.end < localMark')
               /\ i.seq # maxSequenceIdHasSent'
    BY <1>0, <2>2, <2>3, SMT DEF BlockInv
  <2>5. ASSUME NEW i \in reSendMap', i \notin reSendMap
        PROVE  /\ i.end <= localMark' /\ (i.start < i.end => i.end < localMark')
               /\ localMark' <= i.end + 1
    <3>1. i.start = localMark /\ i.end = end
      BY <2>1, <2>5, SMT
    <3> QED BY <2>2, <3>1, Zenon
  <2> QED BY <2>2, <2>4, <2>5, Zenon DEF BlockInv
<1> QED BY <1>3, <1>4, <1>5, <1>6, <1>7, <1>8, <1>9, <1>10, <1>11, <1>12, Zenon
        DEF Step

(* The ack of a packet is of the same task and sequence id.                *)
LEMMA AckOfPacket ==
    ASSUME NEW m, NEW code
    PROVE  /\ DataAck(m, code).session = m.session
           /\ DataAck(m, code).seq = m.seq /\ DataAck(m, code).code = code
           /\ OfTask(m) => OfTask(DataAck(m, code))
           /\ Last(DataAck(m, code)) => Last(m)
  BY SMT DEF DataAck, OfTask, Last

(* Nobody is ahead of the sender: not the packets and acks on their way,   *)
(* not the receiver's schedule.                                            *)
LEMMA SeqStep ==
    ASSUME TypeInv, BlockInv, SeqInv, Step PROVE SeqInv'
<1>0. /\ requestSession \in Nat /\ currentSession \in Nat
      /\ maxSequenceIdHasSent \in Nat /\ expected \in Nat
      /\ \A m \in requests \cup acks : m.session \in Nat /\ m.seq \in Nat
      /\ handling # NoPacket => handling.session \in Nat /\ handling.seq \in Nat
  BY Numbers, Zenon
<1>1. ASSUME UNCHANGED <<requestSession, status, maxSequenceIdHasSent>>
      PROVE  (Active <=> Active') /\ \A m : OfTask(m) => OfTask(m)'
  BY <1>1, Zenon DEF Active, OfTask
<1>2. ASSUME UNCHANGED <<requestSession, currentSession, expected, handling>>,
             requests' \subseteq requests, acks' \subseteq acks,
             \/ UNCHANGED <<status, maxSequenceIdHasSent>>
             \/ status' = "failed" \/ status' = "finished"
      PROVE  SeqInv'
  <2>1. CASE UNCHANGED <<status, maxSequenceIdHasSent>>
    BY <1>1, <1>2, <2>1, Zenon DEF SeqInv
  <2>2. CASE status' = "failed" \/ status' = "finished"
    <3>1. ~Active'
      BY <2>2, SMT DEF Active
    <3> QED BY <1>2, <3>1, Zenon DEF SeqInv, OfTask
  <2> QED BY <1>2, <2>1, <2>2, Zenon
<1>3. CASE Abort
  BY <1>2, <1>3, Zenon DEF Abort, AbortInner, receiverVars, schedVars
<1>4. CASE Drop
  BY <1>2, <1>4, Zenon DEF Drop, senderVars, taskVars, windowVars, receiverVars,
     schedVars
<1>5. ASSUME NEW k \in Keys, Put(k) PROVE SeqInv'
  BY <1>2, <1>5, Zenon DEF Put, senderVars, taskVars, windowVars, netVars,
     receiverVars, schedVars
<1>6. ASSUME NEW a \in acks, TryContinueSync(a) PROVE SeqInv'
  <2>1. /\ UNCHANGED <<requestSession, currentSession, expected, handling, requests>>
        /\ acks' \subseteq acks
        /\ UNCHANGED <<status, maxSequenceIdHasSent>> \/ status' = "finished"
    BY <1>6, Zenon DEF TryContinueSync, AckOf, taskVars, windowVars, receiverVars,
       schedVars
  <2> QED BY <1>2, <2>1, Zenon
<1>7. CASE SyncStart
  <2>1. /\ sessionId = 0 /\ status = "start" /\ status' = "syncing"
        /\ maxSequenceIdHasSent' = 0
        /\ UNCHANGED <<requestSession, requests, acks, receiverVars>>
    BY <1>7, SMT DEF SyncStart, TypeInv, TaskInv, netVars
  <2>2. UNCHANGED maxSequenceIdHasSent /\ Active /\ Active'
    BY <2>1, Zenon DEF BlockInv, Active
  <2>3. \A m : OfTask(m) => OfTask(m)'
    BY <2>1, <2>2, Zenon DEF OfTask
  <2> QED BY <2>1, <2>2, <2>3, Zenon DEF SeqInv, receiverVars, schedVars
<1>8. CASE SavePeerWaterMarkFails
  <2>1. /\ handling # NoPacket /\ handling' = NoPacket /\ expected' = expected + 1
        /\ UNCHANGED <<requestSession, status, maxSequenceIdHasSent, currentSession,
                       requests, acks>>
    BY <1>8, Zenon DEF SavePeerWaterMarkFails, senderVars, taskVars, windowVars
  <2>2. Active /\ currentSession = requestSession
            => expected' <= maxSequenceIdHasSent + 1
    BY <1>0, <2>1, SMT DEF SeqInv, OfTask
  <2> QED BY <1>1, <2>1, <2>2, Zenon DEF SeqInv
<1>9. CASE ReceiverRestart
  <2>1. /\ handling' = NoPacket /\ currentSession' = 0 /\ expected' = 0
        /\ UNCHANGED <<requestSession, status, maxSequenceIdHasSent, requests, acks>>
    BY <1>9, Zenon DEF ReceiverRestart, senderVars, taskVars, windowVars
  <2>2. /\ currentSession' <= requestSession'
        /\ expected' <= maxSequenceIdHasSent' + 1
    BY <1>0, <2>1, SMT
  <2> QED BY <1>1, <2>1, <2>2, Zenon DEF SeqInv
<1>10. ASSUME NEW end \in Marks, RequestStart(end, "ok") PROVE SeqInv'
  <2>1. PICK id, data : requests' = requests \cup
            {Request(maxSequenceIdHasSent + 1, id, localMark, data)}
    BY <1>10, NextBlock, Zenon
  <2>2. /\ maxSequenceIdHasSent' = maxSequenceIdHasSent + 1
        /\ UNCHANGED <<requestSession, status, acks, receiverVars>>
    BY <1>10, NextBlock, Zenon DEF taskVars
  <2>3. ASSUME NEW m, m.session \in Nat, m.seq \in Nat, OfTask(m) PROVE OfTask(m)'
    BY <1>0, <2>2, <2>3, SMT DEF OfTask, Active
  <2>4. ASSUME NEW m \in requests', m \notin requests PROVE OfTask(m)'
    <3>1. m.session = requestSession /\ m.seq = maxSequenceIdHasSent + 1
      BY <2>1, <2>4, SMT DEF Request
    <3> QED BY <1>0, <2>2, <3>1, SMT DEF OfTask
  <2>5. expected <= maxSequenceIdHasSent + 1 => expected' <= maxSequenceIdHasSent' + 1
    BY <1>0, <2>2, SMT DEF receiverVars, schedVars
  <2>6. Active <=> Active'
    BY <2>2, Zenon DEF Active
  <2> QED BY <1>0, <2>2, <2>3, <2>4, <2>5, <2>6, Zenon DEF SeqInv, receiverVars, schedVars
<1>11. ASSUME NEW info \in reSendMap, ReSendData(info, info.end) PROVE SeqInv'
  <2>1. /\ requests' = requests \cup {Request(info.seq, info.packet, info.start,
                                              GetSyncData(info.start, info.end))}
        /\ UNCHANGED <<requestSession, status, maxSequenceIdHasSent, acks,
                       receiverVars>>
    BY <1>11, Zenon DEF ReSendData, taskVars, windowVars
  <2>2. ASSUME NEW m \in requests', m \notin requests PROVE OfTask(m)
    <3>1. m.session = requestSession /\ m.seq = info.seq
      BY <2>1, <2>2, SMT DEF Request
    <3>2. info.seq <= maxSequenceIdHasSent
      BY Zenon DEF TypeInv, WindowInv
    <3> QED BY <1>0, <3>1, <3>2, SMT DEF OfTask
  <2> QED BY <1>1, <2>1, <2>2, Zenon DEF SeqInv, receiverVars, schedVars
<1>12. ASSUME NEW m \in requests, NewSession(m) PROVE SeqInv'
  <2>1. /\ handling' = NoPacket /\ currentSession' = m.session /\ expected' = 1
        /\ UNCHANGED <<requestSession, status, maxSequenceIdHasSent, requests, acks>>
    BY <1>12, Zenon DEF NewSession, senderVars, taskVars, windowVars, netVars
  <2>2. expected' <= maxSequenceIdHasSent' + 1
    BY <1>0, <2>1, SMT
  <2> QED BY <1>1, <2>1, <2>2, Zenon DEF SeqInv, OfTask
<1>13. ASSUME NEW m \in requests, WaterMarkErrHandle(m) PROVE SeqInv'
  <2>1. /\ expected' = 1 /\ acks' = acks \cup {DataAck(m, "waterMarkErr")}
        /\ requests' = requests \ {m} /\ handling = NoPacket
        /\ UNCHANGED <<requestSession, status, maxSequenceIdHasSent, currentSession,
                       handling>>
    BY <1>13, Zenon DEF WaterMarkErrHandle, IsDue, senderVars, taskVars, windowVars
  <2>2. expected' <= maxSequenceIdHasSent' + 1
    BY <1>0, <2>1, SMT
  <2>3. OfTask(DataAck(m, "waterMarkErr"))
    BY AckOfPacket, Zenon DEF SeqInv
  <2> QED BY <1>1, <2>1, <2>2, <2>3, Zenon DEF SeqInv
<1>14. ASSUME NEW m \in requests, DataRequestRecv(m) PROVE SeqInv'
  <2>1. /\ handling' = m /\ m.session = currentSession /\ m.seq = expected
        /\ acks' = acks \cup {DataAck(m, "ok")} /\ requests' = requests \ {m}
        /\ UNCHANGED <<requestSession, status, maxSequenceIdHasSent, currentSession,
                       expected>>
    BY <1>14, Zenon DEF DataRequestRecv, IsDue, senderVars, taskVars, windowVars,
       schedVars
  <2>2. OfTask(DataAck(m, "ok")) /\ OfTask(m)
    BY AckOfPacket, Zenon DEF SeqInv
  <2>3. OfTask(handling)'
    BY <1>1, <2>1, <2>2, Zenon DEF OfTask, Active
  <2> QED BY <1>1, <2>1, <2>2, <2>3, Zenon DEF SeqInv
<1>15. ASSUME NEW m \in requests, SendFinishedDataAck(m) PROVE SeqInv'
  <2>1. /\ acks' = acks \cup {DataAck(m, "ok")} /\ requests' = requests \ {m}
        /\ UNCHANGED <<requestSession, status, maxSequenceIdHasSent, receiverVars>>
    BY <1>15, Zenon DEF SendFinishedDataAck, senderVars, taskVars, windowVars
  <2>2. OfTask(DataAck(m, "ok"))
    BY AckOfPacket, Zenon DEF SeqInv
  <2> QED BY <1>1, <2>1, <2>2, Zenon DEF SeqInv, receiverVars, schedVars
<1>16. ASSUME NEW mark \in Marks, UpdatePeerWaterMark(mark) PROVE SeqInv'
  <2>1. /\ handling # NoPacket /\ handling' = NoPacket /\ expected' = expected + 1
        /\ UNCHANGED <<requestSession, status, maxSequenceIdHasSent, currentSession,
                       requests, acks>>
    BY <1>16, Zenon DEF UpdatePeerWaterMark, senderVars, taskVars, windowVars, netVars
  <2>2. Active /\ currentSession = requestSession
            => expected' <= maxSequenceIdHasSent + 1
    BY <1>0, <2>1, SMT DEF SeqInv, OfTask
  <2> QED BY <1>1, <2>1, <2>2, Zenon DEF SeqInv
<1> QED BY <1>3, <1>4, <1>5, <1>6, <1>7, <1>8, <1>9, <1>10, <1>11, <1>12, <1>13,
           <1>14, <1>15, <1>16, Zenon DEF Step

(* A packet that is saved: the peer water mark covers what lies before it, *)
(* and the last packet holds the rest.                                     *)
LEMMA LastDelivers ==
    ASSUME TypeInv, MarkInv, NEW m \in requests, ~Refused(m), Holds(m)
    PROVE  \A k \in Keys : store[k] # 0 /\ store[k] < localMark
                               => Merge(m.data)[k] = store[k]
<1>1. ASSUME NEW k \in Keys, store[k] # 0, store[k] < localMark
      PROVE  Merge(m.data)[k] = store[k]
  <2>1. store[k] \in Nat /\ m.mark \in Nat /\ peerMark \in Nat
    BY Numbers, Zenon
  <2>2. CASE store[k] < m.mark
    <3>1. store[k] < peerMark
      BY <2>1, <2>2, SMT DEF Refused
    <3>2. saved[k] = store[k]
      BY <1>1, <3>1, Zenon DEF MarkInv, PeerMarkCoversData
    <3> QED BY <3>2, MergeSaves, Zenon
  <2>3. CASE m.mark <= store[k]
    <3>1. <<k, store[k]>> \in m.data
      BY <1>1, <2>3, Zenon DEF Holds
    <3>2. <<k, store[k]>>[2] = store[k] /\ store[k] <= store[k]
      BY <2>1, SMT
    <3>3. \A r \in m.data : store[k] # 0 /\ store[k] <= r[2]
                                => Merge(m.data)[k] = store[k]
      BY MergeSaves, Zenon
    <3>4. store[k] <= <<k, store[k]>>[2]
      BY <3>2, Zenon
    <3> QED BY <1>1, <3>1, <3>3, <3>4, Zenon
  <2> QED BY <2>1, <2>2, <2>3, SMT
<1> QED BY <1>1, Zenon

(* Whoever says that the last packet was dealt with knows that it was      *)
(* saved, with all that was sent before it.                                *)
LEMMA DeliveryStep ==
    ASSUME TypeInv, MarkInv, BlockInv, SeqInv, DeliveryInv, Step
    PROVE  DeliveryInv'
<1>0. /\ requestSession \in Nat /\ currentSession \in Nat
      /\ maxSequenceIdHasSent \in Nat /\ expected \in Nat
      /\ \A m \in requests \cup acks : m.session \in Nat /\ m.seq \in Nat \ {0}
      /\ handling # NoPacket =>
             handling.session \in Nat /\ handling.seq \in Nat \ {0}
      /\ \A i \in reSendMap : /\ i.seq \in Nat \ {0}
                              /\ i.seq <= maxSequenceIdHasSent
  BY Numbers, Zenon DEF TypeInv, WindowInv
<1>1. Active => status # "finished"
  BY SMT DEF Active
<1>2. ASSUME UNCHANGED <<store, localMark, saved>>
      PROVE  (Delivered => Delivered') /\ \A m : Holds(m) => Holds(m)'
  BY <1>2, Zenon DEF Delivered, Holds
<1>3. ASSUME UNCHANGED <<requestSession, status, maxSequenceIdHasSent>>
      PROVE  (Active' <=> Active) /\ \A m : Last(m)' => Last(m)
  BY <1>3, Zenon DEF Active, Last
(* A step that keeps what the task has sent and what is delivered.         *)
<1>4. ASSUME UNCHANGED <<requestSession, status, maxSequenceIdHasSent, reSendMap>>,
             Delivered => Delivered',
             \A m \in requests' : Last(m) => Holds(m)',
             \A a \in acks' : a.code = "ok" /\ Last(a) => Delivered',
             handling' # NoPacket /\ Last(handling)' => Delivered',
             /\ Active /\ currentSession' = requestSession
             /\ 0 < maxSequenceIdHasSent /\ maxSequenceIdHasSent < expected'
             => Delivered'
      PROVE  DeliveryInv'
  BY <1>3, <1>4, Zenon DEF DeliveryInv
<1>5. ASSUME UNCHANGED <<requestSession, status, maxSequenceIdHasSent, reSendMap,
                         handling, currentSession, expected>>,
             requests' \subseteq requests, acks' \subseteq acks,
             Delivered => Delivered', \A m : Holds(m) => Holds(m)'
      PROVE  DeliveryInv'
  <2>1. Last(handling)' => Last(handling)
    BY <1>5, Zenon DEF Last, Active
  <2> QED BY <1>4, <1>5, <2>1, Zenon DEF DeliveryInv
<1>6. CASE Drop
  BY <1>2, <1>5, <1>6, Zenon DEF Drop, storeVars, senderVars, taskVars, windowVars,
     receiverVars, schedVars
<1>7. CASE Abort
  <2>1. status' = "failed" /\ ~Active'
    BY <1>7, SMT DEF Abort, AbortInner, Active
  <2> QED BY <2>1, SMT DEF DeliveryInv, Last
<1>8. CASE SavePeerWaterMarkFails
  <2>1. /\ handling # NoPacket /\ handling' = NoPacket /\ expected' = expected + 1
        /\ UNCHANGED <<requestSession, status, maxSequenceIdHasSent, reSendMap,
                       currentSession, requests, acks, store, localMark, saved>>
    BY <1>8, Zenon DEF SavePeerWaterMarkFails, storeVars, senderVars, taskVars,
       windowVars
  <2>2. /\ Active /\ currentSession = requestSession
        /\ maxSequenceIdHasSent < expected'
        => Last(handling)
    BY <1>0, <2>1, SMT DEF SeqInv, OfTask, Last
  <2> QED BY <1>2, <1>4, <2>1, <2>2, Zenon DEF DeliveryInv
<1>9. CASE SyncStart
  <2>1. /\ status' = "syncing" /\ maxSequenceIdHasSent' = 0
        /\ UNCHANGED <<requests, acks, receiverVars>>
    BY <1>9, Zenon DEF SyncStart, netVars
  <2>2. status' # "finished"
    BY <2>1, SMT
  <2>3. ASSUME NEW m, m.seq \in Nat \ {0} PROVE ~Last(m)'
    BY <2>1, <2>3, SMT DEF Last
  <2>4. /\ \A m \in requests' \cup acks' : ~Last(m)'
        /\ handling' # NoPacket => ~Last(handling)'
    BY <1>0, <2>1, <2>3, Zenon DEF receiverVars, Last
  <2> QED BY <2>1, <2>2, <2>4, SMT DEF DeliveryInv
<1>10. CASE ReceiverRestart
  <2>1. /\ handling' = NoPacket /\ currentSession' = 0
        /\ UNCHANGED <<requestSession, status, maxSequenceIdHasSent, reSendMap,
                       requests, acks, store, localMark, saved>>
    BY <1>10, Zenon DEF ReceiverRestart, storeVars, senderVars, taskVars, windowVars
  <2>2. Active => currentSession' # requestSession
    BY <2>1, Zenon DEF TypeInv, TaskInv, Active
  <2> QED BY <1>2, <1>4, <2>1, <2>2, Zenon DEF DeliveryInv
<1>11. ASSUME NEW k \in Keys, Put(k) PROVE DeliveryInv'
  <2>1. /\ store' = [store EXCEPT ![k] = clock + 1]
        /\ UNCHANGED <<requestSession, status, maxSequenceIdHasSent, reSendMap,
                       handling, currentSession, expected, requests, acks,
                       localMark, saved>>
    BY <1>11, Zenon DEF Put, senderVars, taskVars, windowVars, netVars, receiverVars,
       schedVars
  <2>2. \A x \in Keys : store'[x] < localMark => store'[x] = store[x]
    BY <2>1, Numbers, SMT DEF BlockInv
  <2>3. (Delivered => Delivered') /\ \A m : Holds(m) => Holds(m)'
    BY <2>1, <2>2, Zenon DEF Delivered, Holds
  <2> QED BY <1>5, <2>1, <2>3, Zenon
<1>12. ASSUME NEW end \in Marks, RequestStart(end, "ok") PROVE DeliveryInv'
  <2>1. PICK id, data :
          /\ requests' = requests \cup
                 {Request(maxSequenceIdHasSent + 1, id, localMark, data)}
          /\ \A k \in Keys : /\ store[k] # 0 /\ localMark <= store[k]
                             /\ store[k] < localMark'
                             => <<k, store[k]>> \in data
    BY <1>12, NextBlock, Zenon
  <2>2. PICK pid \in Nat : reSendMap' = reSendMap \cup
            {[seq |-> maxSequenceIdHasSent + 1, start |-> localMark,
              end |-> end, packet |-> pid]}
    BY <1>12, NextBlock, Zenon
  <2>3. /\ Active /\ maxSequenceIdHasSent' = maxSequenceIdHasSent + 1
        /\ UNCHANGED <<store, requestSession, status, acks, handling, currentSession,
                       expected>>
    BY <1>12, NextBlock, Zenon DEF storeVars, taskVars, receiverVars, schedVars
  <2>4. ASSUME NEW m, m.seq \in Nat, OfTask(m) PROVE ~Last(m)'
    BY <1>0, <2>3, <2>4, SMT DEF OfTask, Last
  <2>5. ASSUME NEW m \in requests', m \notin requests PROVE Holds(m)'
    <3>1. m.mark = localMark /\ m.data = data
      BY <2>1, <2>5, SMT DEF Request
    <3> QED BY <2>1, <2>3, <3>1, Zenon DEF Holds
  <2>6. handling' # NoPacket => ~Last(handling)'
    BY <1>0, <2>3, <2>4, Zenon DEF SeqInv, Last
  <2>7. currentSession' = requestSession'
            => ~(maxSequenceIdHasSent' < expected')
    BY <1>0, <2>3, SMT DEF SeqInv
  <2>8. \E i \in reSendMap' : i.seq = maxSequenceIdHasSent'
    <3> DEFINE i == [seq |-> maxSequenceIdHasSent + 1, start |-> localMark,
                     end |-> end, packet |-> pid]
    <3>1. i.seq = maxSequenceIdHasSent' /\ i \in reSendMap'
      BY <2>2, <2>3, SMT
    <3> QED BY <3>1, Zenon
  <2>9. /\ \A m \in requests : ~Last(m)'
        /\ \A a \in acks' : ~Last(a)'
    BY <1>0, <2>3, <2>4, Zenon DEF SeqInv
  <2> QED BY <1>1, <2>3, <2>5, <2>6, <2>7, <2>8, <2>9, Zenon DEF DeliveryInv
<1>13. ASSUME NEW info \in reSendMap, ReSendData(info, info.end) PROVE DeliveryInv'
  <2> DEFINE data == GetSyncData(info.start, info.end)
  <2>1. /\ requests' = requests \cup
               {Request(info.seq, info.packet, info.start, data)}
        /\ UNCHANGED <<requestSession, status, maxSequenceIdHasSent, reSendMap,
                       acks, handling, currentSession, expected, store, localMark,
                       saved>>
    BY <1>13, MarkKept, Zenon DEF ReSendData, storeVars, taskVars, windowVars,
       receiverVars, schedVars
  <2>2. ASSUME NEW m \in requests', m \notin requests, Last(m) PROVE Holds(m)
    <3>1. m.mark = info.start /\ m.data = data /\ m.seq = info.seq
      BY <2>1, <2>2, SMT DEF Request
    <3>2. localMark <= info.end + 1
      BY <2>2, <3>1, Zenon DEF Last, BlockInv
    <3>3. ASSUME NEW k \in Keys, store[k] # 0, m.mark <= store[k],
                 store[k] < localMark
          PROVE  <<k, store[k]>> \in data
      <4>1. store[k] <= info.end
        BY <3>2, <3>3, Numbers, SMT
      <4>2. <<k, store[k]>> \in Records
        BY <3>3, Zenon DEF Records
      <4> QED BY <3>1, <3>3, <4>1, <4>2, SMT DEF GetSyncData
    <3> QED BY <3>1, <3>3, Zenon DEF Holds
  <2> HIDE DEF data
  <2>3. Last(handling)' => Last(handling)
    BY <2>1, Zenon DEF Last, Active
  <2> QED BY <1>2, <1>4, <2>1, <2>2, <2>3, Zenon DEF DeliveryInv
<1>14. ASSUME NEW a \in acks, TryContinueSync(a) PROVE DeliveryInv'
  <2> DEFINE rest == {i \in reSendMap : i.seq # a.seq}
  <2>1. /\ Active /\ a.session = requestSession /\ a.code = "ok"
        /\ requests' = requests /\ acks' \subseteq acks
        /\ UNCHANGED <<requestSession, handling, currentSession, expected, store,
                       localMark, saved>>
    BY <1>14, Zenon DEF TryContinueSync, AckOf, IsPacketValid, Active, storeVars,
       taskVars, receiverVars, schedVars
  <2>2. maxSequenceIdHasSent > 0
            => Delivered \/ \E i \in rest : i.seq = maxSequenceIdHasSent
    <3>1. CASE a.seq = maxSequenceIdHasSent
      BY <2>1, <3>1, Zenon DEF DeliveryInv, Last
    <3>2. CASE a.seq # maxSequenceIdHasSent
      BY <2>1, <3>2, Zenon DEF DeliveryInv
    <3> QED BY <3>1, <3>2, Zenon
  <2>3. CASE UNCHANGED <<status, maxSequenceIdHasSent, reSendMap>>
    BY <1>2, <1>5, <2>1, <2>3, Zenon
  <2>4. CASE status' = "finished" /\ rest = {} /\ rest # reSendMap
    <3>1. maxSequenceIdHasSent > 0
      <4>1. PICK i \in reSendMap : TRUE
        BY <2>4, Zenon
      <4> QED BY <1>0, <4>1, SMT
    <3>2. Delivered'
      BY <1>2, <2>1, <2>2, <2>4, <3>1, Zenon
    <3>3. ~Active'
      BY <2>4, SMT DEF Active
    <3> QED BY <3>2, <3>3, Zenon DEF DeliveryInv, Last
  <2>5. CASE reSendMap' = rest /\ UNCHANGED <<status, maxSequenceIdHasSent>>
    <3>1. (Delivered => Delivered') /\ \A m : Holds(m) => Holds(m)'
      BY <1>2, <2>1, Zenon
    <3>2. (Active' <=> Active) /\ \A m : Last(m)' => Last(m)
      BY <1>3, <2>1, <2>5, Zenon
    <3>3. Last(handling)' => Last(handling)
      BY <2>1, <2>5, Zenon DEF Last, Active
    <3> QED BY <1>1, <2>1, <2>2, <2>5, <3>1, <3>2, <3>3, Zenon DEF DeliveryInv
  <2>6. \/ UNCHANGED <<status, maxSequenceIdHasSent, reSendMap>>
        \/ status' = "finished" /\ rest = {} /\ rest # reSendMap
        \/ reSendMap' = rest /\ UNCHANGED <<status, maxSequenceIdHasSent>>
    BY <1>14, Zenon DEF TryContinueSync, taskVars, windowVars
  <2> QED BY <2>3, <2>4, <2>5, <2>6, Zenon
<1>15. ASSUME NEW m \in requests, NewSession(m) PROVE DeliveryInv'
  <2>1. /\ handling' = NoPacket /\ expected' = 1
        /\ UNCHANGED <<requestSession, status, maxSequenceIdHasSent, reSendMap,
                       requests, acks, store, localMark, saved>>
    BY <1>15, Zenon DEF NewSession, storeVars, senderVars, taskVars, windowVars,
       netVars
  <2>2. ~(0 < maxSequenceIdHasSent /\ maxSequenceIdHasSent < expected')
    BY <1>0, <2>1, SMT
  <2> QED BY <1>2, <1>4, <2>1, <2>2, Zenon DEF DeliveryInv
<1>16. ASSUME NEW m \in requests, WaterMarkErrHandle(m) PROVE DeliveryInv'
  <2>1. /\ handling' = NoPacket /\ expected' = 1 /\ requests' \subseteq requests
        /\ acks' = acks \cup {DataAck(m, "waterMarkErr")}
        /\ UNCHANGED <<requestSession, status, maxSequenceIdHasSent, reSendMap,
                       store, localMark, saved>>
    BY <1>16, Zenon DEF WaterMarkErrHandle, IsDue, storeVars, senderVars, taskVars,
       windowVars
  <2>2. ~(0 < maxSequenceIdHasSent /\ maxSequenceIdHasSent < expected')
    BY <1>0, <2>1, SMT
  <2>3. DataAck(m, "waterMarkErr").code # "ok"
    BY AckOfPacket, SMT
  <2> QED BY <1>2, <1>4, <2>1, <2>2, <2>3, Zenon DEF DeliveryInv
<1>17. ASSUME NEW m \in requests, DataRequestRecv(m) PROVE DeliveryInv'
  <2>1. /\ ~Refused(m) /\ handling' = m /\ saved' = Merge(m.data)
        /\ requests' \subseteq requests /\ acks' = acks \cup {DataAck(m, "ok")}
        /\ UNCHANGED <<requestSession, status, maxSequenceIdHasSent, reSendMap,
                       currentSession, expected, store, localMark>>
    BY <1>17, Zenon DEF DataRequestRecv, storeVars, senderVars, taskVars, windowVars,
       schedVars
  <2>2. Last(m) => Delivered'
    BY <2>1, LastDelivers, Zenon DEF DeliveryInv, Delivered
  <2>3. Delivered => Delivered'
    BY <2>1, MergeSaves, Zenon DEF Delivered
  <2>4. \A x \in requests : Last(x) => Holds(x)'
    BY <2>1, Zenon DEF DeliveryInv, Holds
  <2>5. Last(DataAck(m, "ok")) => Last(m)
    BY AckOfPacket, Zenon
  <2>6. Last(handling)' => Last(m)
    BY <2>1, Zenon DEF Last, Active
  <2> QED BY <1>4, <2>1, <2>2, <2>3, <2>4, <2>5, <2>6, Zenon DEF DeliveryInv
<1>18. ASSUME NEW m \in requests, SendFinishedDataAck(m) PROVE DeliveryInv'
  <2>1. /\ m.session = currentSession /\ m.seq < expected
        /\ handling' = NoPacket
        /\ requests' \subseteq requests /\ acks' = acks \cup {DataAck(m, "ok")}
        /\ UNCHANGED <<requestSession, status, maxSequenceIdHasSent, reSendMap,
                       currentSession, expected, store, localMark, saved>>
    BY <1>18, Zenon DEF SendFinishedDataAck, storeVars, senderVars, taskVars,
       windowVars, receiverVars, schedVars
  <2>2. Last(m) => Delivered
    BY <1>0, <2>1, SMT DEF Last, DeliveryInv
  <2>3. Last(DataAck(m, "ok")) => Last(m)
    BY AckOfPacket, Zenon
  <2> QED BY <1>2, <1>4, <2>1, <2>2, <2>3, Zenon DEF DeliveryInv
<1>19. ASSUME NEW mark \in Marks, UpdatePeerWaterMark(mark) PROVE DeliveryInv'
  <2>1. /\ handling # NoPacket /\ handling' = NoPacket /\ expected' = expected + 1
        /\ UNCHANGED <<requestSession, status, maxSequenceIdHasSent, reSendMap,
                       currentSession, requests, acks, store, localMark, saved>>
    BY <1>19, Zenon DEF UpdatePeerWaterMark, storeVars, senderVars, taskVars,
       windowVars, netVars
  <2>2. /\ Active /\ currentSession = requestSession
        /\ maxSequenceIdHasSent < expected'
        => Last(handling)
    BY <1>0, <2>1, SMT DEF SeqInv, OfTask, Last
  <2> QED BY <1>2, <1>4, <2>1, <2>2, Zenon DEF DeliveryInv
<1> QED BY <1>6, <1>7, <1>8, <1>9, <1>10, <1>11, <1>12, <1>13, <1>14, <1>15,
           <1>16, <1>17, <1>18, <1>19, Zenon DEF Step

(* The next task starts clean.                                             *)
LEMMA FreshTask ==
    ASSUME TypeInv, TokenInv, RestInv, CopyTargetData
    PROVE  (BlockInv /\ SeqInv /\ DeliveryInv)'
<1>0. /\ requestSession \in Nat /\ currentSession \in Nat
      /\ \A m \in requests \cup acks : m.session \in Nat /\ m.seq \in Nat \ {0}
      /\ handling # NoPacket =>
             handling.session \in Nat /\ handling.seq \in Nat \ {0}
  BY Numbers, Zenon
<1>1. /\ sessionId = 0 /\ continueToken = 0 /\ status' = "start" /\ ~needRetry'
      /\ requestSession' = requestSession + 1
      /\ UNCHANGED <<clock, localMark, continueToken, sessionId, reSendMap,
                     maxSequenceIdHasSent, requests, acks, receiverVars>>
  BY SMT DEF CopyTargetData, TypeInv, TaskInv, TokenInv, storeVars, windowVars, netVars
<1>2. reSendMap = {} /\ maxSequenceIdHasSent = 0
  BY <1>1, Zenon DEF TypeInv, WindowInv, RestInv
<1>3. BlockInv'
  BY <1>1, <1>2, Zenon DEF BlockInv, RestInv
<1>4. ASSUME NEW m, m.session \in Nat, m.seq \in Nat \ {0},
             m.session <= requestSession
      PROVE  OfTask(m)' /\ ~Last(m)'
  BY <1>0, <1>1, <1>2, <1>4, SMT DEF OfTask, Last
<1>5. \A m \in requests \cup acks : OfTask(m)' /\ ~Last(m)'
  BY <1>0, <1>4, Zenon DEF RestInv
<1>6. UNCHANGED <<handling, currentSession, expected>>
  BY <1>1, Zenon DEF receiverVars, schedVars
<1>7. handling # NoPacket => OfTask(handling)' /\ ~Last(handling)'
  BY <1>0, <1>4, <1>6, Zenon DEF RestInv, OfTask, Last
<1>8. currentSession' <= requestSession' /\ currentSession' # requestSession'
  BY <1>0, <1>1, <1>6, SMT DEF RestInv
<1>9. SeqInv'
  BY <1>1, <1>5, <1>6, <1>7, <1>8, Zenon DEF SeqInv, RestInv
<1>10. status' # "finished" /\ ~(0 < maxSequenceIdHasSent')
  BY <1>1, <1>2, SMT
<1>11. DeliveryInv'
  BY <1>1, <1>5, <1>6, <1>7, <1>10, SMT DEF DeliveryInv
<1> QED BY <1>3, <1>9, <1>11, Zenon

(* No mark runs ahead of the clock, and nothing of the task.               *)
LEMMA RestStep ==
    ASSUME TypeInv, TokenInv, MarkInv, RestInv, [Next]_vars PROVE RestInv'
<1>0. /\ clock \in Nat /\ localMark \in Nat /\ peerMark \in Nat
      /\ requestSession \in Nat /\ currentSession \in Nat
      /\ peerMark <= clock + 1
      /\ \A i \in reSendMap : i.start \in Nat /\ i.end \in Nat
      /\ \A m \in requests \cup acks : m.session \in Nat
      /\ \A a \in acks : a.mark \in Nat
  BY Numbers, Zenon DEF MarkInv, DataInv
(* A step that only takes packets and acks away, or restarts the window.   *)
<1>1. ASSUME UNCHANGED <<clock, requestSession, currentSession>>,
             localMark' = localMark \/ localMark' <= clock + 1,
             \/ UNCHANGED <<sessionId, maxSequenceIdHasSent>>
             \/ maxSequenceIdHasSent' = 0,
             reSendMap' \subseteq reSendMap,
             requests' \subseteq requests, acks' \subseteq acks,
             \/ UNCHANGED <<handling, expected>>
             \/ handling' = NoPacket
      PROVE  RestInv'
  BY <1>1, Zenon DEF RestInv
<1>2. ASSUME \/ SyncStart \/ SendFails \/ TaskTimeout
             \/ \E a \in acks : AckDropped(a) \/ AckRecvError(a)
             \/ \E m \in requests : LoseRequest(m)
             \/ \E a \in acks : LoseAck(a)
             \/ UNCHANGED vars
      PROVE  RestInv'
  <2>1. /\ UNCHANGED <<clock, requestSession, localMark, requests, receiverVars>>
        /\ acks' \subseteq acks
        /\ \/ UNCHANGED windowVars
           \/ maxSequenceIdHasSent' = 0 /\ reSendMap' = {}
        \/ /\ UNCHANGED <<clock, requestSession, localMark, acks, receiverVars, windowVars>>
           /\ requests' \subseteq requests
    BY <1>2, Zenon DEF SyncStart, SendFails, TaskTimeout, AckDropped, AckRecvError,
       AckOf, AbortInner, InnerClearSyncStatus, LoseRequest, LoseAck, vars,
       storeVars, senderVars, taskVars, netVars
  <2> QED BY <1>1, <2>1, Zenon DEF windowVars, receiverVars, schedVars
<1>3. ASSUME CopyTargetData PROVE RestInv'
  <2>1. /\ requestSession' = requestSession + 1
        /\ UNCHANGED <<clock, localMark, windowVars, requests, acks, receiverVars>>
    BY <1>3, Zenon DEF CopyTargetData, storeVars, netVars
  <2>2. \A n \in Nat : n <= requestSession => n <= requestSession'
    BY <1>0, <2>1, SMT
  <2> QED BY <1>0, <2>1, <2>2, Zenon DEF RestInv, windowVars, receiverVars, schedVars
<1>4. ASSUME NEW k \in Keys, Put(k) PROVE RestInv'
  <2>1. /\ clock' = clock + 1
        /\ UNCHANGED <<requestSession, localMark, windowVars, requests, acks,
                       receiverVars>>
    BY <1>4, Zenon DEF Put, senderVars, taskVars, netVars
  <2>2. \A n \in Nat : /\ n <= clock + 1 => n <= clock' + 1
                       /\ n <= clock => n <= clock'
    BY <1>0, <2>1, SMT
  <2> QED BY <1>0, <2>1, <2>2, Zenon DEF RestInv, windowVars, receiverVars, schedVars
<1>5. ASSUME NEW end \in Marks, NEW result \in SendResults, RequestStart(end, result)
      PROVE  RestInv'
  <2> DEFINE from == GetDataFrom
             data == GetSyncData(from, end)
             new == Request(maxSequenceIdHasSent + 1, packetId + 1, localMark, data)
             info == [seq |-> maxSequenceIdHasSent + 1, start |-> localMark,
                      end |-> end, packet |-> packetId + 1]
  <2>1. /\ BlockEnd(from, end) /\ sessionId # 0 /\ sessionId' = sessionId
        /\ requests' \subseteq requests \cup {new}
        /\ localMark' = MarkAfter(data, end) \/ localMark' = localMark
        /\ reSendMap' = reSendMap \cup {info}
        /\ UNCHANGED <<clock, requestSession, acks, receiverVars>>
    BY <1>5, Zenon DEF RequestStart, UpdateSendInfo, TypeInv, WindowInv, storeVars,
       taskVars
  <2>2. \A q \in Records : q[2] \in Nat /\ q[2] <= clock
    BY <1>0, RecordsTyped, SMT DEF TypeInv, TypeOK
  <2>3. end \in Nat /\ from \in Nat
    BY Numbers, SMT DEF Marks, GetDataFrom
  <2>4. /\ localMark' <= clock + 1 /\ end <= clock + 1
        /\ localMark < end => end <= clock
    <3>1. CASE GetSyncData(from, clock) = {} /\ end = localMark
      <4>1. data = {}
        BY <1>0, <2>2, <2>3, <3>1, SMT DEF GetSyncData
      <4>2. localMark' = localMark
        BY <2>1, <3>1, <4>1, Zenon DEF MarkAfter
      <4> QED BY <1>0, <3>1, <4>2, SMT DEF RestInv
    <3>2. CASE \E q \in GetSyncData(from, clock) : end = q[2]
      <4>1. end <= clock
        BY <2>2, <3>2, Zenon DEF GetSyncData
      <4>2. localMark' = end \/ localMark' = end + 1 \/ localMark' = localMark
        BY <2>1, Zenon DEF MarkAfter
      <4> QED BY <1>0, <2>3, <4>1, <4>2, SMT DEF RestInv
    <3> QED BY <2>1, <3>1, <3>2, Zenon DEF BlockEnd
  <2>5. new.session = requestSession /\ info.start = localMark /\ info.end = end
    BY SMT DEF Request
  <2> HIDE DEF new, info, data, from
  <2>6. \A m \in requests' : m.session <= requestSession
    BY <1>0, <2>1, <2>5, SMT DEF RestInv
  <2>7. \A i \in reSendMap' :
            i.end <= clock + 1 /\ (i.start < i.end => i.end <= clock)
    BY <2>1, <2>4, <2>5, Zenon DEF RestInv
  <2> QED BY <2>1, <2>4, <2>6, <2>7, Zenon DEF RestInv, receiverVars, schedVars
<1>6. ASSUME NEW info \in reSendMap, NEW end \in Marks, ReSendData(info, end)
      PROVE  RestInv'
  <2> DEFINE new == Request(info.seq, info.packet, info.start,
                            GetSyncData(info.start, end))
             next == IF info.end > info.start THEN info.end + 1 ELSE info.end
  <2>1. /\ requests' = requests \cup {new}
        /\ localMark' = localMark \/ localMark' = next
        /\ UNCHANGED <<clock, requestSession, acks, windowVars, receiverVars>>
    BY <1>6, Zenon DEF ReSendData, storeVars, taskVars
  <2>2. localMark' <= clock + 1
    BY <1>0, <2>1, SMT DEF RestInv
  <2>3. new.session = requestSession
    BY Zenon DEF Request
  <2> HIDE DEF new
  <2>4. \A m \in requests' : m.session <= requestSession
    BY <1>0, <2>1, <2>3, SMT DEF RestInv
  <2> QED BY <2>1, <2>2, <2>4, Zenon DEF RestInv, windowVars, receiverVars, schedVars
<1>7. ASSUME NEW a \in acks, DealWaterMarkException(a) PROVE RestInv'
  <2>1. /\ localMark' = a.mark /\ maxSequenceIdHasSent' = 0 /\ reSendMap' = {}
        /\ acks' \subseteq acks
        /\ UNCHANGED <<clock, requestSession, requests, receiverVars>>
    BY <1>7, Zenon DEF DealWaterMarkException, AckOf, InnerClearSyncStatus, storeVars
  <2>2. localMark' <= clock + 1
    BY <2>1, Zenon DEF RestInv
  <2> QED BY <1>1, <2>1, <2>2, Zenon DEF receiverVars, schedVars
<1>8. ASSUME NEW a \in acks, TryContinueSync(a) PROVE RestInv'
  <2>1. /\ acks' \subseteq acks
        /\ UNCHANGED <<clock, localMark, requestSession, requests, receiverVars>>
    BY <1>8, Zenon DEF TryContinueSync, AckOf, storeVars, taskVars
  <2>2. \/ UNCHANGED windowVars
        \/ maxSequenceIdHasSent' = 0 /\ reSendMap' = {}
        \/ /\ reSendMap' \subseteq reSendMap
           /\ UNCHANGED <<sessionId, maxSequenceIdHasSent>>
    BY <1>8, Zenon DEF TryContinueSync, InnerClearSyncStatus
  <2> QED BY <1>1, <2>1, <2>2, Zenon DEF windowVars, receiverVars, schedVars
(* The receiver: an ack is of the packet's session and holds the peer mark. *)
<1>9. ASSUME NEW m \in requests, NEW code,
             UNCHANGED <<clock, localMark, requestSession, windowVars, currentSession>>,
             requests' \subseteq requests, acks' \subseteq acks \cup {DataAck(m, code)},
             \/ UNCHANGED <<handling, expected>>
             \/ handling' = NoPacket
             \/ handling' = m /\ m.seq = expected /\ m.session = currentSession
                /\ UNCHANGED expected
      PROVE  RestInv'
  <2>1. DataAck(m, code).session = m.session /\ DataAck(m, code).mark = peerMark
    BY Zenon DEF DataAck
  <2>2. \A a \in acks' : a.session <= requestSession /\ a.mark <= clock + 1
    BY <1>0, <1>9, <2>1, Zenon DEF RestInv
  <2> QED BY <1>9, <2>2, Zenon DEF RestInv, windowVars
<1>10. ASSUME NEW m \in requests, \/ WaterMarkErrHandle(m) \/ SaveDataFails(m)
                                  \/ DataRequestRecv(m) \/ SendFinishedDataAck(m)
       PROVE  RestInv'
  <2>1. CASE WaterMarkErrHandle(m)
    BY <1>9, <2>1, Zenon DEF WaterMarkErrHandle, IsDue, storeVars, senderVars, taskVars
  <2>2. CASE SaveDataFails(m)
    BY <1>9, <2>2, Zenon DEF SaveDataFails, IsDue, storeVars, senderVars, taskVars
  <2>3. CASE DataRequestRecv(m)
    BY <1>9, <2>3, Zenon DEF DataRequestRecv, IsDue, storeVars, senderVars, taskVars,
       schedVars
  <2>4. CASE SendFinishedDataAck(m)
    BY <1>9, <2>4, Zenon DEF SendFinishedDataAck, storeVars, senderVars, taskVars,
       receiverVars, schedVars
  <2> QED BY <1>10, <2>1, <2>2, <2>3, <2>4, Zenon
<1>11. ASSUME NEW m \in requests, NewSession(m) PROVE RestInv'
  <2>1. /\ handling' = NoPacket /\ currentSession' = m.session
        /\ UNCHANGED <<clock, localMark, requestSession, windowVars, requests, acks>>
    BY <1>11, Zenon DEF NewSession, storeVars, senderVars, taskVars, netVars
  <2> QED BY <2>1, Zenon DEF RestInv, windowVars
<1>12. ASSUME \/ \E mark \in Marks : UpdatePeerWaterMark(mark)
              \/ SavePeerWaterMarkFails \/ ReceiverRestart
              \/ \E rowsToo \in BOOLEAN : RemoveDeviceData(rowsToo)
       PROVE  RestInv'
  <2>1. /\ UNCHANGED <<clock, localMark, requestSession, windowVars, requests, acks>>
        /\ currentSession' = currentSession \/ currentSession' = 0
        /\ UNCHANGED <<handling, schedVars>> \/ handling' = NoPacket
    BY <1>12, Zenon DEF UpdatePeerWaterMark, SavePeerWaterMarkFails, ReceiverRestart,
       RemoveDeviceData, storeVars, senderVars, taskVars, netVars, schedVars
  <2>2. currentSession' <= requestSession'
    BY <1>0, <2>1, SMT DEF RestInv
  <2> QED BY <2>1, <2>2, Zenon DEF RestInv, windowVars, schedVars
<1>13. ASSUME Sender PROVE RestInv'
  BY <1>2, <1>3, <1>5, <1>6, <1>7, <1>8, <1>13, Zenon DEF Sender
<1>14. ASSUME Receiver PROVE RestInv'
  BY <1>10, <1>11, <1>12, <1>14, Zenon DEF Receiver
<1> QED BY <1>2, <1>4, <1>13, <1>14, Zenon DEF Next

(* A push task that ended with OP_SEND_FINISHED has delivered every record *)
(* its water mark passed, for any number of keys, sessions, windows, lost, *)
(* late and repeated packets and acks, restarts of the receiver and peer   *)
(* marks that were not saved, as long as nothing else befell this task:    *)
(* whatever befell the tasks before it, failed saves and water-mark        *)
(* exceptions included, does not matter (TryContinueSync,                  *)
(* SendFinishedDataAck, UpdateMsgMapIfNeed).                               *)
THEOREM FinishedDelivers ==
    ASSUME MarksFollow PROVE Spec => [](Calm => FinishedMeansDelivered)
<1> DEFINE TaskOK == BlockInv /\ SeqInv /\ DeliveryInv
           Inv == /\ TypeInv /\ TokenInv /\ MarkInv /\ RestInv
                  /\ Calm => TaskOK
<1>1. Init => Inv
  <2> SUFFICES ASSUME Init PROVE Inv
    OBVIOUS
  <2>1. TypeInv /\ TokenInv /\ MarkInv
    BY TypeInit, MarkInit, Zenon
  <2>2. BlockInv /\ SeqInv /\ RestInv
    BY SMT DEF Init, BlockInv, SeqInv, RestInv, OfTask, Active
  <2>3. DeliveryInv
    BY SMT DEF Init, DeliveryInv, Active, Last
  <2> QED BY <2>1, <2>2, <2>3, Zenon
<1>2. Inv /\ [Next]_vars => Inv'
  <2> SUFFICES ASSUME Inv, [Next]_vars PROVE Inv'
    OBVIOUS
  <2>1. TypeInv' /\ TokenInv' /\ MarkInv' /\ RestInv'
    BY TypeStep, TokenStep, MarkStep, RestStep, Zenon
  <2>2. CASE CopyTargetData
    BY <2>1, <2>2, FreshTask, Zenon
  <2>3. CASE ~CopyTargetData
    <3>1. ASSUME Calm' PROVE TaskOK'
      <4>1. Step /\ Calm
        BY <2>3, <3>1, Steps, Zenon
      <4> QED BY <4>1, BlockStep, SeqStep, DeliveryStep, Zenon
    <3> QED BY <2>1, <3>1, Zenon
  <2> QED BY <2>2, <2>3, Zenon
<1>3. Inv => (Calm => FinishedMeansDelivered)
  BY Zenon DEF DeliveryInv, Delivered, FinishedMeansDelivered
<1> QED BY <1>1, <1>2, <1>3, PTL DEF Spec

=============================================================================
