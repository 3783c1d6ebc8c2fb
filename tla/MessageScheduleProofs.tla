------------------------ MODULE MessageScheduleProofs ------------------------
(* Proofs about MessageSchedule, for any threads, packets and bounds.      *)
EXTENDS MessageSchedule, TLAPS

(* A thread between taking a packet and deleting it holds one.             *)
HoldsPacket == \A t \in Threads : Handling(t) => msg[t] \in Messages

TypeInv == TypeOK /\ HoldsPacket

(* What the map operations do to the entries.                              *)
LEMMA MapFacts ==
    /\ DOMAIN EmptyMap = {}
    /\ \A map, s, m : /\ DOMAIN PutEntry(map, s, m) = DOMAIN map \cup {s}
                      /\ \A k \in DOMAIN map \cup {s} :
                             PutEntry(map, s, m)[k] = IF k = s THEN m ELSE map[k]
    /\ \A map, s : /\ DOMAIN EraseEntry(map, s) = DOMAIN map \ {s}
                   /\ \A k \in DOMAIN map \ {s} : EraseEntry(map, s)[k] = map[k]
  BY Zenon DEF EmptyMap, PutEntry, EraseEntry

(* Queues of packets.                                                      *)
LEMMA QueueFacts ==
    /\ <<>> \in Seq(Messages)
    /\ \A q \in Seq(Messages) : q # <<>> =>
           /\ Head(q) \in Messages /\ Tail(q) \in Seq(Messages)
           /\ q[Len(q)] \in Messages
<1>1. <<>> \in Seq(Messages)
  OBVIOUS
<1>2. ASSUME NEW q \in Seq(Messages), q # <<>>
      PROVE  /\ Head(q) \in Messages /\ Tail(q) \in Seq(Messages)
             /\ q[Len(q)] \in Messages
  BY <1>2
<1>3. QED
  BY <1>1, <1>2, Zenon

LEMMA TypeInit == Init => TypeInv
<1> SUFFICES ASSUME Init PROVE TypeInv
  OBVIOUS
<1>1. QueueTypeOK
  BY QueueFacts, Zenon DEF Init, QueueTypeOK
<1>2. MapTypeOK
  BY MapFacts, BoundsAssumption DEF BoundsAssumption, Init, MapTypeOK
<1>3. FlagTypeOK
  BY BoundsAssumption, Zenon DEF BoundsAssumption, Init, FlagTypeOK
<1>4. ThreadTypeOK /\ HoldsPacket
  BY DEF Init, ThreadTypeOK, Pcs, HoldsPacket, Handling
<1>5. QED
  BY <1>1, <1>2, <1>3, <1>4, Zenon DEF TypeInv, TypeOK

LEMMA TypeStep == TypeInv /\ [Next]_vars => TypeInv'
<1> SUFFICES ASSUME TypeInv, [Next]_vars PROVE TypeInv'
  OBVIOUS
<1> USE MessagesAssumption
    DEF MessagesAssumption, TypeInv, TypeOK, Goto,
        queueVars, mapVars, timerVars, ctxVars, localVars, boundVars
<1>1. ASSUME NEW t \in Threads, NEW m \in Messages, PutMsg(t, m) PROVE TypeInv'
  <2>1. QueueTypeOK'
    BY <1>1 DEF PutMsg, QueueTypeOK
  <2>2. MapTypeOK'
    BY <1>1, MapFacts, Zenon DEF PutMsg, MapTypeOK, QueueTypeOK, ThreadTypeOK, HoldsPacket, Handling, Pcs
  <2>3. FlagTypeOK'
    BY <1>1 DEF PutMsg, FlagTypeOK
  <2>4. ThreadTypeOK'
    BY <1>1, Zenon DEF PutMsg, ThreadTypeOK, QueueTypeOK, MapTypeOK, Pcs
  <2>5. HoldsPacket'
    BY <1>1, Zenon DEF PutMsg, HoldsPacket, Handling, ThreadTypeOK, QueueTypeOK, MapTypeOK, Pcs
  <2>6. QED
    BY <2>1, <2>2, <2>3, <2>4, <2>5, Zenon
<1>2. ASSUME NEW t \in Threads, GetLastMsgFromQueue(t) PROVE TypeInv'
  <2>1. QueueTypeOK'
    BY <1>2, QueueFacts, Zenon DEF GetLastMsgFromQueue, QueueTypeOK
  <2>2. MapTypeOK'
    BY <1>2, MapFacts, QueueFacts, Zenon DEF GetLastMsgFromQueue, MapTypeOK, QueueTypeOK, ThreadTypeOK, HoldsPacket, Handling, Pcs
  <2>3. FlagTypeOK'
    BY <1>2, QueueFacts, Zenon DEF GetLastMsgFromQueue, FlagTypeOK
  <2>4. ThreadTypeOK'
    BY <1>2, QueueFacts, ZenonT(30) DEF GetLastMsgFromQueue, ThreadTypeOK, QueueTypeOK, MapTypeOK, Pcs
  <2>5. HoldsPacket'
    BY <1>2, QueueFacts DEF GetLastMsgFromQueue, HoldsPacket, Handling, ThreadTypeOK, QueueTypeOK, MapTypeOK, Pcs
  <2>6. QED
    BY <2>1, <2>2, <2>3, <2>4, <2>5, Zenon
<1>3. ASSUME NEW t \in Threads, MoveNextBusy(t) PROVE TypeInv'
  <2>1. QueueTypeOK'
    BY <1>3, Zenon DEF MoveNextBusy, QueueTypeOK
  <2>2. MapTypeOK'
    BY <1>3, MapFacts, Zenon DEF MoveNextBusy, MapTypeOK, QueueTypeOK, ThreadTypeOK, HoldsPacket, Handling, Pcs
  <2>3. FlagTypeOK'
    BY <1>3, Zenon DEF MoveNextBusy, FlagTypeOK
  <2>4. ThreadTypeOK'
    BY <1>3, Zenon DEF MoveNextBusy, ThreadTypeOK, QueueTypeOK, MapTypeOK, Pcs
  <2>5. HoldsPacket'
    BY <1>3, Zenon DEF MoveNextBusy, HoldsPacket, Handling, ThreadTypeOK, QueueTypeOK, MapTypeOK, Pcs
  <2>6. QED
    BY <2>1, <2>2, <2>3, <2>4, <2>5, Zenon
<1>4. ASSUME NEW t \in Threads, MoveNextWork(t) PROVE TypeInv'
  <2>1. QueueTypeOK'
    BY <1>4, Zenon DEF MoveNextWork, QueueTypeOK
  <2>2. MapTypeOK'
    BY <1>4, MapFacts, Zenon DEF MoveNextWork, MapTypeOK, QueueTypeOK, ThreadTypeOK, HoldsPacket, Handling, Pcs
  <2>3. FlagTypeOK'
    BY <1>4, Zenon DEF MoveNextWork, FlagTypeOK
  <2>4. ThreadTypeOK'
    BY <1>4, Zenon DEF MoveNextWork, ThreadTypeOK, QueueTypeOK, MapTypeOK, Pcs
  <2>5. HoldsPacket'
    BY <1>4, Zenon DEF MoveNextWork, HoldsPacket, Handling, ThreadTypeOK, QueueTypeOK, MapTypeOK, Pcs
  <2>6. QED
    BY <2>1, <2>2, <2>3, <2>4, <2>5, Zenon
<1>5. ASSUME NEW t \in Threads, UpdateMsgMap(t) PROVE TypeInv'
  <2>1. QueueTypeOK'
    BY <1>5, QueueFacts, Zenon DEF UpdateMsgMap, QueueTypeOK
  <2>2. MapTypeOK'
    BY <1>5, MapFacts, QueueFacts, Zenon DEF UpdateMsgMap, MapTypeOK, QueueTypeOK, ThreadTypeOK, HoldsPacket, Handling, Pcs
  <2>3. FlagTypeOK'
    BY <1>5, QueueFacts, Zenon DEF UpdateMsgMap, FlagTypeOK
  <2>4. ThreadTypeOK'
    BY <1>5, QueueFacts, Zenon DEF UpdateMsgMap, ThreadTypeOK, QueueTypeOK, MapTypeOK, Pcs
  <2>5. HoldsPacket'
    BY <1>5, QueueFacts, Zenon DEF UpdateMsgMap, HoldsPacket, Handling, ThreadTypeOK, QueueTypeOK, MapTypeOK, Pcs
  <2>6. QED
    BY <2>1, <2>2, <2>3, <2>4, <2>5, Zenon
<1>6. ASSUME NEW t \in Threads, UpdateMsgMapInner(t) PROVE TypeInv'
  <2>1. QueueTypeOK'
    BY <1>6, QueueFacts, Zenon DEF UpdateMsgMapInner, QueueTypeOK, UpdateMsgMapIfNeed
  <2>2. MapTypeOK'
    <3>1. CASE tmpQueue[t] = <<>>
      BY <1>6, <3>1, Zenon DEF UpdateMsgMapInner, MapTypeOK
    <3>2. CASE tmpQueue[t] # <<>>
      <4> DEFINE m == Head(tmpQueue[t])
      <4>1. m \in Messages
        BY <3>2, QueueFacts, Zenon DEF ThreadTypeOK
      <4>2. UpdateMsgMapIfNeed(m)
        BY <1>6, <3>2, Zenon DEF UpdateMsgMapInner
      <4> HIDE DEF m
      <4>3. QED
        BY <4>1, <4>2, MapFacts, BoundsAssumption, SMTT(30)
        DEF BoundsAssumption, UpdateMsgMapIfNeed, MapKey,
            ExpectedOfNewSession, MapTypeOK, PutEntry
    <3>3. QED
      BY <3>1, <3>2, Zenon
  <2>3. FlagTypeOK'
    BY <1>6, QueueFacts, Zenon DEF UpdateMsgMapInner, FlagTypeOK, UpdateMsgMapIfNeed
  <2>4. ThreadTypeOK'
    <3>1. CASE tmpQueue[t] = <<>>
      BY <1>6, <3>1, Zenon DEF UpdateMsgMapInner, ThreadTypeOK, Pcs
    <3>2. CASE tmpQueue[t] # <<>>
      <4>1. Tail(tmpQueue[t]) \in Seq(Messages)
        BY <3>2, QueueFacts, Zenon DEF ThreadTypeOK
      <4>2. QED
        BY <1>6, <3>2, <4>1, ZenonT(30) DEF UpdateMsgMapInner, ThreadTypeOK, Pcs
    <3>3. QED
      BY <3>1, <3>2, Zenon
  <2>5. HoldsPacket'
    BY <1>6, QueueFacts DEF UpdateMsgMapInner, HoldsPacket, Handling, ThreadTypeOK, QueueTypeOK, MapTypeOK, Pcs, UpdateMsgMapIfNeed
  <2>6. QED
    BY <2>1, <2>2, <2>3, <2>4, <2>5, Zenon
<1>7. ASSUME NEW t \in Threads, NEW s \in DOMAIN messageMap, GetMsgDrop(t, s) PROVE TypeInv'
  <2>1. QueueTypeOK'
    BY <1>7, Zenon DEF GetMsgDrop, QueueTypeOK
  <2>2. MapTypeOK'
    BY <1>7, Zenon DEF GetMsgDrop, MapTypeOK, EraseEntry
  <2>3. FlagTypeOK'
    BY <1>7, Zenon DEF GetMsgDrop, FlagTypeOK
  <2>4. ThreadTypeOK'
    BY <1>7, Zenon DEF GetMsgDrop, ThreadTypeOK, QueueTypeOK, MapTypeOK, Pcs
  <2>5. HoldsPacket'
    BY <1>7, Zenon DEF GetMsgDrop, HoldsPacket, Handling, ThreadTypeOK, QueueTypeOK, MapTypeOK, Pcs
  <2>6. QED
    BY <2>1, <2>2, <2>3, <2>4, <2>5, Zenon
<1>8. ASSUME NEW t \in Threads, NEW s \in DOMAIN messageMap, GetMsgTake(t, s) PROVE TypeInv'
  <2>1. QueueTypeOK'
    BY <1>8, Zenon DEF GetMsgTake, Due, NeedHandle, QueueTypeOK
  <2>2. MapTypeOK'
    BY <1>8, Zenon DEF GetMsgTake, Due, NeedHandle, MapTypeOK, EraseEntry
  <2>3. FlagTypeOK'
    BY <1>8, Zenon DEF GetMsgTake, Due, NeedHandle, FlagTypeOK
  <2>4. ThreadTypeOK'
    BY <1>8, Zenon DEF GetMsgTake, Due, NeedHandle, ThreadTypeOK, QueueTypeOK, MapTypeOK, Pcs
  <2>5. HoldsPacket'
    BY <1>8, Zenon DEF GetMsgTake, Due, NeedHandle, HoldsPacket, Handling, ThreadTypeOK, QueueTypeOK, MapTypeOK, Pcs
  <2>6. QED
    BY <2>1, <2>2, <2>3, <2>4, <2>5, Zenon
<1>9. ASSUME NEW t \in Threads, GetMsgNone(t) PROVE TypeInv'
  <2>1. QueueTypeOK'
    BY <1>9, Zenon DEF GetMsgNone, QueueTypeOK
  <2>2. MapTypeOK'
    BY <1>9, MapFacts, Zenon DEF GetMsgNone, MapTypeOK, QueueTypeOK, ThreadTypeOK, HoldsPacket, Handling, Pcs
  <2>3. FlagTypeOK'
    BY <1>9, Zenon DEF GetMsgNone, FlagTypeOK
  <2>4. ThreadTypeOK'
    BY <1>9, Zenon DEF GetMsgNone, ThreadTypeOK, QueueTypeOK, MapTypeOK, Pcs
  <2>5. HoldsPacket'
    BY <1>9, Zenon DEF GetMsgNone, HoldsPacket, Handling, ThreadTypeOK, QueueTypeOK, MapTypeOK, Pcs
  <2>6. QED
    BY <2>1, <2>2, <2>3, <2>4, <2>5, Zenon
<1>10. ASSUME NEW t \in Threads, SetWorkingFree(t) PROVE TypeInv'
  <2>1. QueueTypeOK'
    BY <1>10, Zenon DEF SetWorkingFree, QueueTypeOK
  <2>2. MapTypeOK'
    BY <1>10, MapFacts, Zenon DEF SetWorkingFree, MapTypeOK, QueueTypeOK, ThreadTypeOK, HoldsPacket, Handling, Pcs
  <2>3. FlagTypeOK'
    BY <1>10, Zenon DEF SetWorkingFree, FlagTypeOK
  <2>4. ThreadTypeOK'
    BY <1>10, Zenon DEF SetWorkingFree, ThreadTypeOK, QueueTypeOK, MapTypeOK, Pcs
  <2>5. HoldsPacket'
    BY <1>10, Zenon DEF SetWorkingFree, HoldsPacket, Handling, ThreadTypeOK, QueueTypeOK, MapTypeOK, Pcs
  <2>6. QED
    BY <2>1, <2>2, <2>3, <2>4, <2>5, Zenon
<1>11. ASSUME NEW t \in Threads, IsNeedReloadQueue(t) PROVE TypeInv'
  <2>1. QueueTypeOK'
    BY <1>11, Zenon DEF IsNeedReloadQueue, QueueTypeOK
  <2>2. MapTypeOK'
    BY <1>11, MapFacts, Zenon DEF IsNeedReloadQueue, MapTypeOK, QueueTypeOK, ThreadTypeOK, HoldsPacket, Handling, Pcs
  <2>3. FlagTypeOK'
    BY <1>11, Zenon DEF IsNeedReloadQueue, FlagTypeOK
  <2>4. ThreadTypeOK'
    BY <1>11, Zenon DEF IsNeedReloadQueue, ThreadTypeOK, QueueTypeOK, MapTypeOK, Pcs
  <2>5. HoldsPacket'
    BY <1>11, Zenon DEF IsNeedReloadQueue, HoldsPacket, Handling, ThreadTypeOK, QueueTypeOK, MapTypeOK, Pcs
  <2>6. QED
    BY <2>1, <2>2, <2>3, <2>4, <2>5, Zenon
<1>12. ASSUME NEW t \in Threads, NEW out \in Outcomes, HandleDataRequestRecv(t, out) PROVE TypeInv'
  <2>1. QueueTypeOK'
    BY <1>12, Zenon DEF HandleDataRequestRecv, QueueTypeOK
  <2>2. MapTypeOK'
    BY <1>12, MapFacts, Zenon DEF HandleDataRequestRecv, MapTypeOK, QueueTypeOK, ThreadTypeOK, HoldsPacket, Handling, Pcs
  <2>3. FlagTypeOK'
    BY <1>12, Zenon DEF HandleDataRequestRecv, FlagTypeOK
  <2>4. ThreadTypeOK'
    BY <1>12, Zenon DEF HandleDataRequestRecv, ThreadTypeOK, QueueTypeOK, MapTypeOK, Pcs
  <2>5. HoldsPacket'
    BY <1>12, Zenon DEF HandleDataRequestRecv, HoldsPacket, Handling, ThreadTypeOK, QueueTypeOK, MapTypeOK, Pcs
  <2>6. QED
    BY <2>1, <2>2, <2>3, <2>4, <2>5, Zenon
<1>13. ASSUME NEW t \in Threads, SendFinishedDataAck(t) PROVE TypeInv'
  <2>1. QueueTypeOK'
    BY <1>13, Zenon DEF SendFinishedDataAck, QueueTypeOK
  <2>2. MapTypeOK'
    BY <1>13, MapFacts, Zenon DEF SendFinishedDataAck, MapTypeOK, QueueTypeOK, ThreadTypeOK, HoldsPacket, Handling, Pcs
  <2>3. FlagTypeOK'
    BY <1>13, Zenon DEF SendFinishedDataAck, FlagTypeOK
  <2>4. ThreadTypeOK'
    BY <1>13, Zenon DEF SendFinishedDataAck, ThreadTypeOK, QueueTypeOK, MapTypeOK, Pcs
  <2>5. HoldsPacket'
    BY <1>13, Zenon DEF SendFinishedDataAck, HoldsPacket, Handling, ThreadTypeOK, QueueTypeOK, MapTypeOK, Pcs
  <2>6. QED
    BY <2>1, <2>2, <2>3, <2>4, <2>5, Zenon
<1>14. ASSUME NEW t \in Threads, ScheduleInfoHandle(t) PROVE TypeInv'
  <2>1. QueueTypeOK'
    BY <1>14, Zenon DEF ScheduleInfoHandle, QueueTypeOK
  <2>2. MapTypeOK'
    BY <1>14, MapFacts DEF ScheduleInfoHandle, MapTypeOK, QueueTypeOK, ThreadTypeOK, HoldsPacket, Handling, Pcs
  <2>3. FlagTypeOK'
    BY <1>14, Zenon DEF ScheduleInfoHandle, FlagTypeOK
  <2>4. ThreadTypeOK'
    BY <1>14, Zenon DEF ScheduleInfoHandle, ThreadTypeOK, QueueTypeOK, MapTypeOK, Pcs
  <2>5. HoldsPacket'
    BY <1>14, Zenon DEF ScheduleInfoHandle, HoldsPacket, Handling, ThreadTypeOK, QueueTypeOK, MapTypeOK, Pcs
  <2>6. QED
    BY <2>1, <2>2, <2>3, <2>4, <2>5, Zenon
<1>15. ASSUME NEW t \in Threads, ScheduleInfoRelease(t) PROVE TypeInv'
  <2>1. QueueTypeOK'
    BY <1>15, Zenon DEF ScheduleInfoRelease, QueueTypeOK
  <2>2. MapTypeOK'
    BY <1>15, MapFacts, Zenon DEF ScheduleInfoRelease, MapTypeOK, QueueTypeOK, ThreadTypeOK, HoldsPacket, Handling, Pcs
  <2>3. FlagTypeOK'
    BY <1>15, Zenon DEF ScheduleInfoRelease, FlagTypeOK
  <2>4. ThreadTypeOK'
    BY <1>15, Zenon DEF ScheduleInfoRelease, ThreadTypeOK, QueueTypeOK, MapTypeOK, Pcs
  <2>5. HoldsPacket'
    BY <1>15, Zenon DEF ScheduleInfoRelease, HoldsPacket, Handling, ThreadTypeOK, QueueTypeOK, MapTypeOK, Pcs
  <2>6. QED
    BY <2>1, <2>2, <2>3, <2>4, <2>5, Zenon
<1>16. ASSUME TimerFire PROVE TypeInv'
  <2>1. QueueTypeOK'
    BY <1>16, Zenon DEF TimerFire, QueueTypeOK
  <2>2. MapTypeOK'
    BY <1>16, MapFacts, Zenon DEF TimerFire, MapTypeOK, QueueTypeOK, ThreadTypeOK, HoldsPacket, Handling, Pcs
  <2>3. FlagTypeOK'
    BY <1>16, Zenon DEF TimerFire, FlagTypeOK
  <2>4. ThreadTypeOK'
    BY <1>16, Zenon DEF TimerFire, ThreadTypeOK, QueueTypeOK, MapTypeOK, Pcs
  <2>5. HoldsPacket'
    BY <1>16, Zenon DEF TimerFire, HoldsPacket, Handling, ThreadTypeOK, QueueTypeOK, MapTypeOK, Pcs
  <2>6. QED
    BY <2>1, <2>2, <2>3, <2>4, <2>5, Zenon
<1>17. ASSUME TimeOutCheckReload PROVE TypeInv'
  <2>1. QueueTypeOK'
    BY <1>17, Zenon DEF TimeOutCheckReload, QueueTypeOK
  <2>2. MapTypeOK'
    BY <1>17, MapFacts, Zenon DEF TimeOutCheckReload, MapTypeOK, QueueTypeOK, ThreadTypeOK, HoldsPacket, Handling, Pcs
  <2>3. FlagTypeOK'
    BY <1>17, Zenon DEF TimeOutCheckReload, FlagTypeOK
  <2>4. ThreadTypeOK'
    BY <1>17, Zenon DEF TimeOutCheckReload, ThreadTypeOK, QueueTypeOK, MapTypeOK, Pcs
  <2>5. HoldsPacket'
    BY <1>17, Zenon DEF TimeOutCheckReload, HoldsPacket, Handling, ThreadTypeOK, QueueTypeOK, MapTypeOK, Pcs
  <2>6. QED
    BY <2>1, <2>2, <2>3, <2>4, <2>5, Zenon
<1>18. ASSUME TimeOutCheckWorking PROVE TypeInv'
  <2>1. QueueTypeOK'
    BY <1>18, Zenon DEF TimeOutCheckWorking, QueueTypeOK
  <2>2. MapTypeOK'
    BY <1>18, MapFacts, Zenon DEF TimeOutCheckWorking, MapTypeOK, QueueTypeOK, ThreadTypeOK, HoldsPacket, Handling, Pcs
  <2>3. FlagTypeOK'
    BY <1>18, Zenon DEF TimeOutCheckWorking, FlagTypeOK
  <2>4. ThreadTypeOK'
    BY <1>18, Zenon DEF TimeOutCheckWorking, ThreadTypeOK, QueueTypeOK, MapTypeOK, Pcs
  <2>5. HoldsPacket'
    BY <1>18, Zenon DEF TimeOutCheckWorking, HoldsPacket, Handling, ThreadTypeOK, QueueTypeOK, MapTypeOK, Pcs
  <2>6. QED
    BY <2>1, <2>2, <2>3, <2>4, <2>5, Zenon
<1>19. ASSUME TimeOutClear PROVE TypeInv'
  <2>1. QueueTypeOK'
    BY <1>19, Zenon DEF TimeOutClear, QueueTypeOK
  <2>2. MapTypeOK'
    BY <1>19, MapFacts, Zenon DEF TimeOutClear, MapTypeOK, QueueTypeOK, ThreadTypeOK, HoldsPacket, Handling, Pcs
  <2>3. FlagTypeOK'
    BY <1>19, Zenon DEF TimeOutClear, FlagTypeOK
  <2>4. ThreadTypeOK'
    BY <1>19, Zenon DEF TimeOutClear, ThreadTypeOK, QueueTypeOK, MapTypeOK, Pcs
  <2>5. HoldsPacket'
    BY <1>19, Zenon DEF TimeOutClear, HoldsPacket, Handling, ThreadTypeOK, QueueTypeOK, MapTypeOK, Pcs
  <2>6. QED
    BY <2>1, <2>2, <2>3, <2>4, <2>5, Zenon
<1>20. ASSUME ClearMsg PROVE TypeInv'
  <2>1. QueueTypeOK'
    BY <1>20 DEF ClearMsg, QueueTypeOK
  <2>2. MapTypeOK'
    BY <1>20, MapFacts, Zenon DEF ClearMsg, MapTypeOK, QueueTypeOK, ThreadTypeOK, HoldsPacket, Handling, Pcs
  <2>3. FlagTypeOK'
    BY <1>20, Zenon DEF ClearMsg, FlagTypeOK
  <2>4. ThreadTypeOK'
    BY <1>20, Zenon DEF ClearMsg, ThreadTypeOK, QueueTypeOK, MapTypeOK, Pcs
  <2>5. HoldsPacket'
    BY <1>20, Zenon DEF ClearMsg, HoldsPacket, Handling, ThreadTypeOK, QueueTypeOK, MapTypeOK, Pcs
  <2>6. QED
    BY <2>1, <2>2, <2>3, <2>4, <2>5, Zenon
<1>21. ASSUME SetRemoteSoftwareVersion PROVE TypeInv'
  <2>1. QueueTypeOK'
    BY <1>21, Zenon DEF SetRemoteSoftwareVersion, QueueTypeOK
  <2>2. MapTypeOK'
    BY <1>21, MapFacts, Zenon DEF SetRemoteSoftwareVersion, MapTypeOK, QueueTypeOK, ThreadTypeOK, HoldsPacket, Handling, Pcs
  <2>3. FlagTypeOK'
    BY <1>21 DEF SetRemoteSoftwareVersion, FlagTypeOK
  <2>4. ThreadTypeOK'
    BY <1>21, Zenon DEF SetRemoteSoftwareVersion, ThreadTypeOK, QueueTypeOK, MapTypeOK, Pcs
  <2>5. HoldsPacket'
    BY <1>21, Zenon DEF SetRemoteSoftwareVersion, HoldsPacket, Handling, ThreadTypeOK, QueueTypeOK, MapTypeOK, Pcs
  <2>6. QED
    BY <2>1, <2>2, <2>3, <2>4, <2>5, Zenon
<1>22. CASE UNCHANGED vars
  BY <1>22 DEF vars, QueueTypeOK, MapTypeOK, FlagTypeOK, ThreadTypeOK, HoldsPacket, Handling
<1>q. QED
  BY <1>1, <1>2, <1>3, <1>4, <1>5, <1>6, <1>7, <1>8, <1>9, <1>10, <1>11, <1>12, <1>13, <1>14, <1>15, <1>16, <1>17, <1>18, <1>19, <1>20, <1>21, <1>22, Zenon
  DEF Next, ScheduleMsgAndHandle, MoveNextMsg, TimeOut

(* The type invariant of the schedule, whatever the remote version does.   *)
THEOREM TypeCorrect == Spec => []TypeOK
<1>1. TypeInv => TypeOK
  BY Zenon DEF TypeInv
<1>2. QED
  BY <1>1, TypeInit, TypeStep, PTL DEF Spec

-----------------------------------------------------------------------------
(* From here on the remote version is known and stays at 3.0 or above.     *)
(* Only SetRemoteSoftwareVersion changes the version, and it counts.       *)
LEMMA SwitchCounts ==
    TypeInv /\ SetRemoteSoftwareVersion => versionSwitches' # 0
<1> SUFFICES ASSUME TypeInv, SetRemoteSoftwareVersion
             PROVE  versionSwitches' # 0
  OBVIOUS
<1>1. versionSwitches \in Nat /\ versionSwitches' = versionSwitches + 1
  BY Zenon DEF TypeInv, TypeOK, FlagTypeOK, SetRemoteSoftwareVersion
<1>2. QED
  BY <1>1

LEMMA StaysHigh == TypeInv /\ [Next]_vars /\ AlwaysHigh' => AlwaysHigh
<1> SUFFICES ASSUME TypeInv, [Next]_vars, AlwaysHigh' PROVE AlwaysHigh
  OBVIOUS
<1> USE DEF AlwaysHigh, Goto, InGet, ctxVars, boundVars
<1>1. ASSUME NEW t \in Threads, NEW m \in Messages, PutMsg(t, m) PROVE AlwaysHigh
  BY <1>1, Zenon DEF PutMsg
<1>2. ASSUME NEW t \in Threads, GetLastMsgFromQueue(t) PROVE AlwaysHigh
  BY <1>2, Zenon DEF GetLastMsgFromQueue
<1>3. ASSUME NEW t \in Threads, MoveNextBusy(t) PROVE AlwaysHigh
  BY <1>3, Zenon DEF MoveNextBusy
<1>4. ASSUME NEW t \in Threads, MoveNextWork(t) PROVE AlwaysHigh
  BY <1>4, Zenon DEF MoveNextWork
<1>5. ASSUME NEW t \in Threads, UpdateMsgMap(t) PROVE AlwaysHigh
  BY <1>5, Zenon DEF UpdateMsgMap
<1>6. ASSUME NEW t \in Threads, UpdateMsgMapInner(t) PROVE AlwaysHigh
  BY <1>6, Zenon DEF UpdateMsgMapInner, UpdateMsgMapIfNeed
<1>7. ASSUME NEW t \in Threads, NEW s \in DOMAIN messageMap, GetMsgDrop(t, s) PROVE AlwaysHigh
  BY <1>7, Zenon DEF GetMsgDrop
<1>8. ASSUME NEW t \in Threads, NEW s \in DOMAIN messageMap, GetMsgTake(t, s) PROVE AlwaysHigh
  BY <1>8, Zenon DEF GetMsgTake
<1>9. ASSUME NEW t \in Threads, GetMsgNone(t) PROVE AlwaysHigh
  BY <1>9, Zenon DEF GetMsgNone
<1>10. ASSUME NEW t \in Threads, SetWorkingFree(t) PROVE AlwaysHigh
  BY <1>10, Zenon DEF SetWorkingFree
<1>11. ASSUME NEW t \in Threads, IsNeedReloadQueue(t) PROVE AlwaysHigh
  BY <1>11, Zenon DEF IsNeedReloadQueue
<1>12. ASSUME NEW t \in Threads, NEW out \in Outcomes, HandleDataRequestRecv(t, out) PROVE AlwaysHigh
  BY <1>12, Zenon DEF HandleDataRequestRecv
<1>13. ASSUME NEW t \in Threads, SendFinishedDataAck(t) PROVE AlwaysHigh
  BY <1>13, Zenon DEF SendFinishedDataAck
<1>14. ASSUME NEW t \in Threads, ScheduleInfoHandle(t) PROVE AlwaysHigh
  BY <1>14, Zenon DEF ScheduleInfoHandle
<1>15. ASSUME NEW t \in Threads, ScheduleInfoRelease(t) PROVE AlwaysHigh
  BY <1>15, Zenon DEF ScheduleInfoRelease
<1>16. ASSUME TimerFire PROVE AlwaysHigh
  BY <1>16, Zenon DEF TimerFire
<1>17. ASSUME TimeOutCheckReload PROVE AlwaysHigh
  BY <1>17, Zenon DEF TimeOutCheckReload
<1>18. ASSUME TimeOutCheckWorking PROVE AlwaysHigh
  BY <1>18, Zenon DEF TimeOutCheckWorking
<1>19. ASSUME TimeOutClear PROVE AlwaysHigh
  BY <1>19, Zenon DEF TimeOutClear
<1>20. ASSUME ClearMsg PROVE AlwaysHigh
  BY <1>20, Zenon DEF ClearMsg
<1>21. ASSUME SetRemoteSoftwareVersion PROVE AlwaysHigh
  BY <1>21, SwitchCounts, Zenon
<1>22. CASE UNCHANGED vars
  BY <1>22, Zenon DEF vars
<1>23. QED
  BY <1>1, <1>2, <1>3, <1>4, <1>5, <1>6, <1>7, <1>8, <1>9, <1>10, <1>11, <1>12, <1>13, <1>14, <1>15, <1>16, <1>17, <1>18, <1>19, <1>20, <1>21, <1>22, Zenon
  DEF Next, ScheduleMsgAndHandle, MoveNextMsg, TimeOut

(* A thread that deals with packets has claimed isWorking_, and only one   *)
(* thread has.                                                             *)
ExclInv ==
    /\ highVersion
    /\ \A t \in Threads : Working(t) => isWorking
    /\ AtMostOneWorks

LEMMA ExclInit == AlwaysHigh /\ Init => ExclInv
  BY Zenon DEF AlwaysHigh, Init, ExclInv, AtMostOneWorks, Working, Handling

LEMMA ExclStep ==
    TypeInv /\ ExclInv /\ [Next]_vars /\ AlwaysHigh' => ExclInv'
<1> SUFFICES ASSUME TypeInv, ExclInv, [Next]_vars, AlwaysHigh'
             PROVE  ExclInv'
  OBVIOUS
<1> USE DEF TypeInv, TypeOK, ThreadTypeOK, Pcs, ExclInv,
        AtMostOneWorks, Working, Handling, Goto, InGet,
        queueVars, mapVars, timerVars, ctxVars, localVars, boundVars
<1>1. ASSUME NEW t \in Threads, NEW m \in Messages, PutMsg(t, m) PROVE ExclInv'
  BY <1>1 DEF PutMsg
<1>2. ASSUME NEW t \in Threads, GetLastMsgFromQueue(t) PROVE ExclInv'
  BY <1>2, Zenon DEF GetLastMsgFromQueue
<1>3. ASSUME NEW t \in Threads, MoveNextBusy(t) PROVE ExclInv'
  BY <1>3 DEF MoveNextBusy
<1>4. ASSUME NEW t \in Threads, MoveNextWork(t) PROVE ExclInv'
  BY <1>4, Zenon DEF MoveNextWork, MayWork
<1>5. ASSUME NEW t \in Threads, UpdateMsgMap(t) PROVE ExclInv'
  BY <1>5 DEF UpdateMsgMap
<1>6. ASSUME NEW t \in Threads, UpdateMsgMapInner(t) PROVE ExclInv'
  <2>1. /\ pc[t] = "fill"
        /\ \E to \in {"fill", "filled"} : pc' = [pc EXCEPT ![t] = to]
        /\ UNCHANGED <<isWorking, highVersion>>
    BY <1>6, Zenon DEF UpdateMsgMapInner
  <2>2. QED
    BY <2>1
<1>7. ASSUME NEW t \in Threads, NEW s \in DOMAIN messageMap, GetMsgDrop(t, s) PROVE ExclInv'
  BY <1>7 DEF GetMsgDrop
<1>8. ASSUME NEW t \in Threads, NEW s \in DOMAIN messageMap, GetMsgTake(t, s) PROVE ExclInv'
  BY <1>8 DEF GetMsgTake
<1>9. ASSUME NEW t \in Threads, GetMsgNone(t) PROVE ExclInv'
  BY <1>9 DEF GetMsgNone
<1>10. ASSUME NEW t \in Threads, SetWorkingFree(t) PROVE ExclInv'
  BY <1>10, Zenon DEF SetWorkingFree
<1>11. ASSUME NEW t \in Threads, IsNeedReloadQueue(t) PROVE ExclInv'
  BY <1>11 DEF IsNeedReloadQueue
<1>12. ASSUME NEW t \in Threads, NEW out \in Outcomes, HandleDataRequestRecv(t, out) PROVE ExclInv'
  BY <1>12, Zenon DEF HandleDataRequestRecv
<1>13. ASSUME NEW t \in Threads, SendFinishedDataAck(t) PROVE ExclInv'
  BY <1>13, Zenon DEF SendFinishedDataAck
<1>14. ASSUME NEW t \in Threads, ScheduleInfoHandle(t) PROVE ExclInv'
  BY <1>14, Zenon DEF ScheduleInfoHandle
<1>15. ASSUME NEW t \in Threads, ScheduleInfoRelease(t) PROVE ExclInv'
  BY <1>15, Zenon DEF ScheduleInfoRelease
<1>16. ASSUME TimerFire PROVE ExclInv'
  BY <1>16, Zenon DEF TimerFire
<1>17. ASSUME TimeOutCheckReload PROVE ExclInv'
  BY <1>17, Zenon DEF TimeOutCheckReload
<1>18. ASSUME TimeOutCheckWorking PROVE ExclInv'
  BY <1>18, Zenon DEF TimeOutCheckWorking
<1>19. ASSUME TimeOutClear PROVE ExclInv'
  BY <1>19, Zenon DEF TimeOutClear
<1>20. ASSUME ClearMsg PROVE ExclInv'
  BY <1>20, Zenon DEF ClearMsg
<1>21. ASSUME SetRemoteSoftwareVersion PROVE ExclInv'
  BY <1>21, SwitchCounts, Zenon DEF AlwaysHigh
<1>22. CASE UNCHANGED vars
  BY <1>22, Zenon DEF vars
<1>23. QED
  BY <1>1, <1>2, <1>3, <1>4, <1>5, <1>6, <1>7, <1>8, <1>9, <1>10, <1>11, <1>12, <1>13, <1>14, <1>15, <1>16, <1>17, <1>18, <1>19, <1>20, <1>21, <1>22, Zenon
  DEF Next, ScheduleMsgAndHandle, MoveNextMsg, TimeOut

(* isWorking_ excludes: the code's "only one thread is deal msg".          *)
THEOREM MutualExclusion == Spec => []OnlyOneThreadDealsMsg
<1> DEFINE IInv == TypeInv /\ (AlwaysHigh => ExclInv)
<1>1. Init => IInv
  BY TypeInit, ExclInit, Zenon
<1>2. IInv /\ [Next]_vars => IInv'
  BY TypeStep, ExclStep, StaysHigh, Zenon
<1>3. IInv => OnlyOneThreadDealsMsg
  BY Zenon DEF ExclInv, OnlyOneThreadDealsMsg
<1>4. QED
  BY <1>1, <1>2, <1>3, PTL DEF Spec

(* The packet in hand is the expected one of the current session, or, when *)
(* it is only acknowledged, one before it; packets in the map are of the   *)
(* current session; every earlier sequence id of the session was handled,  *)
(* the last of them with the packet id the resend check starts from.       *)
InHand ==
    \A t \in Threads :
        /\ pc[t] \in {"handle", "sched"} /\ isNeedHandle[t] =>
               /\ msg[t].seq = expectedSequenceId
               /\ msg[t].session = currentSessionId
        /\ pc[t] = "handle" /\ ~isNeedHandle[t] =>
               /\ msg[t].seq < expectedSequenceId
               /\ msg[t].session = currentSessionId

MapOfSession ==
    \A s \in DOMAIN messageMap : messageMap[s].session = currentSessionId

HandledCovers ==
    \A k \in Nat \ {0} : k < expectedSequenceId =>
        \E m \in handled : m.session = currentSessionId /\ m.seq = k

PacketsAhead == expectedSequenceId <= finishedPacketId + 1

LastHandled ==
    handled # {} => \E h \in handled : /\ h.seq + 1 = expectedSequenceId
                                       /\ h.packet = finishedPacketId

OrderInv == InHand /\ MapOfSession /\ HandledCovers /\ PacketsAhead /\ LastHandled

LEMMA OrderInit == Init => OrderInv
<1> SUFFICES ASSUME Init PROVE OrderInv
  OBVIOUS
<1>1. InHand
  BY Zenon DEF Init, InHand
<1>2. MapOfSession
  BY MapFacts, Zenon DEF Init, MapOfSession
<1>3. HandledCovers /\ PacketsAhead /\ LastHandled
  BY DEF Init, HandledCovers, PacketsAhead, LastHandled
<1>4. QED
  BY <1>1, <1>2, <1>3, Zenon DEF OrderInv

LEMMA OrderStep ==
    TypeInv /\ ExclInv /\ OrderInv /\ [Next]_vars => OrderInv'
<1> SUFFICES ASSUME TypeInv, ExclInv, OrderInv, [Next]_vars
             PROVE  OrderInv'
  OBVIOUS
<1> USE DEF TypeInv, TypeOK, OrderInv, Goto, InGet,
        queueVars, mapVars, timerVars, ctxVars, localVars, boundVars
<1>1. ASSUME NEW t \in Threads, NEW m \in Messages, PutMsg(t, m) PROVE OrderInv'
  <2>1. InHand'
    BY <1>1, Zenon DEF PutMsg, InHand, ThreadTypeOK, Pcs
  <2>2. MapOfSession'
    BY <1>1, Zenon DEF PutMsg, MapOfSession
  <2>3. HandledCovers' /\ PacketsAhead' /\ LastHandled'
    BY <1>1, Zenon DEF PutMsg, HandledCovers, PacketsAhead, LastHandled
  <2>4. QED
    BY <2>1, <2>2, <2>3, Zenon
<1>2. ASSUME NEW t \in Threads, GetLastMsgFromQueue(t) PROVE OrderInv'
  <2>1. InHand'
    BY <1>2, Zenon DEF GetLastMsgFromQueue, ExclInv
  <2>2. MapOfSession'
    BY <1>2, Zenon DEF GetLastMsgFromQueue, MapOfSession
  <2>3. HandledCovers' /\ PacketsAhead' /\ LastHandled'
    BY <1>2, Zenon DEF GetLastMsgFromQueue, HandledCovers, PacketsAhead, LastHandled
  <2>4. QED
    BY <2>1, <2>2, <2>3, Zenon
<1>3. ASSUME NEW t \in Threads, MoveNextBusy(t) PROVE OrderInv'
  <2>1. InHand'
    BY <1>3, Zenon DEF MoveNextBusy, InHand, ThreadTypeOK, Pcs
  <2>2. MapOfSession'
    BY <1>3, Zenon DEF MoveNextBusy, MapOfSession
  <2>3. HandledCovers' /\ PacketsAhead' /\ LastHandled'
    BY <1>3, Zenon DEF MoveNextBusy, HandledCovers, PacketsAhead, LastHandled
  <2>4. QED
    BY <2>1, <2>2, <2>3, Zenon
<1>4. ASSUME NEW t \in Threads, MoveNextWork(t) PROVE OrderInv'
  <2>1. InHand'
    BY <1>4, Zenon DEF MoveNextWork, InHand, ThreadTypeOK, Pcs
  <2>2. MapOfSession'
    BY <1>4, Zenon DEF MoveNextWork, MapOfSession
  <2>3. HandledCovers' /\ PacketsAhead' /\ LastHandled'
    BY <1>4, Zenon DEF MoveNextWork, HandledCovers, PacketsAhead, LastHandled
  <2>4. QED
    BY <2>1, <2>2, <2>3, Zenon
<1>5. ASSUME NEW t \in Threads, UpdateMsgMap(t) PROVE OrderInv'
  <2>1. InHand'
    BY <1>5, Zenon DEF UpdateMsgMap, InHand, ThreadTypeOK, Pcs
  <2>2. MapOfSession'
    BY <1>5, Zenon DEF UpdateMsgMap, MapOfSession
  <2>3. HandledCovers' /\ PacketsAhead' /\ LastHandled'
    BY <1>5, Zenon DEF UpdateMsgMap, HandledCovers, PacketsAhead, LastHandled
  <2>4. QED
    BY <2>1, <2>2, <2>3, Zenon
<1>6. ASSUME NEW t \in Threads, UpdateMsgMapInner(t) PROVE OrderInv'
  <2> DEFINE m == Head(tmpQueue[t])
  <2>1. CASE tmpQueue[t] = <<>>
    BY <1>6, <2>1 DEF UpdateMsgMapInner, InHand, MapOfSession, HandledCovers,
       PacketsAhead, LastHandled, ThreadTypeOK, Pcs
  <2>2. CASE tmpQueue[t] # <<>>
    <3>1. m \in Messages
      BY <2>2, QueueFacts, Zenon DEF ThreadTypeOK
    <3>2. /\ UpdateMsgMapIfNeed(m)
          /\ pc[t] = "fill" /\ pc' = pc
          /\ UNCHANGED <<msg, isNeedHandle>>
      BY <1>6, <2>2, Zenon DEF UpdateMsgMapInner, ThreadTypeOK
    <3>3. \A u \in Threads : pc[u] \notin {"handle", "sched"}
      BY <3>2, Zenon DEF ExclInv, AtMostOneWorks, Working, Handling
    <3> HIDE DEF m
    <3>4. InHand'
      BY <3>2, <3>3, Zenon DEF InHand
    <3>5. MapOfSession'
      BY <3>1, <3>2, MapFacts
      DEF UpdateMsgMapIfNeed, MapKey, MapOfSession, PutEntry, MapTypeOK
    <3>6. HandledCovers' /\ PacketsAhead' /\ LastHandled'
      BY <3>1, <3>2 DEF UpdateMsgMapIfNeed, ExpectedOfNewSession, HandledCovers,
          PacketsAhead, LastHandled
    <3>7. QED
      BY <3>4, <3>5, <3>6, Zenon
  <2>3. QED
    BY <2>1, <2>2, Zenon
<1>7. ASSUME NEW t \in Threads, NEW s \in DOMAIN messageMap, GetMsgDrop(t, s) PROVE OrderInv'
  <2>1. InHand'
    BY <1>7, Zenon DEF GetMsgDrop, InHand, ThreadTypeOK, Pcs
  <2>2. MapOfSession'
    BY <1>7, Zenon DEF GetMsgDrop, MapOfSession, EraseEntry
  <2>3. HandledCovers' /\ PacketsAhead' /\ LastHandled'
    BY <1>7, Zenon DEF GetMsgDrop, HandledCovers, PacketsAhead, LastHandled
  <2>4. QED
    BY <2>1, <2>2, <2>3, Zenon
<1>8. ASSUME NEW t \in Threads, NEW s \in DOMAIN messageMap, GetMsgTake(t, s) PROVE OrderInv'
  <2>1. InHand'
    <3>1. /\ messageMap[s].seq = s /\ messageMap[s].session = currentSessionId
          /\ s \in Nat /\ expectedSequenceId \in Nat /\ s <= expectedSequenceId
      BY <1>8, Zenon DEF GetMsgTake, Due, NeedHandle, MapOfSession, MapTypeOK
    <3>2. ASSUME NEW u \in Threads, u # t
          PROVE  /\ pc'[u] = pc[u] /\ msg'[u] = msg[u]
                 /\ isNeedHandle'[u] = isNeedHandle[u]
      BY <1>8, <3>2, Zenon DEF GetMsgTake, Due, NeedHandle, ThreadTypeOK
    <3>3. /\ pc'[t] = "handle" /\ msg'[t] = messageMap[s]
          /\ isNeedHandle'[t] = (s = expectedSequenceId)
          /\ UNCHANGED <<expectedSequenceId, currentSessionId>>
      BY <1>8, Zenon DEF GetMsgTake, Due, NeedHandle, ThreadTypeOK
    <3> DEFINE Fits(u) ==
            /\ pc[u] \in {"handle", "sched"} /\ isNeedHandle[u] =>
                   /\ msg[u].seq = expectedSequenceId
                   /\ msg[u].session = currentSessionId
            /\ pc[u] = "handle" /\ ~isNeedHandle[u] =>
                   /\ msg[u].seq < expectedSequenceId
                   /\ msg[u].session = currentSessionId
    <3>4. ASSUME NEW u \in Threads, u # t PROVE Fits(u)'
      BY <3>2, <3>3, <3>4, Zenon DEF InHand
    <3>5. CASE s = expectedSequenceId
      <4>1. isNeedHandle'[t]
        BY <3>3, <3>5, Zenon
      <4>2. Fits(t)'
        BY <3>1, <3>3, <3>5, <4>1, Zenon
      <4>3. QED
        BY <3>4, <4>2, Zenon DEF InHand
    <3>6. CASE s # expectedSequenceId
      <4>1. ~isNeedHandle'[t]
        BY <3>3, <3>6, Zenon
      <4>2. Fits(t)'
        BY <3>1, <3>3, <3>6, <4>1
      <4>3. QED
        BY <3>4, <4>2, Zenon DEF InHand
    <3>7. QED
      BY <3>5, <3>6, Zenon
  <2>2. MapOfSession'
    BY <1>8, Zenon DEF GetMsgTake, Due, NeedHandle, MapOfSession, EraseEntry
  <2>3. HandledCovers' /\ PacketsAhead' /\ LastHandled'
    BY <1>8, Zenon DEF GetMsgTake, Due, NeedHandle, HandledCovers, PacketsAhead, LastHandled
  <2>4. QED
    BY <2>1, <2>2, <2>3, Zenon
<1>9. ASSUME NEW t \in Threads, GetMsgNone(t) PROVE OrderInv'
  <2>1. InHand'
    BY <1>9, Zenon DEF GetMsgNone, InHand, ThreadTypeOK, Pcs
  <2>2. MapOfSession'
    BY <1>9, Zenon DEF GetMsgNone, MapOfSession
  <2>3. HandledCovers' /\ PacketsAhead' /\ LastHandled'
    BY <1>9, Zenon DEF GetMsgNone, HandledCovers, PacketsAhead, LastHandled
  <2>4. QED
    BY <2>1, <2>2, <2>3, Zenon
<1>10. ASSUME NEW t \in Threads, SetWorkingFree(t) PROVE OrderInv'
  <2>1. InHand'
    BY <1>10, Zenon DEF SetWorkingFree, InHand, ThreadTypeOK, Pcs
  <2>2. MapOfSession'
    BY <1>10, Zenon DEF SetWorkingFree, MapOfSession
  <2>3. HandledCovers' /\ PacketsAhead' /\ LastHandled'
    BY <1>10, Zenon DEF SetWorkingFree, HandledCovers, PacketsAhead, LastHandled
  <2>4. QED
    BY <2>1, <2>2, <2>3, Zenon
<1>11. ASSUME NEW t \in Threads, IsNeedReloadQueue(t) PROVE OrderInv'
  <2>1. InHand'
    BY <1>11, Zenon DEF IsNeedReloadQueue, InHand, ThreadTypeOK, Pcs
  <2>2. MapOfSession'
    BY <1>11, Zenon DEF IsNeedReloadQueue, MapOfSession
  <2>3. HandledCovers' /\ PacketsAhead' /\ LastHandled'
    BY <1>11, Zenon DEF IsNeedReloadQueue, HandledCovers, PacketsAhead, LastHandled
  <2>4. QED
    BY <2>1, <2>2, <2>3, Zenon
<1>12. ASSUME NEW t \in Threads, NEW out \in Outcomes, HandleDataRequestRecv(t, out) PROVE OrderInv'
  <2>1. InHand'
    BY <1>12, Zenon DEF HandleDataRequestRecv, InHand, ThreadTypeOK, Pcs
  <2>2. MapOfSession'
    BY <1>12, Zenon DEF HandleDataRequestRecv, MapOfSession
  <2>3. HandledCovers' /\ PacketsAhead' /\ LastHandled'
    BY <1>12, Zenon DEF HandleDataRequestRecv, HandledCovers, PacketsAhead, LastHandled
  <2>4. QED
    BY <2>1, <2>2, <2>3, Zenon
<1>13. ASSUME NEW t \in Threads, SendFinishedDataAck(t) PROVE OrderInv'
  <2>1. InHand'
    BY <1>13, Zenon DEF SendFinishedDataAck, InHand, ThreadTypeOK, Pcs
  <2>2. MapOfSession'
    BY <1>13, Zenon DEF SendFinishedDataAck, MapOfSession
  <2>3. HandledCovers' /\ PacketsAhead' /\ LastHandled'
    BY <1>13, Zenon DEF SendFinishedDataAck, HandledCovers, PacketsAhead, LastHandled
  <2>4. QED
    BY <2>1, <2>2, <2>3, Zenon
<1>14. ASSUME NEW t \in Threads, ScheduleInfoHandle(t) PROVE OrderInv'
  <2>1. /\ pc[t] = "sched" /\ msg[t] \in Messages
        /\ \A u \in Threads : u # t => pc[u] \notin {"handle", "sched"}
    BY Zenon, <1>14 DEF ScheduleInfoHandle, HoldsPacket, ExclInv,
       AtMostOneWorks, Working, Handling
  <2>2. InHand'
    BY <1>14, <2>1, Zenon DEF ScheduleInfoHandle, InHand, ThreadTypeOK, Pcs
  <2>3. MapOfSession'
    BY <1>14, MapFacts, Zenon DEF ScheduleInfoHandle, MapOfSession
  <2>4. CASE isNeedHandle[t] /\ highVersion
    <3>1. /\ msg[t].seq = expectedSequenceId
          /\ msg[t].session = currentSessionId
          /\ msg[t].packet >= msg[t].seq
          /\ msg[t].packet \in Nat /\ msg[t].seq \in Nat \ {0}
      BY <2>1, <2>4, MessagesAssumption, NumberingAssumption, BoundsAssumption
      DEF InHand, MessagesAssumption, NumberingAssumption, BoundsAssumption
    <3>2. PacketsAhead'
      BY <1>14, <2>4, <3>1 DEF ScheduleInfoHandle, PacketsAhead
    <3>3. HandledCovers'
      BY <1>14, <2>4, <3>1 DEF ScheduleInfoHandle, HandledCovers, MapTypeOK
    <3>4. LastHandled'
      <4>1. finishedPacketId' = msg[t].packet
        BY <1>14, <2>4, Zenon DEF ScheduleInfoHandle
      <4>2. CASE isNeedClearMap[t]
        BY <1>14, <2>4, <4>2, Zenon DEF ScheduleInfoHandle, LastHandled
      <4>3. CASE ~isNeedClearMap[t]
        <5>1. msg[t] \in handled' /\ msg[t].seq + 1 = expectedSequenceId'
          BY <1>14, <2>4, <3>1, <4>3, Zenon DEF ScheduleInfoHandle
        <5>2. QED
          BY <4>1, <5>1, Zenon DEF LastHandled
      <4>4. QED
        BY <4>2, <4>3, Zenon
    <3>5. QED
      BY <2>2, <2>3, <3>2, <3>3, <3>4, Zenon
  <2>5. CASE ~(isNeedHandle[t] /\ highVersion)
    BY <1>14, <2>2, <2>3, <2>5, Zenon
    DEF ScheduleInfoHandle, HandledCovers, PacketsAhead, LastHandled
  <2>6. QED
    BY <2>4, <2>5, Zenon
<1>15. ASSUME NEW t \in Threads, ScheduleInfoRelease(t) PROVE OrderInv'
  <2>1. InHand'
    BY <1>15, Zenon DEF ScheduleInfoRelease, InHand, ThreadTypeOK, Pcs
  <2>2. MapOfSession'
    BY <1>15, Zenon DEF ScheduleInfoRelease, MapOfSession
  <2>3. HandledCovers' /\ PacketsAhead' /\ LastHandled'
    BY <1>15, Zenon DEF ScheduleInfoRelease, HandledCovers, PacketsAhead, LastHandled
  <2>4. QED
    BY <2>1, <2>2, <2>3, Zenon
<1>16. ASSUME TimerFire PROVE OrderInv'
  <2>1. InHand'
    BY <1>16, Zenon DEF TimerFire, InHand, ThreadTypeOK, Pcs
  <2>2. MapOfSession'
    BY <1>16, Zenon DEF TimerFire, MapOfSession
  <2>3. HandledCovers' /\ PacketsAhead' /\ LastHandled'
    BY <1>16, Zenon DEF TimerFire, HandledCovers, PacketsAhead, LastHandled
  <2>4. QED
    BY <2>1, <2>2, <2>3, Zenon
<1>17. ASSUME TimeOutCheckReload PROVE OrderInv'
  <2>1. InHand'
    BY <1>17, Zenon DEF TimeOutCheckReload, InHand, ThreadTypeOK, Pcs
  <2>2. MapOfSession'
    BY <1>17, Zenon DEF TimeOutCheckReload, MapOfSession
  <2>3. HandledCovers' /\ PacketsAhead' /\ LastHandled'
    BY <1>17, Zenon DEF TimeOutCheckReload, HandledCovers, PacketsAhead, LastHandled
  <2>4. QED
    BY <2>1, <2>2, <2>3, Zenon
<1>18. ASSUME TimeOutCheckWorking PROVE OrderInv'
  <2>1. InHand'
    BY <1>18, Zenon DEF TimeOutCheckWorking, InHand, ThreadTypeOK, Pcs
  <2>2. MapOfSession'
    BY <1>18, Zenon DEF TimeOutCheckWorking, MapOfSession
  <2>3. HandledCovers' /\ PacketsAhead' /\ LastHandled'
    BY <1>18, Zenon DEF TimeOutCheckWorking, HandledCovers, PacketsAhead, LastHandled
  <2>4. QED
    BY <2>1, <2>2, <2>3, Zenon
<1>19. ASSUME TimeOutClear PROVE OrderInv'
  <2>1. InHand'
    BY <1>19, Zenon DEF TimeOutClear, InHand, ThreadTypeOK, Pcs
  <2>2. MapOfSession'
    BY <1>19, MapFacts, Zenon DEF TimeOutClear, MapOfSession
  <2>3. HandledCovers' /\ PacketsAhead' /\ LastHandled'
    BY <1>19, Zenon DEF TimeOutClear, HandledCovers, PacketsAhead, LastHandled
  <2>4. QED
    BY <2>1, <2>2, <2>3, Zenon
<1>20. ASSUME ClearMsg PROVE OrderInv'
  <2>1. InHand'
    BY <1>20, Zenon DEF ClearMsg, InHand, ThreadTypeOK, Pcs
  <2>2. MapOfSession'
    BY <1>20, MapFacts, Zenon DEF ClearMsg, MapOfSession
  <2>3. HandledCovers' /\ PacketsAhead' /\ LastHandled'
    BY <1>20, Zenon DEF ClearMsg, HandledCovers, PacketsAhead, LastHandled
  <2>4. QED
    BY <2>1, <2>2, <2>3, Zenon
<1>21. ASSUME SetRemoteSoftwareVersion PROVE OrderInv'
  <2>1. InHand'
    BY <1>21, Zenon DEF SetRemoteSoftwareVersion, InHand, ThreadTypeOK, Pcs
  <2>2. MapOfSession'
    BY <1>21, Zenon DEF SetRemoteSoftwareVersion, MapOfSession
  <2>3. HandledCovers' /\ PacketsAhead' /\ LastHandled'
    BY <1>21, Zenon DEF SetRemoteSoftwareVersion, HandledCovers, PacketsAhead, LastHandled
  <2>4. QED
    BY <2>1, <2>2, <2>3, Zenon
<1>22. CASE UNCHANGED vars
  BY <1>22, Zenon DEF vars, InHand, MapOfSession, HandledCovers, PacketsAhead, LastHandled
<1>23. QED
  BY <1>1, <1>2, <1>3, <1>4, <1>5, <1>6, <1>7, <1>8, <1>9, <1>10, <1>11, <1>12, <1>13, <1>14, <1>15, <1>16, <1>17, <1>18, <1>19, <1>20, <1>21, <1>22, Zenon
  DEF Next, ScheduleMsgAndHandle, MoveNextMsg, TimeOut

(* The invariant of the schedule while the version stays high.             *)
HighInv == TypeInv /\ (AlwaysHigh => ExclInv /\ OrderInv)

LEMMA HighInvariant == Spec => []HighInv
<1>1. Init => HighInv
  BY TypeInit, ExclInit, OrderInit, Zenon DEF HighInv
<1>2. HighInv /\ [Next]_vars => HighInv'
  BY TypeStep, ExclStep, OrderStep, StaysHigh, Zenon DEF HighInv
<1>3. QED
  BY <1>1, <1>2, PTL DEF Spec

(* ScheduleInfoHandle counts the packet the schedule expects, of the       *)
(* session it is in, though the packet was handled outside the locks.      *)
THEOREM CountsInOrder == Spec => []CountsTheExpected
<1>1. HighInv => CountsTheExpected
  BY Zenon DEF HighInv, CountsTheExpected, OrderInv, InHand
<1>2. QED
  BY <1>1, HighInvariant, PTL

(* SendFinishedDataAck answers only packets that repeat a handled one.     *)
THEOREM FinishedAckIsEarned == Spec => []FinishedAckOnlyForHandled
<1>1. HighInv => FinishedAckOnlyForHandled
  <2> SUFFICES ASSUME TypeInv, OrderInv,
                      NEW t \in Threads, pc[t] = "handle", ~isNeedHandle[t]
               PROVE  \E m \in handled : /\ m.session = msg[t].session
                                         /\ m.seq = msg[t].seq
    BY Zenon DEF HighInv, FinishedAckOnlyForHandled
  <2>1. msg[t].seq < expectedSequenceId /\ msg[t].session = currentSessionId
    BY Zenon DEF OrderInv, InHand
  <2>2. msg[t].seq \in Nat \ {0}
    BY MessagesAssumption, Zenon
    DEF MessagesAssumption, TypeInv, HoldsPacket, Handling
  <2>3. QED
    BY <2>1, <2>2, Zenon DEF OrderInv, HandledCovers
<1>2. QED
  BY <1>1, HighInvariant, PTL

(* The subtraction in uint64_t of the resend check is a subtraction.       *)
LEMMA ReviseIsMinus ==
    ASSUME NEW f \in Nat, NEW n \in Nat, f < n, NEW d \in Nat, d <= f
    PROVE  (f + n - d) % n = f - d
  OBVIOUS

(* The resend check never wraps, and what it drops was sent before a       *)
(* packet that is already handled.                                         *)
THEOREM ResendIsAnswered == Spec => [](ReviseNeverWraps /\ ResendIsAcked)
<1>1. ASSUME TypeInv, OrderInv
      PROVE  /\ expectedSequenceId \in Nat /\ finishedPacketId \in Nat
             /\ PacketIdSpace \in Nat /\ finishedPacketId < PacketIdSpace
             /\ expectedSequenceId <= finishedPacketId + 1
             /\ \A s \in DOMAIN messageMap : s \in Nat \ {0} /\ messageMap[s] \in Messages
  <2>1. MapTypeOK /\ PacketsAhead /\ PacketIdSpace \in Nat
    BY <1>1, BoundsAssumption, Zenon DEF TypeInv, TypeOK, OrderInv, BoundsAssumption
  <2>2. finishedPacketId \in 0 .. PacketIdSpace - 1
    BY <2>1, Zenon DEF MapTypeOK
  <2>3. finishedPacketId \in Nat /\ finishedPacketId < PacketIdSpace
    BY <2>1, <2>2
  <2>4. QED
    BY <2>1, <2>3, Zenon DEF MapTypeOK, PacketsAhead
<1>2. HighInv => ReviseNeverWraps
  <2> SUFFICES ASSUME TypeInv, OrderInv,
                      NEW s \in DOMAIN messageMap, s < expectedSequenceId
               PROVE  expectedSequenceId - 1 - s <= finishedPacketId
    BY Zenon DEF HighInv, ReviseNeverWraps
  <2>1. QED
    BY <1>1
<1>3. HighInv => ResendIsAcked
  <2> SUFFICES ASSUME TypeInv, OrderInv, handled # {}, NEW s \in DOMAIN messageMap,
                      \A h \in handled : h.packet + s <= messageMap[s].packet + h.seq
               PROVE  ~Expired(s)
    BY Zenon DEF HighInv, ResendIsAcked
  <2>1. PICK h \in handled : h.seq + 1 = expectedSequenceId /\ h.packet = finishedPacketId
    BY Zenon DEF OrderInv, LastHandled
  <2> DEFINE p == messageMap[s].packet
             q == h.seq
  <2>2. q \in Nat /\ p \in Nat /\ s \in Nat
    <3>1. h \in Messages /\ messageMap[s] \in Messages /\ s \in Nat
      BY <1>1, Zenon DEF TypeInv, TypeOK, MapTypeOK
    <3>2. QED
      BY <3>1, MessagesAssumption, BoundsAssumption DEF MessagesAssumption, BoundsAssumption
  <2>3. finishedPacketId + s <= p + q /\ q + 1 = expectedSequenceId
    BY <2>1, Zenon
  <2> HIDE DEF p, q
  <2>4. ASSUME s < expectedSequenceId PROVE ~(p < RevisePacketId(s))
    <3> DEFINE d == expectedSequenceId - 1 - s
    <3>1. d \in Nat /\ d <= finishedPacketId
      BY <1>1, <2>2, <2>4
    <3>2. RevisePacketId(s) = finishedPacketId - d
      BY <1>1, <3>1, ReviseIsMinus, ZenonT(30) DEF RevisePacketId
    <3>3. finishedPacketId - d <= p
      BY <1>1, <2>2, <2>3
    <3> HIDE DEF d
    <3>4. QED
      BY <1>1, <2>2, <3>1, <3>2, <3>3
  <2>5. ASSUME s = expectedSequenceId PROVE ~(p < finishedPacketId)
    BY <1>1, <2>2, <2>3, <2>5
  <2>6. QED
    BY <2>4, <2>5, Zenon DEF Expired, p
<1>4. QED
  BY <1>2, <1>3, HighInvariant, PTL

(* Some thread still has the loop to go through.  isWorking_ is set only   *)
(* while a thread works, and a packet in the queue has isNeedReload_ set.  *)
WorkInv == isWorking => \E u \in Threads : Working(u)

QueueInv ==
    msgQueue # <<>> => isNeedReload /\ \E t \in Threads : pc[t] # "idle"

LEMMA WorkStep == TypeInv /\ WorkInv /\ [Next]_vars => WorkInv'
<1> SUFFICES ASSUME TypeInv, WorkInv, [Next]_vars PROVE WorkInv'
  OBVIOUS
<1>0. pc \in [Threads -> Pcs]
  BY Zenon DEF TypeInv, TypeOK, ThreadTypeOK
<1> USE <1>0 DEF WorkInv, Working, Handling, Goto, InGet,
        queueVars, mapVars, timerVars, ctxVars, localVars, boundVars
<1>1. ASSUME NEW t \in Threads, NEW m \in Messages, PutMsg(t, m) PROVE WorkInv'
  BY <1>1, Zenon DEF PutMsg
<1>2. ASSUME NEW t \in Threads, GetLastMsgFromQueue(t) PROVE WorkInv'
  BY <1>2, Zenon DEF GetLastMsgFromQueue
<1>3. ASSUME NEW t \in Threads, MoveNextBusy(t) PROVE WorkInv'
  BY <1>3, Zenon DEF MoveNextBusy
<1>4. ASSUME NEW t \in Threads, MoveNextWork(t) PROVE WorkInv'
  BY <1>4, Zenon DEF MoveNextWork
<1>5. ASSUME NEW t \in Threads, UpdateMsgMap(t) PROVE WorkInv'
  BY <1>5, Zenon DEF UpdateMsgMap
<1>6. ASSUME NEW t \in Threads, UpdateMsgMapInner(t) PROVE WorkInv'
  BY <1>6, Zenon DEF UpdateMsgMapInner, Pcs
<1>7. ASSUME NEW t \in Threads, NEW s \in DOMAIN messageMap, GetMsgDrop(t, s) PROVE WorkInv'
  BY <1>7, Zenon DEF GetMsgDrop
<1>8. ASSUME NEW t \in Threads, NEW s \in DOMAIN messageMap, GetMsgTake(t, s) PROVE WorkInv'
  BY <1>8, Zenon DEF GetMsgTake
<1>9. ASSUME NEW t \in Threads, GetMsgNone(t) PROVE WorkInv'
  BY <1>9, Zenon DEF GetMsgNone
<1>10. ASSUME NEW t \in Threads, SetWorkingFree(t) PROVE WorkInv'
  BY <1>10, Zenon DEF SetWorkingFree
<1>11. ASSUME NEW t \in Threads, IsNeedReloadQueue(t) PROVE WorkInv'
  BY <1>11, Zenon DEF IsNeedReloadQueue
<1>12. ASSUME NEW t \in Threads, NEW out \in Outcomes, HandleDataRequestRecv(t, out) PROVE WorkInv'
  BY <1>12, Zenon DEF HandleDataRequestRecv
<1>13. ASSUME NEW t \in Threads, SendFinishedDataAck(t) PROVE WorkInv'
  BY <1>13, Zenon DEF SendFinishedDataAck
<1>14. ASSUME NEW t \in Threads, ScheduleInfoHandle(t) PROVE WorkInv'
  BY <1>14, Zenon DEF ScheduleInfoHandle
<1>15. ASSUME NEW t \in Threads, ScheduleInfoRelease(t) PROVE WorkInv'
  BY <1>15, Zenon DEF ScheduleInfoRelease
<1>16. ASSUME TimerFire PROVE WorkInv'
  BY <1>16, Zenon DEF TimerFire
<1>17. ASSUME TimeOutCheckReload PROVE WorkInv'
  BY <1>17, Zenon DEF TimeOutCheckReload
<1>18. ASSUME TimeOutCheckWorking PROVE WorkInv'
  BY <1>18, Zenon DEF TimeOutCheckWorking
<1>19. ASSUME TimeOutClear PROVE WorkInv'
  BY <1>19, Zenon DEF TimeOutClear
<1>20. ASSUME ClearMsg PROVE WorkInv'
  BY <1>20, Zenon DEF ClearMsg
<1>21. ASSUME SetRemoteSoftwareVersion PROVE WorkInv'
  BY <1>21, Zenon DEF SetRemoteSoftwareVersion
<1>22. CASE UNCHANGED vars
  BY <1>22, Zenon DEF vars
<1>23. QED
  BY <1>1, <1>2, <1>3, <1>4, <1>5, <1>6, <1>7, <1>8, <1>9, <1>10, <1>11, <1>12, <1>13, <1>14, <1>15, <1>16, <1>17, <1>18, <1>19, <1>20, <1>21, <1>22, Zenon
  DEF Next, ScheduleMsgAndHandle, MoveNextMsg, TimeOut

LEMMA QueueStep == TypeInv /\ WorkInv /\ QueueInv /\ [Next]_vars => QueueInv'
<1> SUFFICES ASSUME TypeInv, WorkInv, QueueInv, [Next]_vars PROVE QueueInv'
  OBVIOUS
<1>0. pc \in [Threads -> Pcs]
  BY Zenon DEF TypeInv, TypeOK, ThreadTypeOK
<1> USE <1>0 DEF WorkInv, QueueInv, Working, Handling, Goto, InGet,
        queueVars, mapVars, timerVars, ctxVars, localVars, boundVars
<1>1. ASSUME NEW t \in Threads, NEW m \in Messages, PutMsg(t, m) PROVE QueueInv'
  BY <1>1, Zenon DEF PutMsg
<1>2. ASSUME NEW t \in Threads, GetLastMsgFromQueue(t) PROVE QueueInv'
  BY <1>2, Zenon DEF GetLastMsgFromQueue
<1>3. ASSUME NEW t \in Threads, MoveNextBusy(t) PROVE QueueInv'
  BY <1>3, Zenon DEF MoveNextBusy, MayWork
<1>4. ASSUME NEW t \in Threads, MoveNextWork(t) PROVE QueueInv'
  BY <1>4, Zenon DEF MoveNextWork
<1>5. ASSUME NEW t \in Threads, UpdateMsgMap(t) PROVE QueueInv'
  BY <1>5, Zenon DEF UpdateMsgMap
<1>6. ASSUME NEW t \in Threads, UpdateMsgMapInner(t) PROVE QueueInv'
  BY <1>6, Zenon DEF UpdateMsgMapInner
<1>7. ASSUME NEW t \in Threads, NEW s \in DOMAIN messageMap, GetMsgDrop(t, s) PROVE QueueInv'
  BY <1>7, Zenon DEF GetMsgDrop
<1>8. ASSUME NEW t \in Threads, NEW s \in DOMAIN messageMap, GetMsgTake(t, s) PROVE QueueInv'
  BY <1>8, Zenon DEF GetMsgTake
<1>9. ASSUME NEW t \in Threads, GetMsgNone(t) PROVE QueueInv'
  BY <1>9, Zenon DEF GetMsgNone
<1>10. ASSUME NEW t \in Threads, SetWorkingFree(t) PROVE QueueInv'
  BY <1>10, Zenon DEF SetWorkingFree
<1>11. ASSUME NEW t \in Threads, IsNeedReloadQueue(t) PROVE QueueInv'
  BY <1>11, Zenon DEF IsNeedReloadQueue, NeedReload
<1>12. ASSUME NEW t \in Threads, NEW out \in Outcomes, HandleDataRequestRecv(t, out) PROVE QueueInv'
  BY <1>12, Zenon DEF HandleDataRequestRecv
<1>13. ASSUME NEW t \in Threads, SendFinishedDataAck(t) PROVE QueueInv'
  BY <1>13, Zenon DEF SendFinishedDataAck
<1>14. ASSUME NEW t \in Threads, ScheduleInfoHandle(t) PROVE QueueInv'
  BY <1>14, Zenon DEF ScheduleInfoHandle
<1>15. ASSUME NEW t \in Threads, ScheduleInfoRelease(t) PROVE QueueInv'
  BY <1>15, Zenon DEF ScheduleInfoRelease
<1>16. ASSUME TimerFire PROVE QueueInv'
  BY <1>16, Zenon DEF TimerFire
<1>17. ASSUME TimeOutCheckReload PROVE QueueInv'
  BY <1>17, Zenon DEF TimeOutCheckReload
<1>18. ASSUME TimeOutCheckWorking PROVE QueueInv'
  BY <1>18, Zenon DEF TimeOutCheckWorking
<1>19. ASSUME TimeOutClear PROVE QueueInv'
  BY <1>19, Zenon DEF TimeOutClear
<1>20. ASSUME ClearMsg PROVE QueueInv'
  BY <1>20, Zenon DEF ClearMsg
<1>21. ASSUME SetRemoteSoftwareVersion PROVE QueueInv'
  BY <1>21, Zenon DEF SetRemoteSoftwareVersion
<1>22. CASE UNCHANGED vars
  BY <1>22, Zenon DEF vars
<1>23. QED
  BY <1>1, <1>2, <1>3, <1>4, <1>5, <1>6, <1>7, <1>8, <1>9, <1>10, <1>11, <1>12, <1>13, <1>14, <1>15, <1>16, <1>17, <1>18, <1>19, <1>20, <1>21, <1>22, Zenon
  DEF Next, ScheduleMsgAndHandle, MoveNextMsg, TimeOut

(* The map: whoever found nothing due finds it so until isWorking_ is free *)
(* again, and until then somebody will look again at what is due.          *)
LooksAgain(t) == pc[t] = "move" \/ (Working(t) /\ pc[t] # "free")

DueInv ==
    /\ (\E t \in Threads : pc[t] = "free") => NothingDue
    /\ NothingDue \/ \E t \in Threads : LooksAgain(t)

LEMMA DueStep ==
    TypeInv /\ ExclInv /\ WorkInv /\ DueInv /\ [Next]_vars /\ AlwaysHigh' => DueInv'
<1> SUFFICES ASSUME TypeInv, ExclInv, WorkInv, DueInv, [Next]_vars, AlwaysHigh'
             PROVE  DueInv'
  OBVIOUS
<1>0. pc \in [Threads -> Pcs]
  BY Zenon DEF TypeInv, TypeOK, ThreadTypeOK
<1>a. \A t, u \in Threads : Working(t) /\ pc[u] = "free" => t = u
  BY Zenon DEF ExclInv, AtMostOneWorks, Working
<1> USE <1>0 DEF DueInv, LooksAgain, Working, Handling, Goto, InGet,
        queueVars, mapVars, timerVars, ctxVars, localVars, boundVars
<1>1. ASSUME NEW t \in Threads, NEW m \in Messages, PutMsg(t, m) PROVE DueInv'
  BY <1>1, <1>a, Zenon DEF PutMsg, NothingDue
<1>2. ASSUME NEW t \in Threads, GetLastMsgFromQueue(t) PROVE DueInv'
  BY <1>2, Zenon DEF GetLastMsgFromQueue, ExclInv
<1>3. ASSUME NEW t \in Threads, MoveNextBusy(t) PROVE DueInv'
  BY <1>3, Zenon DEF MoveNextBusy, MayWork, WorkInv, NothingDue
<1>4. ASSUME NEW t \in Threads, MoveNextWork(t) PROVE DueInv'
  BY <1>4, <1>a, Zenon DEF MoveNextWork, NothingDue
<1>5. ASSUME NEW t \in Threads, UpdateMsgMap(t) PROVE DueInv'
  BY <1>5, <1>a, Zenon DEF UpdateMsgMap
<1>6. ASSUME NEW t \in Threads, UpdateMsgMapInner(t) PROVE DueInv'
  BY <1>6, <1>a, Zenon DEF UpdateMsgMapInner
<1>7. ASSUME NEW t \in Threads, NEW s \in DOMAIN messageMap, GetMsgDrop(t, s) PROVE DueInv'
  BY <1>7, <1>a, Zenon DEF GetMsgDrop
<1>8. ASSUME NEW t \in Threads, NEW s \in DOMAIN messageMap, GetMsgTake(t, s) PROVE DueInv'
  BY <1>8, <1>a, Zenon DEF GetMsgTake
<1>9. ASSUME NEW t \in Threads, GetMsgNone(t) PROVE DueInv'
  BY <1>9, <1>a, Zenon DEF GetMsgNone, NothingDue
<1>10. ASSUME NEW t \in Threads, SetWorkingFree(t) PROVE DueInv'
  BY <1>10, <1>a, Zenon DEF SetWorkingFree, NothingDue
<1>11. ASSUME NEW t \in Threads, IsNeedReloadQueue(t) PROVE DueInv'
  BY <1>11, <1>a, Zenon DEF IsNeedReloadQueue, NothingDue
<1>12. ASSUME NEW t \in Threads, NEW out \in Outcomes, HandleDataRequestRecv(t, out) PROVE DueInv'
  BY <1>12, <1>a, Zenon DEF HandleDataRequestRecv
<1>13. ASSUME NEW t \in Threads, SendFinishedDataAck(t) PROVE DueInv'
  BY <1>13, <1>a, Zenon DEF SendFinishedDataAck
<1>14. ASSUME NEW t \in Threads, ScheduleInfoHandle(t) PROVE DueInv'
  BY <1>14, <1>a, Zenon DEF ScheduleInfoHandle
<1>15. ASSUME NEW t \in Threads, ScheduleInfoRelease(t) PROVE DueInv'
  BY <1>15, <1>a, Zenon DEF ScheduleInfoRelease, NothingDue
<1>16. ASSUME TimerFire PROVE DueInv'
  BY <1>16, <1>a, Zenon DEF TimerFire, NothingDue
<1>17. ASSUME TimeOutCheckReload PROVE DueInv'
  BY <1>17, <1>a, Zenon DEF TimeOutCheckReload, NothingDue
<1>18. ASSUME TimeOutCheckWorking PROVE DueInv'
  BY <1>18, <1>a, Zenon DEF TimeOutCheckWorking, NothingDue
<1>19. ASSUME TimeOutClear PROVE DueInv'
  BY <1>19, MapFacts, Zenon DEF TimeOutClear, NothingDue
<1>20. ASSUME ClearMsg PROVE DueInv'
  BY <1>20, MapFacts, Zenon DEF ClearMsg, NothingDue
<1>21. ASSUME SetRemoteSoftwareVersion PROVE DueInv'
  BY <1>21, SwitchCounts, Zenon DEF AlwaysHigh
<1>22. CASE UNCHANGED vars
  BY <1>22, <1>a, Zenon DEF vars, NothingDue
<1>23. QED
  BY <1>1, <1>2, <1>3, <1>4, <1>5, <1>6, <1>7, <1>8, <1>9, <1>10, <1>11, <1>12, <1>13, <1>14, <1>15, <1>16, <1>17, <1>18, <1>19, <1>20, <1>21, <1>22, Zenon
  DEF Next, ScheduleMsgAndHandle, MoveNextMsg, TimeOut

(* A thread leaves the loop only when the queue is empty and nothing in    *)
(* the map is due, or while another thread is bound to look again.         *)
THEOREM NoPacketStranded == Spec => []NothingStranded
<1> DEFINE IInv == /\ TypeInv /\ WorkInv /\ QueueInv
                   /\ AlwaysHigh => ExclInv /\ DueInv
<1>1. Init => IInv
  <2> SUFFICES ASSUME Init PROVE WorkInv /\ QueueInv /\ DueInv
    BY TypeInit, ExclInit, Zenon
  <2>1. QED
    BY MapFacts, Zenon DEF Init, WorkInv, QueueInv, DueInv, NothingDue
<1>2. IInv /\ [Next]_vars => IInv'
  BY TypeStep, WorkStep, QueueStep, ExclStep, DueStep, StaysHigh, Zenon
<1>3. IInv => NothingStranded
  BY DEF QueueInv, DueInv, LooksAgain, Working, Handling, NothingStranded, NothingDue
<1>4. QED
  BY <1>1, <1>2, <1>3, PTL DEF Spec
==============================================================================
