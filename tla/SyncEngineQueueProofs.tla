------------------------ MODULE SyncEngineQueueProofs ------------------------
(***************************************************************************)
(* Proofs about SyncEngineQueue, for any messages, communicators and       *)
(* bounds.                                                                 *)
(***************************************************************************)
EXTENDS SyncEngineQueue, FiniteSetTheorems, TLAPS

-----------------------------------------------------------------------------
(* Finite sets that gain or lose one element.                              *)
LEMMA GainOne ==
    ASSUME NEW S, IsFiniteSet(S), NEW x, x \notin S, NEW T, T = S \cup {x}
    PROVE  IsFiniteSet(T) /\ Cardinality(S) \in Nat /\ Cardinality(T) = Cardinality(S) + 1
  BY FS_AddElement, FS_CardinalityType, Zenon

LEMMA LoseOne ==
    ASSUME NEW S, IsFiniteSet(S), NEW x, x \in S, NEW T, T = S \ {x}
    PROVE  /\ IsFiniteSet(T) /\ Cardinality(S) \in Nat /\ Cardinality(T) \in Nat
           /\ Cardinality(T) = Cardinality(S) - 1
<1>1. IsFiniteSet(T) /\ Cardinality(T) = Cardinality(S) - 1
  BY FS_RemoveElement, Zenon
<1>2. QED
  BY <1>1, FS_CardinalityType, Zenon

LEMMA SomeMessages ==
    ASSUME NEW S \in SUBSET Messages
    PROVE  IsFiniteSet(S) /\ Cardinality(S) \in Nat
  BY ConstantsAssumption, FS_Subset, FS_CardinalityType, Zenon DEF ConstantsAssumption

(* The sizes of a set of messages, and of one message more.                *)
Units(S) == UNION {{m} \X (1 .. Size[m]) : m \in S}

LEMMA UnitsFinite ==
    ASSUME NEW S \in SUBSET Messages
    PROVE  IsFiniteSet(Units(S)) /\ TotalSize(Size, S) \in Nat /\ TotalSize(Size, S) = Cardinality(Units(S))
<1> DEFINE UnitsOf == [m \in S |-> {m} \X (1 .. Size[m])]
           All == {{m} \X (1 .. Size[m]) : m \in S}
<1>1. UnitsOf \in Surjection(S, All)
  BY Zenon DEF Surjection
<1>2. IsFiniteSet(All)
  <2> HIDE DEF UnitsOf, All
  <2>1. QED
    BY <1>1, SomeMessages, FS_Surjection, Zenon
<1>3. ASSUME NEW m \in S PROVE IsFiniteSet({m} \X (1 .. Size[m]))
  <2>1. Size[m] \in Nat
    BY ConstantsAssumption, Zenon DEF ConstantsAssumption
  <2>2. IsFiniteSet(1 .. Size[m])
    BY <2>1, FS_Interval
  <2>3. QED
    BY <2>2, FS_Singleton, FS_Product, Zenon
<1>4. IsFiniteSet(Units(S))
  BY <1>2, <1>3, FS_UNION, Zenon DEF Units
<1>5. QED
  BY <1>4, FS_CardinalityType, Zenon DEF Units, TotalSize

LEMMA UnitsOfOne ==
    ASSUME NEW m \in Messages
    PROVE  IsFiniteSet({m} \X (1 .. Size[m])) /\ Cardinality({m} \X (1 .. Size[m])) = Size[m]
<1>1. Size[m] \in Nat
  BY ConstantsAssumption, Zenon DEF ConstantsAssumption
<1>2. IsFiniteSet(1 .. Size[m]) /\ Cardinality(1 .. Size[m]) = Size[m]
  <2>1. 1 \in Int /\ Size[m] \in Int
    BY <1>1
  <2>2. IsFiniteSet(1 .. Size[m]) /\ Cardinality(1 .. Size[m]) = IF 1 > Size[m] THEN 0 ELSE Size[m] - 1 + 1
    BY <2>1, FS_Interval, Zenon
  <2>3. (IF 1 > Size[m] THEN 0 ELSE Size[m] - 1 + 1) = Size[m]
    BY <1>1
  <2>4. QED
    BY <2>2, <2>3
<1>3. IsFiniteSet({m}) /\ Cardinality({m}) = 1
  BY FS_Singleton, Zenon
<1>4. /\ IsFiniteSet({m} \X (1 .. Size[m]))
      /\ Cardinality({m} \X (1 .. Size[m])) = Cardinality({m}) * Cardinality(1 .. Size[m])
  BY <1>2, <1>3, FS_Product, Zenon
<1>5. Cardinality({m}) * Cardinality(1 .. Size[m]) = Size[m]
  BY <1>1, <1>2, <1>3
<1>6. QED
  BY <1>4, <1>5, Zenon

LEMMA SizeOfOneMore ==
    ASSUME NEW S \in SUBSET Messages, NEW m \in Messages, m \notin S, NEW T, T = S \cup {m}
    PROVE  TotalSize(Size, T) = TotalSize(Size, S) + Size[m]
<1> DEFINE U == {m} \X (1 .. Size[m])
<1>0. \A R, u : u \in Units(R) <=> \E x \in R : u \in {x} \X (1 .. Size[x])
  BY Zenon DEF Units
<1>1. Units(T) = Units(S) \cup U /\ Units(S) \cap U = {}
  <2>1. ASSUME NEW u PROVE u \in Units(T) <=> u \in Units(S) \cup U
    <3>1. u \in Units(T) <=> \E x \in T : u \in {x} \X (1 .. Size[x])
      BY <1>0, Zenon
    <3>2. u \in Units(S) <=> \E x \in S : u \in {x} \X (1 .. Size[x])
      BY <1>0, Zenon
    <3>3. (\E x \in T : u \in {x} \X (1 .. Size[x])) <=> (\E x \in S : u \in {x} \X (1 .. Size[x])) \/ u \in U
      BY Zenon
    <3>4. QED
      BY <3>1, <3>2, <3>3, Zenon
  <2>2. ASSUME NEW u, u \in Units(S), u \in U PROVE FALSE
    <3>1. PICK x \in S : u \in {x} \X (1 .. Size[x])
      BY <1>0, <2>2, Zenon
    <3>2. u[1] = x /\ u[1] = m
      BY <2>2, <3>1
    <3>3. QED
      BY <3>2, Zenon
  <2>3. QED
    BY <2>1, <2>2, Zenon
<1>2. IsFiniteSet(Units(S)) /\ TotalSize(Size, S) = Cardinality(Units(S)) /\ TotalSize(Size, S) \in Nat
  BY UnitsFinite, Zenon
<1>3. TotalSize(Size, T) = Cardinality(Units(T))
  BY UnitsFinite, Zenon
<1>4. IsFiniteSet(U) /\ Cardinality(U) = Size[m]
  BY UnitsOfOne, Zenon
<1> HIDE DEF U
<1>5. Cardinality(Units(S) \cup U) = Cardinality(Units(S)) + Cardinality(U) - Cardinality(Units(S) \cap U)
  BY <1>2, <1>4, FS_Union, Zenon
<1>6. Cardinality(Units(S) \cap U) = 0
  BY <1>1, FS_EmptySet, Zenon
<1>7. Size[m] \in Nat
  BY ConstantsAssumption, Zenon DEF ConstantsAssumption
<1>8. TotalSize(Size, T) = TotalSize(Size, S) + Size[m] - 0
  BY <1>1, <1>2, <1>3, <1>4, <1>5, <1>6, Zenon
<1>9. QED
  BY <1>2, <1>7, <1>8

LEMMA SizeOfOneLess ==
    ASSUME NEW S \in SUBSET Messages, NEW m \in S, NEW T, T = S \ {m}
    PROVE  TotalSize(Size, T) = TotalSize(Size, S) - Size[m]
<1>1. T \in SUBSET Messages /\ m \in Messages /\ m \notin T /\ S = T \cup {m}
  BY Zenon
<1>2. TotalSize(Size, S) = TotalSize(Size, T) + Size[m]
  BY <1>1, SizeOfOneMore, Zenon
<1>3. TotalSize(Size, T) \in Nat
  BY <1>1, UnitsFinite, Zenon
<1>4. Size[m] \in Nat
  BY <1>1, ConstantsAssumption, Zenon DEF ConstantsAssumption
<1>5. QED
  BY <1>2, <1>3, <1>4

LEMMA SizeOfNone == TotalSize(Size, {}) = 0
<1>1. Units({}) = {}
  BY Zenon DEF Units
<1>2. QED
  BY <1>1, UnitsFinite, FS_EmptySet, Zenon

(* Queues in which no message is twice.                                    *)
NoRepeat(q) == \A i, j \in 1 .. Len(q) : q[i] = q[j] => i = j

LEMMA EmptyQueue == <<>> \in Seq(Messages) /\ NoRepeat(<<>>) /\ Range(<<>>) = {}
  BY DEF NoRepeat, Range

LEMMA InQueue ==
    ASSUME NEW q \in Seq(Messages)
    PROVE  Range(q) \in SUBSET Messages /\ \A m : m \in Range(q) <=> \E i \in 1 .. Len(q) : q[i] = m
  BY DEF Range

LEMMA AppendQueue ==
    ASSUME NEW q \in Seq(Messages), NoRepeat(q), NEW m \in Messages, m \notin Range(q)
    PROVE  /\ Append(q, m) \in Seq(Messages) /\ NoRepeat(Append(q, m))
           /\ Range(Append(q, m)) = Range(q) \cup {m}
<1> DEFINE n == Len(q)
           r == Append(q, m)
<1>1. n \in Nat /\ r \in Seq(Messages) /\ Len(r) = n + 1 /\ r[n + 1] = m /\ \A i \in 1 .. n : r[i] = q[i]
  OBVIOUS
<1>2. \A i \in 1 .. n : q[i] # m
  BY InQueue, Zenon
<1> HIDE DEF n, r
<1>3. \A i \in 1 .. Len(r) : i \in 1 .. n \/ i = n + 1
  BY <1>1
<1>4. NoRepeat(r)
  <2> SUFFICES ASSUME NEW i \in 1 .. Len(r), NEW j \in 1 .. Len(r), r[i] = r[j] PROVE i = j
    BY Zenon DEF NoRepeat
  <2>1. CASE i \in 1 .. n /\ j \in 1 .. n
    BY <1>1, <2>1, Zenon DEF NoRepeat, n
  <2>2. QED
    BY <1>1, <1>2, <1>3, <2>1, Zenon
<1>5. n + 1 \in 1 .. Len(r) /\ \A i \in 1 .. n : i \in 1 .. Len(r)
  BY <1>1
<1>6. \A x : x \in Range(r) <=> x \in Range(q) \cup {m}
  <2>1. \A x : x \in Range(q) <=> \E i \in 1 .. n : q[i] = x
    BY InQueue, Zenon DEF n
  <2>2. \A x : x \in Range(r) <=> \E i \in 1 .. Len(r) : r[i] = x
    BY <1>1, InQueue, Zenon
  <2>3. QED
    BY <1>1, <1>3, <1>5, <2>1, <2>2, ZenonT(30)
<1>7. QED
  BY <1>1, <1>4, <1>6, Zenon DEF r

LEMMA TailQueue ==
    ASSUME NEW q \in Seq(Messages), NoRepeat(q), q # <<>>
    PROVE  /\ Head(q) \in Range(q) /\ Head(q) \in Messages
           /\ Tail(q) \in Seq(Messages) /\ NoRepeat(Tail(q))
           /\ Range(Tail(q)) = Range(q) \ {Head(q)}
<1> DEFINE n == Len(q)
           r == Tail(q)
           h == Head(q)
<1>1. /\ n \in Nat \ {0} /\ h = q[1] /\ h \in Messages /\ r \in Seq(Messages) /\ Len(r) = n - 1
      /\ \A i \in 1 .. n - 1 : r[i] = q[i + 1]
  OBVIOUS
<1> HIDE DEF n, r, h
<1>2. 1 \in 1 .. n /\ Len(r) \in Nat /\ (\A i \in 1 .. n : i = 1 \/ (i - 1 \in 1 .. Len(r) /\ (i - 1) + 1 = i))
  <2>1. n \in Nat \ {0} /\ Len(r) = n - 1
    BY <1>1, Zenon
  <2>2. QED
    BY <2>1
<1>3. \A i \in 1 .. Len(r) : i + 1 \in 1 .. n /\ i + 1 # 1 /\ r[i] = q[i + 1]
  <2>1. n \in Nat \ {0} /\ Len(r) = n - 1 /\ \A i \in 1 .. Len(r) : r[i] = q[i + 1]
    BY <1>1, Zenon
  <2>2. \A i \in 1 .. Len(r) : i + 1 \in 1 .. n /\ i + 1 # 1
    BY <2>1
  <2>3. QED
    BY <2>1, <2>2, Zenon
<1>4. NoRepeat(r)
  <2> SUFFICES ASSUME NEW i \in 1 .. Len(r), NEW j \in 1 .. Len(r), r[i] = r[j] PROVE i = j
    BY Zenon DEF NoRepeat
  <2>1. i + 1 = j + 1
    BY <1>3, Zenon DEF NoRepeat, n
  <2>2. QED
    BY <1>2, <2>1
<1>5. \A x : x \in Range(q) <=> \E i \in 1 .. n : q[i] = x
  BY InQueue, Zenon DEF n
<1>6. \A x : x \in Range(r) <=> \E i \in 1 .. Len(r) : r[i] = x
  BY <1>1, InQueue, Zenon
<1>7. \A x : x \in Range(r) <=> x \in Range(q) \ {h}
  <2>1. ASSUME NEW x, x \in Range(r) PROVE x \in Range(q) /\ x # h
    <3>1. PICK i \in 1 .. Len(r) : r[i] = x
      BY <1>6, <2>1, Zenon
    <3>2. q[i + 1] = x /\ i + 1 \in 1 .. n /\ i + 1 # 1
      BY <1>3, <3>1, Zenon
    <3>3. QED
      BY <1>1, <1>2, <1>5, <3>2, Zenon DEF NoRepeat, n
  <2>2. ASSUME NEW x, x \in Range(q), x # h PROVE x \in Range(r)
    <3>1. PICK i \in 1 .. n : q[i] = x
      BY <1>5, <2>2, Zenon
    <3>2. i - 1 \in 1 .. Len(r) /\ (i - 1) + 1 = i
      BY <1>1, <1>2, <2>2, <3>1, Zenon
    <3>3. QED
      BY <1>3, <1>6, <3>1, <3>2, Zenon
  <2>3. QED
    BY <2>1, <2>2, Zenon
<1>8. h \in Range(q)
  BY <1>1, <1>2, <1>5, Zenon
<1>9. QED
  BY <1>1, <1>4, <1>7, <1>8, Zenon DEF r, h

-----------------------------------------------------------------------------
(* The types of all but the counters.                                      *)
Base ==
    /\ stage \in [Messages -> Stages]
    /\ by \in [Messages -> Messages \cup Communicators \cup {Nobody}]
    /\ registered \subseteq Communicators
    /\ isActive \in BOOLEAN /\ closes \in 0..MaxClose
    /\ closing \in {"open", "unregister", "contexts", "queue", "closed"}
    /\ contexts \in [Devices -> {"none", "live", "killed", "null"}]
    /\ orphans \subseteq Devices

(* The queue holds each waiting message once, and queueCacheSize_ is the   *)
(* size of what it holds.                                                  *)
QueueInv ==
    /\ msgQueue \in Seq(Messages) /\ NoRepeat(msgQueue)
    /\ \A m \in Messages : stage[m] = "queued" <=> m \in Range(msgQueue)
    /\ queueCacheSize = TotalSize(Size, Range(msgQueue))

LEMMA BaseStep == Base /\ QueueInv /\ [Next]_vars => Base'
<1> SUFFICES ASSUME Base, QueueInv, [Next]_vars PROVE Base'
  OBVIOUS
<1> USE DEF Base, Move, queueVars, closeVars, contextVars
<1>1. ASSUME NEW c \in Communicators, NEW m \in Messages, MessageReciveCallback(c, m) PROVE Base'
  BY <1>1, Zenon DEF MessageReciveCallback, Stages
<1>2. ASSUME NEW m \in Messages, Discard(m) PROVE Base'
  BY <1>2, Zenon DEF Discard, Stages
<1>3. ASSUME NEW m \in Messages, PutMsgIntoQueue(m) PROVE Base'
  BY <1>3, Zenon DEF PutMsgIntoQueue, Stages
<1>4. ASSUME NEW m \in Messages, MessageReciveCallbackInner(m) PROVE Base'
  BY <1>4, Zenon DEF MessageReciveCallbackInner, Stages
<1>5. ASSUME NEW m \in Messages, GetConextForMsg(m) PROVE Base'
  <2>1. Device[m] \in Devices
    BY Zenon DEF Devices
  <2>2. CASE contexts[Device[m]] = "killed" \/ (contexts[Device[m]] # "live" /\ Uninitialized)
    BY <1>5, <2>2, Zenon DEF GetConextForMsg, Stages
  <2>3. CASE ~(contexts[Device[m]] = "killed" \/ (contexts[Device[m]] # "live" /\ Uninitialized))
    BY <1>5, <2>1, <2>3, ZenonT(30) DEF GetConextForMsg, Stages
  <2>4. QED
    BY <2>2, <2>3, Zenon
<1>6. ASSUME NEW m \in Messages, IncExecTaskCount(m) PROVE Base'
  BY <1>6, Zenon DEF IncExecTaskCount, Stages
<1>7. ASSUME NEW m \in Messages, ScheduleTask(m) PROVE Base'
  BY <1>7, Zenon DEF ScheduleTask, Stages
<1>8. ASSUME NEW m \in Messages, ScheduleTaskFails(m) PROVE Base'
  BY <1>8, Zenon DEF ScheduleTaskFails, Stages
<1>9. ASSUME NEW m \in Messages, ScheduleDealMsgFails(m) PROVE Base'
  BY <1>9, Zenon DEF ScheduleDealMsgFails, Stages
<1>10. ASSUME NEW m \in Messages, RunTask(m) PROVE Base'
  BY <1>10, Zenon DEF RunTask, Stages
<1>11. ASSUME NEW m \in Messages, MessageReciveCallbackTask(m) PROVE Base'
  BY <1>11, Zenon DEF MessageReciveCallbackTask, AfterCallback, Stages
<1>12. ASSUME NEW m \in Messages, DealMsgUtilQueueEmpty(m) PROVE Base'
  <2>1. CASE msgQueue = <<>>
    BY <1>12, <2>1, Zenon DEF DealMsgUtilQueueEmpty, Stages
  <2>2. CASE msgQueue # <<>>
    <3>1. Head(msgQueue) \in Messages
      BY <2>2, TailQueue, Zenon DEF QueueInv
    <3>2. QED
      BY <1>12, <2>2, <3>1, ZenonT(30) DEF DealMsgUtilQueueEmpty, Stages
  <2>3. QED
    BY <2>1, <2>2, Zenon
<1>13. ASSUME NEW m \in Messages, ScheduleTaskOut(m) PROVE Base'
  BY <1>13, Zenon DEF ScheduleTaskOut, Stages
<1>14. ASSUME Close PROVE Base'
  <2>1. closes' \in 0 .. MaxClose
    BY <1>14, ConstantsAssumption DEF Close, ConstantsAssumption
  <2>2. QED
    BY <1>14, <2>1, Zenon DEF Close
<1>15. ASSUME NEW c \in Communicators, UnRegCommunicatorsCallback(c) PROVE Base'
  BY <1>15, Zenon DEF UnRegCommunicatorsCallback, UnRegisters
<1>16. ASSUME NEW d \in Devices, KillContext(d) PROVE Base'
  BY <1>16, Zenon DEF KillContext
<1>17. ASSUME NEW d \in Devices, ForgetContext(d) PROVE Base'
  BY <1>17, Zenon DEF ForgetContext
<1>18. ASSUME ClearContexts PROVE Base'
  BY <1>18, Zenon DEF ClearContexts
<1>19. ASSUME ClearQueue PROVE Base'
  BY <1>19, Zenon DEF ClearQueue, Stages
<1>20. ASSUME Initialize PROVE Base'
  BY <1>20, Zenon DEF Initialize
<1>21. CASE UNCHANGED vars
  BY <1>21, Zenon DEF vars
<1>22. QED
  BY <1>1, <1>2, <1>3, <1>4, <1>5, <1>6, <1>7, <1>8, <1>9, <1>10, <1>11,
     <1>12, <1>13, <1>14, <1>15, <1>16, <1>17, <1>18, <1>19, <1>20, <1>21, ZenonT(30)
  DEF Next, Receive, Task, Closing

(* A message that neither joins nor leaves the queue.                      *)
LEMMA QueueKept ==
    ASSUME QueueInv, UNCHANGED queueVars,
           \A x \in Messages : stage'[x] = "queued" <=> stage[x] = "queued"
    PROVE  QueueInv'
  BY Zenon DEF QueueInv, queueVars

LEMMA QueueStep == Base /\ QueueInv /\ [Next]_vars => QueueInv'
<1> SUFFICES ASSUME Base, QueueInv, [Next]_vars PROVE QueueInv'
  OBVIOUS
<1>0. stage \in [Messages -> Stages] /\ msgQueue \in Seq(Messages) /\ Range(msgQueue) \in SUBSET Messages
  BY InQueue, Zenon DEF Base, QueueInv
<1> USE <1>0 DEF Move
<1>1. ASSUME NEW c \in Communicators, NEW m \in Messages, MessageReciveCallback(c, m) PROVE QueueInv'
  BY <1>1, QueueKept, Zenon DEF MessageReciveCallback
<1>2. ASSUME NEW m \in Messages, Discard(m) PROVE QueueInv'
  BY <1>2, QueueKept, Zenon DEF Discard
<1>3. ASSUME NEW m \in Messages, PutMsgIntoQueue(m) PROVE QueueInv'
  <2>1. CASE IsRepeated(m)
    BY <1>3, <2>1, QueueKept, Zenon DEF PutMsgIntoQueue
  <2>2. CASE ~IsRepeated(m)
    <3>1. /\ stage[m] = "accepted" /\ stage' = [stage EXCEPT ![m] = "queued"]
          /\ msgQueue' = Append(msgQueue, m) /\ queueCacheSize' = queueCacheSize + ReceivedSize(m)
      BY <1>3, <2>2, Zenon DEF PutMsgIntoQueue
    <3>2. m \notin Range(msgQueue)
      BY <3>1, Zenon DEF QueueInv
    <3>3. /\ msgQueue' \in Seq(Messages) /\ NoRepeat(msgQueue')
          /\ Range(msgQueue') = Range(msgQueue) \cup {m}
      BY <3>1, <3>2, AppendQueue, Zenon DEF QueueInv
    <3>4. \A x \in Messages : stage'[x] = "queued" <=> x \in Range(msgQueue')
      BY <3>1, <3>3, Zenon DEF QueueInv
    <3>5. ReceivedSize(m) = Size[m]
      BY ConstantsAssumption, Zenon DEF ConstantsAssumption, ReceivedSize, GetMsgSize
    <3>6. queueCacheSize' = TotalSize(Size, Range(msgQueue'))
      BY <3>1, <3>2, <3>3, <3>5, SizeOfOneMore, Zenon DEF QueueInv
    <3>7. QED
      BY <3>3, <3>4, <3>6, Zenon DEF QueueInv
  <2>3. QED
    BY <2>1, <2>2, Zenon
<1>4. ASSUME NEW m \in Messages, MessageReciveCallbackInner(m) PROVE QueueInv'
  BY <1>4, QueueKept, Zenon DEF MessageReciveCallbackInner
<1>5. ASSUME NEW m \in Messages, GetConextForMsg(m) PROVE QueueInv'
  BY <1>5, QueueKept, Zenon DEF GetConextForMsg
<1>6. ASSUME NEW m \in Messages, IncExecTaskCount(m) PROVE QueueInv'
  BY <1>6, QueueKept, Zenon DEF IncExecTaskCount
<1>7. ASSUME NEW m \in Messages, ScheduleTask(m) PROVE QueueInv'
  BY <1>7, QueueKept, Zenon DEF ScheduleTask
<1>8. ASSUME NEW m \in Messages, ScheduleTaskFails(m) PROVE QueueInv'
  BY <1>8, QueueKept, Zenon DEF ScheduleTaskFails
<1>9. ASSUME NEW m \in Messages, ScheduleDealMsgFails(m) PROVE QueueInv'
  BY <1>9, QueueKept, Zenon DEF ScheduleDealMsgFails
<1>10. ASSUME NEW m \in Messages, RunTask(m) PROVE QueueInv'
  BY <1>10, QueueKept, Zenon DEF RunTask
<1>11. ASSUME NEW m \in Messages, MessageReciveCallbackTask(m) PROVE QueueInv'
  BY <1>11, QueueKept, Zenon DEF MessageReciveCallbackTask, AfterCallback
<1>12. ASSUME NEW m \in Messages, DealMsgUtilQueueEmpty(m) PROVE QueueInv'
  <2>1. CASE msgQueue = <<>>
    BY <1>12, <2>1, QueueKept, Zenon DEF DealMsgUtilQueueEmpty
  <2>2. CASE msgQueue # <<>>
    <3> DEFINE x == Head(msgQueue)
    <3>1. /\ stage[m] = "done" /\ stage' = [stage EXCEPT ![m] = "leaving", ![x] = "taken"]
          /\ msgQueue' = Tail(msgQueue) /\ queueCacheSize' = queueCacheSize - Size[x]
      BY <1>12, <2>2, Zenon DEF DealMsgUtilQueueEmpty, GetMsgSize
    <3>2. /\ x \in Range(msgQueue) /\ x \in Messages /\ msgQueue' \in Seq(Messages) /\ NoRepeat(msgQueue')
          /\ Range(msgQueue') = Range(msgQueue) \ {x}
      BY <2>2, <3>1, TailQueue, Zenon DEF QueueInv
    <3> HIDE DEF x
    <3>3. \A y \in Messages : stage'[y] = "queued" <=> y \in Range(msgQueue')
      BY <3>1, <3>2, Zenon DEF QueueInv
    <3>4. queueCacheSize' = TotalSize(Size, Range(msgQueue'))
      BY <3>1, <3>2, SizeOfOneLess, Zenon DEF QueueInv
    <3>5. QED
      BY <3>2, <3>3, <3>4, Zenon DEF QueueInv
  <2>3. QED
    BY <2>1, <2>2, Zenon
<1>13. ASSUME NEW m \in Messages, ScheduleTaskOut(m) PROVE QueueInv'
  BY <1>13, QueueKept, Zenon DEF ScheduleTaskOut
<1>14. ASSUME Close PROVE QueueInv'
  BY <1>14, QueueKept, Zenon DEF Close
<1>15. ASSUME NEW c \in Communicators, UnRegCommunicatorsCallback(c) PROVE QueueInv'
  BY <1>15, QueueKept, Zenon DEF UnRegCommunicatorsCallback
<1>16. ASSUME NEW d \in Devices, KillContext(d) PROVE QueueInv'
  BY <1>16, QueueKept, Zenon DEF KillContext
<1>17. ASSUME NEW d \in Devices, ForgetContext(d) PROVE QueueInv'
  BY <1>17, QueueKept, Zenon DEF ForgetContext
<1>18. ASSUME ClearContexts PROVE QueueInv'
  BY <1>18, QueueKept, Zenon DEF ClearContexts
<1>19. ASSUME ClearQueue PROVE QueueInv'
  <2>1. /\ \A x \in Messages : stage'[x] = IF x \in Range(msgQueue) THEN "gone" ELSE stage[x]
        /\ msgQueue' = <<>>
        /\ queueCacheSize' = queueCacheSize - TotalSize([x \in Messages |-> GetMsgSize(x)], Range(msgQueue))
    BY <1>19, Zenon DEF ClearQueue
  <2>2. [x \in Messages |-> GetMsgSize(x)] = Size
    BY ConstantsAssumption, Zenon DEF ConstantsAssumption, GetMsgSize
  <2>3. TotalSize(Size, Range(msgQueue)) \in Nat
    BY UnitsFinite, Zenon
  <2>4. queueCacheSize' = TotalSize(Size, Range(msgQueue)) - TotalSize(Size, Range(msgQueue))
    BY <2>1, <2>2, Zenon DEF QueueInv
  <2>5. queueCacheSize' = 0
    BY <2>3, <2>4
  <2>6. QED
    BY <2>1, <2>5, EmptyQueue, SizeOfNone, Zenon DEF QueueInv
<1>20. ASSUME Initialize PROVE QueueInv'
  BY <1>20, QueueKept, Zenon DEF Initialize
<1>21. CASE UNCHANGED vars
  BY <1>21, QueueKept, Zenon DEF vars
<1>22. QED
  BY <1>1, <1>2, <1>3, <1>4, <1>5, <1>6, <1>7, <1>8, <1>9, <1>10, <1>11,
     <1>12, <1>13, <1>14, <1>15, <1>16, <1>17, <1>18, <1>19, <1>20, <1>21, ZenonT(30)
  DEF Next, Receive, Task, Closing

-----------------------------------------------------------------------------
(* execTaskCount_ counts the tasks, and every thread that works for a      *)
(* message holds a reference to its context.                               *)
Holders == {m \in Messages : stage[m] = "context"} \cup Counted

CountInv == execTaskCount = Cardinality(Counted)

ContextInv == contextRefs \in Nat /\ contextRefs >= Cardinality(Holders)

LEMMA CountStep == Base /\ QueueInv /\ CountInv /\ [Next]_vars => CountInv'
<1> SUFFICES ASSUME Base, QueueInv, CountInv, [Next]_vars PROVE CountInv'
  OBVIOUS
<1>0. stage \in [Messages -> Stages] /\ Counted \in SUBSET Messages
  BY Zenon DEF Base, Counted
<1>a. IsFiniteSet(Counted) /\ execTaskCount \in Nat
  BY <1>0, SomeMessages, Zenon DEF CountInv
<1> USE <1>0 DEF Move
<1>1. ASSUME NEW c \in Communicators, NEW m \in Messages, MessageReciveCallback(c, m) PROVE CountInv'
  BY <1>1, Zenon DEF MessageReciveCallback, Counted, CountInv
<1>2. ASSUME NEW m \in Messages, Discard(m) PROVE CountInv'
  BY <1>2, Zenon DEF Discard, Counted, CountInv
<1>3. ASSUME NEW m \in Messages, PutMsgIntoQueue(m) PROVE CountInv'
  BY <1>3, Zenon DEF PutMsgIntoQueue, Counted, CountInv
<1>4. ASSUME NEW m \in Messages, MessageReciveCallbackInner(m) PROVE CountInv'
  BY <1>4, Zenon DEF MessageReciveCallbackInner, Counted, CountInv
<1>5. ASSUME NEW m \in Messages, GetConextForMsg(m) PROVE CountInv'
  <2>1. \E to \in {"gone", "context"} : stage' = [stage EXCEPT ![m] = to]
    BY <1>5, Zenon DEF GetConextForMsg
  <2>2. stage[m] = "taken" /\ UNCHANGED execTaskCount
    BY <1>5, Zenon DEF GetConextForMsg
  <2>3. QED
    BY <2>1, <2>2, Zenon DEF Counted, CountInv
<1>6. ASSUME NEW m \in Messages, IncExecTaskCount(m) PROVE CountInv'
  <2>1. execTaskCount' = execTaskCount + 1 /\ m \notin Counted /\ Counted' = Counted \cup {m}
    BY <1>6, Zenon DEF IncExecTaskCount, Incremented, Counted
  <2>2. QED
    BY <1>a, <2>1, GainOne, Zenon DEF CountInv
<1>7. ASSUME NEW m \in Messages, ScheduleTask(m) PROVE CountInv'
  BY <1>7, Zenon DEF ScheduleTask, Counted, CountInv
<1>8. ASSUME NEW m \in Messages, ScheduleTaskFails(m) PROVE CountInv'
  BY <1>8, Zenon DEF ScheduleTaskFails, Counted, CountInv
<1>9. ASSUME NEW m \in Messages, ScheduleDealMsgFails(m) PROVE CountInv'
  <2>1. execTaskCount' = execTaskCount - 1 /\ m \in Counted /\ Counted' = Counted \ {m}
    BY <1>9, Zenon DEF ScheduleDealMsgFails, DecAfterFailure, Counted
  <2>2. QED
    BY <1>a, <2>1, LoseOne, Zenon DEF CountInv
<1>10. ASSUME NEW m \in Messages, RunTask(m) PROVE CountInv'
  BY <1>10, Zenon DEF RunTask, Counted, CountInv
<1>11. ASSUME NEW m \in Messages, MessageReciveCallbackTask(m) PROVE CountInv'
  BY <1>11, Zenon DEF MessageReciveCallbackTask, AfterCallback, Counted, CountInv
<1>12. ASSUME NEW m \in Messages, DealMsgUtilQueueEmpty(m) PROVE CountInv'
  <2>1. CASE msgQueue = <<>>
    BY <1>12, <2>1, Zenon DEF DealMsgUtilQueueEmpty, Counted, CountInv
  <2>2. CASE msgQueue # <<>>
    <3>1. Head(msgQueue) \in Messages /\ stage[Head(msgQueue)] = "queued"
      BY <2>2, TailQueue, Zenon DEF QueueInv
    <3>2. QED
      BY <1>12, <2>2, <3>1, Zenon DEF DealMsgUtilQueueEmpty, Counted, CountInv
  <2>3. QED
    BY <2>1, <2>2, Zenon
<1>13. ASSUME NEW m \in Messages, ScheduleTaskOut(m) PROVE CountInv'
  <2>1. execTaskCount' = execTaskCount - 1 /\ m \in Counted /\ Counted' = Counted \ {m}
    BY <1>13, Zenon DEF ScheduleTaskOut, DecAfterFailure, Counted
  <2>2. QED
    BY <1>a, <2>1, LoseOne, Zenon DEF CountInv
<1>14. ASSUME Close PROVE CountInv'
  BY <1>14, Zenon DEF Close, Counted, CountInv
<1>15. ASSUME NEW c \in Communicators, UnRegCommunicatorsCallback(c) PROVE CountInv'
  BY <1>15, Zenon DEF UnRegCommunicatorsCallback, UnRegisters, Counted, CountInv
<1>16. ASSUME NEW d \in Devices, KillContext(d) PROVE CountInv'
  BY <1>16, Zenon DEF KillContext, Counted, CountInv
<1>17. ASSUME NEW d \in Devices, ForgetContext(d) PROVE CountInv'
  BY <1>17, Zenon DEF ForgetContext, Counted, CountInv
<1>18. ASSUME ClearContexts PROVE CountInv'
  BY <1>18, Zenon DEF ClearContexts, Counted, CountInv
<1>19. ASSUME ClearQueue PROVE CountInv'
  <2>1. \A x \in Range(msgQueue) : x \in Messages => stage[x] = "queued"
    BY Zenon DEF QueueInv
  <2>2. \A x \in Messages : stage'[x] = stage[x] \/ (stage[x] = "queued" /\ stage'[x] = "gone")
    BY <1>19, <2>1, Zenon DEF ClearQueue
  <2>3. QED
    BY <1>19, <2>2, Zenon DEF ClearQueue, Counted, CountInv
<1>20. ASSUME Initialize PROVE CountInv'
  BY <1>20, Zenon DEF Initialize, Counted, CountInv
<1>21. CASE UNCHANGED vars
  BY <1>21, Zenon DEF vars, Counted, CountInv
<1>22. QED
  BY <1>1, <1>2, <1>3, <1>4, <1>5, <1>6, <1>7, <1>8, <1>9, <1>10, <1>11,
     <1>12, <1>13, <1>14, <1>15, <1>16, <1>17, <1>18, <1>19, <1>20, <1>21, ZenonT(30)
  DEF Next, Receive, Task, Closing

LEMMA ContextStep == Base /\ QueueInv /\ ContextInv /\ [Next]_vars => ContextInv'
<1> SUFFICES ASSUME Base, QueueInv, ContextInv, [Next]_vars PROVE ContextInv'
  OBVIOUS
<1>0. stage \in [Messages -> Stages] /\ Holders \in SUBSET Messages
  BY Zenon DEF Base, Holders, Counted
<1>a. /\ IsFiniteSet(Holders) /\ Cardinality(Holders) \in Nat
      /\ contextRefs \in Nat /\ contextRefs >= Cardinality(Holders)
  BY <1>0, SomeMessages, Zenon DEF ContextInv
<1> USE <1>0 DEF Move
<1>1. ASSUME NEW c \in Communicators, NEW m \in Messages, MessageReciveCallback(c, m) PROVE ContextInv'
  BY <1>1, Zenon DEF MessageReciveCallback, Holders, Counted, ContextInv, contextVars
<1>2. ASSUME NEW m \in Messages, Discard(m) PROVE ContextInv'
  BY <1>2, Zenon DEF Discard, Holders, Counted, ContextInv, contextVars
<1>3. ASSUME NEW m \in Messages, PutMsgIntoQueue(m) PROVE ContextInv'
  BY <1>3, Zenon DEF PutMsgIntoQueue, Holders, Counted, ContextInv, contextVars
<1>4. ASSUME NEW m \in Messages, MessageReciveCallbackInner(m) PROVE ContextInv'
  BY <1>4, Zenon DEF MessageReciveCallbackInner, Holders, Counted, ContextInv, contextVars
<1>5. ASSUME NEW m \in Messages, GetConextForMsg(m) PROVE ContextInv'
  <2>1. CASE UNCHANGED contextRefs
    <3>1. stage' = [stage EXCEPT ![m] = "gone"] /\ stage[m] = "taken"
      <4>1. contextRefs' # contextRefs + 1
        BY <1>a, <2>1
      <4>2. QED
        BY <1>5, <4>1, Zenon DEF GetConextForMsg
    <3>2. Holders' = Holders
      BY <3>1, Zenon DEF Holders, Counted
    <3>3. QED
      BY <2>1, <3>2, Zenon DEF ContextInv
  <2>2. CASE contextRefs' = contextRefs + 1
    <3>1. stage' = [stage EXCEPT ![m] = "context"] /\ stage[m] = "taken"
      <4>1. contextRefs' # contextRefs
        BY <1>a, <2>2
      <4>2. QED
        BY <1>5, <4>1, Zenon DEF GetConextForMsg, contextVars
    <3>2. m \notin Holders /\ Holders' = Holders \cup {m}
      BY <3>1, Zenon DEF Holders, Counted
    <3>3. Cardinality(Holders') = Cardinality(Holders) + 1
      BY <1>a, <3>2, GainOne, Zenon
    <3>4. contextRefs' \in Nat /\ contextRefs' >= Cardinality(Holders) + 1
      BY <1>a, <2>2
    <3>5. QED
      BY <3>3, <3>4, Zenon DEF ContextInv
  <2>3. QED
    BY <1>5, <2>1, <2>2, Zenon DEF GetConextForMsg, contextVars
<1>6. ASSUME NEW m \in Messages, IncExecTaskCount(m) PROVE ContextInv'
  BY <1>6, Zenon DEF IncExecTaskCount, Holders, Counted, ContextInv, contextVars
<1>7. ASSUME NEW m \in Messages, ScheduleTask(m) PROVE ContextInv'
  BY <1>7, Zenon DEF ScheduleTask, Holders, Counted, ContextInv, contextVars
<1>8. ASSUME NEW m \in Messages, ScheduleTaskFails(m) PROVE ContextInv'
  BY <1>8, Zenon DEF ScheduleTaskFails, Holders, Counted, ContextInv, contextVars
<1>9. ASSUME NEW m \in Messages, ScheduleDealMsgFails(m) PROVE ContextInv'
  <2>1. m \in Holders /\ Holders' = Holders \ {m}
    BY <1>9, Zenon DEF ScheduleDealMsgFails, Holders, Counted
  <2>2. Cardinality(Holders') \in Nat /\ Cardinality(Holders') = Cardinality(Holders) - 1
    BY <1>a, <2>1, LoseOne, Zenon
  <2>3. contextRefs' = RefsAfterFailure(m)
    BY <1>9, Zenon DEF ScheduleDealMsgFails
  <2>4. contextRefs' \in Nat /\ contextRefs' >= Cardinality(Holders')
    <3>1. CASE by[m] \in Communicators
      <4>1. contextRefs' = contextRefs
        BY <1>a, <2>3, <3>1 DEF RefsAfterFailure
      <4>2. QED
        BY <1>a, <2>2, <4>1
    <3>2. CASE by[m] \notin Communicators
      <4>1. contextRefs' = contextRefs - 1
        BY <1>a, <2>3, <3>2 DEF RefsAfterFailure
      <4>2. QED
        BY <1>a, <2>2, <4>1
    <3>3. QED
      BY <3>1, <3>2, Zenon
  <2>5. QED
    BY <2>4, Zenon DEF ContextInv
<1>10. ASSUME NEW m \in Messages, RunTask(m) PROVE ContextInv'
  BY <1>10, Zenon DEF RunTask, Holders, Counted, ContextInv, contextVars
<1>11. ASSUME NEW m \in Messages, MessageReciveCallbackTask(m) PROVE ContextInv'
  BY <1>11, Zenon DEF MessageReciveCallbackTask, AfterCallback, Holders, Counted, ContextInv, contextVars
<1>12. ASSUME NEW m \in Messages, DealMsgUtilQueueEmpty(m) PROVE ContextInv'
  <2>1. CASE msgQueue = <<>>
    BY <1>12, <2>1, Zenon DEF DealMsgUtilQueueEmpty, Holders, Counted, ContextInv, contextVars
  <2>2. CASE msgQueue # <<>>
    <3>1. Head(msgQueue) \in Messages /\ stage[Head(msgQueue)] = "queued"
      BY <2>2, TailQueue, Zenon DEF QueueInv
    <3>2. QED
      BY <1>12, <2>2, <3>1, Zenon DEF DealMsgUtilQueueEmpty, Holders, Counted, ContextInv, contextVars
  <2>3. QED
    BY <2>1, <2>2, Zenon
<1>13. ASSUME NEW m \in Messages, ScheduleTaskOut(m) PROVE ContextInv'
  <2>1. m \in Holders /\ Holders' = Holders \ {m}
    BY <1>13, Zenon DEF ScheduleTaskOut, Holders, Counted
  <2>2. Cardinality(Holders') \in Nat /\ Cardinality(Holders') = Cardinality(Holders) - 1
    BY <1>a, <2>1, LoseOne, Zenon
  <2>3. contextRefs' = contextRefs - 1
    BY <1>13, Zenon DEF ScheduleTaskOut
  <2>4. contextRefs' \in Nat /\ contextRefs' >= Cardinality(Holders')
    BY <1>a, <2>2, <2>3
  <2>5. QED
    BY <2>4, Zenon DEF ContextInv
<1>14. ASSUME Close PROVE ContextInv'
  BY <1>14, Zenon DEF Close, Holders, Counted, ContextInv, contextVars
<1>15. ASSUME NEW c \in Communicators, UnRegCommunicatorsCallback(c) PROVE ContextInv'
  BY <1>15, Zenon DEF UnRegCommunicatorsCallback, UnRegisters, Holders, Counted, ContextInv, contextVars
<1>16. ASSUME NEW d \in Devices, KillContext(d) PROVE ContextInv'
  BY <1>16, Zenon DEF KillContext, Holders, Counted, ContextInv, contextVars
<1>17. ASSUME NEW d \in Devices, ForgetContext(d) PROVE ContextInv'
  BY <1>17, Zenon DEF ForgetContext, Holders, Counted, ContextInv, contextVars
<1>18. ASSUME ClearContexts PROVE ContextInv'
  BY <1>18, Zenon DEF ClearContexts, Holders, Counted, ContextInv, contextVars
<1>19. ASSUME ClearQueue PROVE ContextInv'
  <2>1. \A x \in Range(msgQueue) : x \in Messages => stage[x] = "queued"
    BY Zenon DEF QueueInv
  <2>2. \A x \in Messages : stage'[x] = stage[x] \/ (stage[x] = "queued" /\ stage'[x] = "gone")
    BY <1>19, <2>1, Zenon DEF ClearQueue
  <2>3. QED
    BY <1>19, <2>2, Zenon DEF ClearQueue, Holders, Counted, ContextInv, contextVars
<1>20. ASSUME Initialize PROVE ContextInv'
  BY <1>20, Zenon DEF Initialize, Holders, Counted, ContextInv, contextVars
<1>21. CASE UNCHANGED vars
  BY <1>21, Zenon DEF vars, Holders, Counted, ContextInv, contextVars
<1>22. QED
  BY <1>1, <1>2, <1>3, <1>4, <1>5, <1>6, <1>7, <1>8, <1>9, <1>10, <1>11,
     <1>12, <1>13, <1>14, <1>15, <1>16, <1>17, <1>18, <1>19, <1>20, <1>21, ZenonT(30)
  DEF Next, Receive, Task, Closing

-----------------------------------------------------------------------------
(* Who works for a message: a communicator is in one call at a time, a     *)
(* task takes over at most one message and stays until its call returned.  *)
Known == \A x \in Messages : stage[x] # "net" => by[x] # Nobody

FromRemote == \A x \in Messages : stage[x] \in {"accepted", "queued"} => by[x] \in Communicators

Scheduled == \A x \in Messages : stage[x] \in {"failed", "pool"} => x \notin LocalDataChanged

OneCall ==
    \A x, y \in Messages :
        by[x] = by[y] /\ by[x] \in Communicators /\ InCall(x) /\ InCall(y) => x = y

TakenOver ==
    \A x \in Messages : by[x] \in Messages =>
        /\ stage[by[x]] \in {"leaving", "gone"}
        /\ stage[x] \in {"taken", "context"} => stage[by[x]] = "leaving"

TakesOne == \A x, y \in Messages : by[x] = by[y] /\ by[x] \in Messages => x = y

CallInv == Known /\ FromRemote /\ Scheduled /\ OneCall /\ TakenOver /\ TakesOne

LEMMA Apart == \A p \in Communicators : p \notin Messages /\ p # Nobody /\ Nobody \notin Messages
  BY ConstantsAssumption, Zenon DEF ConstantsAssumption

(* A message moves on within the thread that took it.                      *)
LEMMA MoveCall ==
    ASSUME Base, CallInv, NEW m \in Messages, NEW to, Move(m, to), UNCHANGED by,
           stage[m] \notin {"net", "leaving", "gone"},
           to \in {"accepted", "queued"} => stage[m] = "accepted",
           to \in {"failed", "pool"} => m \notin LocalDataChanged,
           InCall(m)' => InCall(m),
           to \in {"taken", "context"} => by[m] \in Communicators \/ stage[m] \in {"taken", "context"}
    PROVE  CallInv'
<1>1. stage'[m] = to /\ \A x \in Messages : x # m => stage'[x] = stage[x]
  BY Zenon DEF Base, Move
<1>2. by' = by
  OBVIOUS
<1>3. \A x \in Messages : InCall(x)' => InCall(x)
  BY <1>1, Zenon DEF InCall
<1>4. Known'
  BY <1>1, <1>2, Zenon DEF CallInv, Known
<1>5. FromRemote'
  BY <1>1, <1>2, Zenon DEF CallInv, FromRemote
<1>6. Scheduled'
  BY <1>1, Zenon DEF CallInv, Scheduled
<1>7. OneCall'
  BY <1>2, <1>3, Zenon DEF CallInv, OneCall
<1>8. TakenOver'
  <2> SUFFICES ASSUME NEW x \in Messages, by[x] \in Messages
               PROVE  /\ stage'[by[x]] \in {"leaving", "gone"}
                      /\ stage'[x] \in {"taken", "context"} => stage'[by[x]] = "leaving"
    BY <1>2, Zenon DEF TakenOver
  <2>1. /\ stage[by[x]] \in {"leaving", "gone"}
        /\ stage[x] \in {"taken", "context"} => stage[by[x]] = "leaving"
    BY Zenon DEF CallInv, TakenOver
  <2>2. by[x] # m /\ stage'[by[x]] = stage[by[x]]
    BY <1>1, <2>1, Zenon
  <2>3. stage'[x] \in {"taken", "context"} => stage[x] \in {"taken", "context"}
    BY <1>1, Apart, Zenon
  <2>4. QED
    BY <2>1, <2>2, <2>3, Zenon
<1>9. TakesOne'
  BY <1>2, Zenon DEF CallInv, TakesOne
<1>10. QED
  BY <1>4, <1>5, <1>6, <1>7, <1>8, <1>9, Zenon DEF CallInv

LEMMA CallKept ==
    ASSUME CallInv, UNCHANGED <<stage, by>>
    PROVE  CallInv'
  BY ZenonT(30) DEF CallInv, Known, FromRemote, Scheduled, OneCall, InCall, TakenOver, TakesOne

LEMMA CallStep == Base /\ QueueInv /\ CallInv /\ [Next]_vars => CallInv'
<1> SUFFICES ASSUME Base, QueueInv, CallInv, [Next]_vars PROVE CallInv'
  OBVIOUS
<1>0. /\ stage \in [Messages -> Stages]
      /\ by \in [Messages -> Messages \cup Communicators \cup {Nobody}]
  BY Zenon DEF Base
<1>1. ASSUME NEW c \in Communicators, NEW m \in Messages, MessageReciveCallback(c, m) PROVE CallInv'
  <2>1. /\ stage[m] = "net" /\ Returned(c)
        /\ stage'[m] \in {"accepted", "gone"} /\ by'[m] = c
        /\ \A x \in Messages : x # m => stage'[x] = stage[x] /\ by'[x] = by[x]
    BY <1>0, <1>1, Zenon DEF MessageReciveCallback, Move
  <2>2. \A x \in Messages : x # m => (InCall(x)' <=> InCall(x))
    BY <2>1, Zenon DEF InCall
  <2>3. Known' /\ FromRemote' /\ Scheduled'
    BY <2>1, Apart, Zenon DEF CallInv, Known, FromRemote, Scheduled
  <2>4. OneCall'
    <3>1. \A x \in Messages : by[x] = c => ~InCall(x)
      BY <2>1, Zenon DEF Returned
    <3>2. QED
      BY <2>1, <2>2, <3>1, Zenon DEF CallInv, OneCall
  <2>5. TakenOver' /\ TakesOne'
    <3>1. \A x \in Messages : by[x] # m
      BY <2>1, Zenon DEF CallInv, TakenOver
    <3>2. \A x \in Messages : by'[x] \in Messages => x # m
      BY <2>1, Apart, Zenon
    <3>3. TakenOver'
      BY <2>1, <3>1, <3>2, ZenonT(30) DEF CallInv, TakenOver
    <3>4. TakesOne'
      BY <2>1, <3>2, Zenon DEF CallInv, TakesOne
    <3>5. QED
      BY <3>3, <3>4, Zenon
  <2>6. QED
    BY <2>3, <2>4, <2>5, Zenon DEF CallInv
<1>2. ASSUME NEW m \in Messages, Discard(m) PROVE CallInv'
  <2>1. stage[m] = "accepted" /\ UNCHANGED by /\ \E to : Move(m, to) /\ to = "gone"
    BY <1>2, Zenon DEF Discard
  <2>2. InCall(m)' => InCall(m)
    BY <1>0, <2>1, Zenon DEF Move, InCall
  <2>3. QED
    BY <2>1, <2>2, MoveCall, Zenon
<1>3. ASSUME NEW m \in Messages, PutMsgIntoQueue(m) PROVE CallInv'
  <2>1. stage[m] = "accepted" /\ UNCHANGED by /\ \E to : Move(m, to) /\ to \in {"gone", "queued"}
    BY <1>3, Zenon DEF PutMsgIntoQueue
  <2>2. InCall(m)' => InCall(m)
    BY <1>0, <2>1, Zenon DEF Move, InCall
  <2>3. QED
    BY <2>1, <2>2, MoveCall, Zenon
<1>4. ASSUME NEW m \in Messages, MessageReciveCallbackInner(m) PROVE CallInv'
  <2>1. stage[m] = "accepted" /\ UNCHANGED by /\ \E to : Move(m, to) /\ to = "taken"
    BY <1>4, Zenon DEF MessageReciveCallbackInner
  <2>2. InCall(m)' => InCall(m)
    BY <1>0, <2>1, Zenon DEF Move, InCall
  <2>3. by[m] \in Communicators
    BY <2>1, Zenon DEF CallInv, FromRemote
  <2>4. QED
    BY <2>1, <2>2, <2>3, MoveCall, Zenon
<1>5. ASSUME NEW m \in Messages, GetConextForMsg(m) PROVE CallInv'
  <2>1. stage[m] = "taken" /\ UNCHANGED by /\ \E to : Move(m, to) /\ to \in {"gone", "context"}
    BY <1>5, Zenon DEF GetConextForMsg
  <2>2. InCall(m)' => InCall(m)
    BY <1>0, <2>1, Zenon DEF Move, InCall
  <2>3. QED
    BY <2>1, <2>2, MoveCall, Zenon
<1>6. ASSUME NEW m \in Messages, IncExecTaskCount(m) PROVE CallInv'
  <2>1. stage[m] = "context" /\ UNCHANGED by /\ \E to : Move(m, to) /\ to = "counted"
    BY <1>6, Zenon DEF IncExecTaskCount
  <2>2. InCall(m)' => InCall(m)
    BY <1>0, <2>1, Zenon DEF Move, InCall
  <2>3. QED
    BY <2>1, <2>2, MoveCall, Zenon
<1>7. ASSUME NEW m \in Messages, ScheduleTask(m) PROVE CallInv'
  <2>1. stage[m] = "counted" /\ UNCHANGED by /\ \E to : Move(m, to) /\ to = IF m \in LocalDataChanged THEN "running" ELSE "pool"
    BY <1>7, Zenon DEF ScheduleTask
  <2>2. InCall(m)' => InCall(m)
    BY <1>0, <2>1, Zenon DEF Move, InCall
  <2>3. QED
    BY <2>1, <2>2, MoveCall, Zenon
<1>8. ASSUME NEW m \in Messages, ScheduleTaskFails(m) PROVE CallInv'
  <2>1. stage[m] = "counted" /\ UNCHANGED by /\ \E to : Move(m, to) /\ to = "failed" /\ m \notin LocalDataChanged
    BY <1>8, Zenon DEF ScheduleTaskFails
  <2>2. InCall(m)' => InCall(m)
    BY <1>0, <2>1, Zenon DEF Move, InCall
  <2>3. QED
    BY <2>1, <2>2, MoveCall, Zenon
<1>9. ASSUME NEW m \in Messages, ScheduleDealMsgFails(m) PROVE CallInv'
  <2>1. stage[m] = "failed" /\ UNCHANGED by /\ \E to : Move(m, to) /\ to = "gone"
    BY <1>9, Zenon DEF ScheduleDealMsgFails
  <2>2. InCall(m)' => InCall(m)
    BY <1>0, <2>1, Zenon DEF Move, InCall
  <2>3. QED
    BY <2>1, <2>2, MoveCall, Zenon
<1>10. ASSUME NEW m \in Messages, RunTask(m) PROVE CallInv'
  <2>1. stage[m] = "pool" /\ UNCHANGED by /\ \E to : Move(m, to) /\ to = "running"
    BY <1>10, Zenon DEF RunTask
  <2>2. InCall(m)' => InCall(m)
    BY <1>0, <2>1, Zenon DEF Move, InCall, CallInv, Scheduled
  <2>3. QED
    BY <2>1, <2>2, MoveCall, Zenon
<1>11. ASSUME NEW m \in Messages, MessageReciveCallbackTask(m) PROVE CallInv'
  <2>1. stage[m] = "running" /\ UNCHANGED by /\ \E to : Move(m, to) /\ to = "done"
    BY <1>11, Zenon DEF MessageReciveCallbackTask, AfterCallback
  <2>2. InCall(m)' => InCall(m)
    BY <1>0, <2>1, Zenon DEF Move, InCall
  <2>3. QED
    BY <2>1, <2>2, MoveCall, Zenon
<1>12. ASSUME NEW m \in Messages, DealMsgUtilQueueEmpty(m) PROVE CallInv'
  <2>1. CASE msgQueue = <<>>
    <3>1. stage[m] = "done" /\ Move(m, "leaving") /\ UNCHANGED by
      BY <1>12, <2>1, Zenon DEF DealMsgUtilQueueEmpty
    <3>2. InCall(m)' => InCall(m)
      BY <1>0, <3>1, Zenon DEF Move, InCall
    <3>3. QED
      BY <3>1, <3>2, MoveCall, Zenon
  <2>2. CASE msgQueue # <<>>
    <3> DEFINE h == Head(msgQueue)
    <3>1. h \in Messages /\ stage[h] = "queued"
      BY <2>2, TailQueue, Zenon DEF QueueInv
    <3>2. stage[m] = "done" /\ stage' = [stage EXCEPT ![m] = "leaving", ![h] = "taken"] /\ by' = [by EXCEPT ![h] = m]
      BY <1>12, <2>2, Zenon DEF DealMsgUtilQueueEmpty
    <3> HIDE DEF h
    <3>3. /\ stage'[m] = "leaving" /\ stage'[h] = "taken" /\ by'[h] = m /\ m # h
          /\ \A x \in Messages : x # h => by'[x] = by[x] /\ (x # m => stage'[x] = stage[x])
      BY <1>0, <3>1, <3>2, Zenon
    <3>4. \A x \in Messages : x # h => (InCall(x)' => InCall(x))
      BY <3>2, <3>3, Zenon DEF InCall
    <3>5. \A x \in Messages : by[x] # m
      BY <3>2, Zenon DEF CallInv, TakenOver
    <3>6. Known' /\ FromRemote' /\ Scheduled'
      <4>1. m # Nobody
        BY ConstantsAssumption, Zenon DEF ConstantsAssumption
      <4>2. QED
        BY <3>2, <3>3, <4>1, Zenon DEF CallInv, Known, FromRemote, Scheduled
    <3>7. OneCall'
      BY <3>3, <3>4, Apart, Zenon DEF CallInv, OneCall
    <3>8. TakenOver'
      <4> SUFFICES ASSUME NEW x \in Messages, by'[x] \in Messages
                   PROVE  /\ stage'[by'[x]] \in {"leaving", "gone"}
                          /\ stage'[x] \in {"taken", "context"} => stage'[by'[x]] = "leaving"
        BY Zenon DEF TakenOver
      <4>1. CASE x = h
        BY <3>3, <4>1, Zenon
      <4>2. CASE x # h
        <5>1. by'[x] = by[x] /\ by[x] # m
          BY <3>3, <3>5, <4>2, Zenon
        <5>2. /\ stage[by[x]] \in {"leaving", "gone"}
              /\ stage[x] \in {"taken", "context"} => stage[by[x]] = "leaving"
          BY <5>1, Zenon DEF CallInv, TakenOver
        <5>3. stage'[by[x]] = stage[by[x]]
          BY <3>1, <3>3, <5>1, <5>2, Zenon
        <5>4. stage'[x] = stage[x] \/ stage'[x] = "leaving"
          BY <3>3, <4>2, Zenon
        <5>5. QED
          BY <5>1, <5>2, <5>3, <5>4, Zenon
      <4>3. QED
        BY <4>1, <4>2, Zenon
    <3>9. TakesOne'
      BY <3>3, <3>5, ZenonT(30) DEF CallInv, TakesOne
    <3>10. QED
      BY <3>6, <3>7, <3>8, <3>9, Zenon DEF CallInv
  <2>3. QED
    BY <2>1, <2>2, Zenon
<1>13. ASSUME NEW m \in Messages, ScheduleTaskOut(m) PROVE CallInv'
  <2>1. /\ stage[m] = "leaving" /\ stage'[m] = "gone" /\ Returned(m) /\ by' = by
        /\ \A x \in Messages : x # m => stage'[x] = stage[x]
    BY <1>0, <1>13, Zenon DEF ScheduleTaskOut, Move
  <2>2. \A x \in Messages : InCall(x)' => InCall(x)
    BY <2>1, Zenon DEF InCall
  <2>3. Known' /\ FromRemote' /\ Scheduled'
    BY <2>1, Zenon DEF CallInv, Known, FromRemote, Scheduled
  <2>4. OneCall' /\ TakesOne'
    BY <2>1, <2>2, Zenon DEF CallInv, OneCall, TakesOne
  <2>5. TakenOver'
    <3>1. \A x \in Messages : by[x] = m => stage[x] \notin {"taken", "context"}
      BY <2>1, Zenon DEF Returned, InCall
    <3>2. QED
      BY <2>1, <3>1, Zenon DEF CallInv, TakenOver
  <2>6. QED
    BY <2>3, <2>4, <2>5, Zenon DEF CallInv
<1>14. ASSUME Close PROVE CallInv'
  BY <1>14, CallKept, Zenon DEF Close
<1>15. ASSUME NEW c \in Communicators, UnRegCommunicatorsCallback(c) PROVE CallInv'
  BY <1>15, CallKept, Zenon DEF UnRegCommunicatorsCallback
<1>16. ASSUME NEW d \in Devices, KillContext(d) PROVE CallInv'
  BY <1>16, CallKept, Zenon DEF KillContext
<1>17. ASSUME NEW d \in Devices, ForgetContext(d) PROVE CallInv'
  BY <1>17, CallKept, Zenon DEF ForgetContext
<1>18. ASSUME ClearContexts PROVE CallInv'
  BY <1>18, CallKept, Zenon DEF ClearContexts
<1>19. ASSUME ClearQueue PROVE CallInv'
  <2>1. \A x \in Messages : stage'[x] = stage[x] \/ (stage[x] = "queued" /\ stage'[x] = "gone")
    <3>1. \A x \in Range(msgQueue) : x \in Messages => stage[x] = "queued"
      BY Zenon DEF QueueInv
    <3>2. QED
      BY <1>19, <3>1, Zenon DEF ClearQueue
  <2>2. by' = by
    BY <1>19, Zenon DEF ClearQueue
  <2>3. \A x \in Messages : InCall(x)' => InCall(x)
    BY <2>1, Zenon DEF InCall
  <2>4. Known' /\ FromRemote' /\ Scheduled'
    BY <2>1, <2>2, Zenon DEF CallInv, Known, FromRemote, Scheduled
  <2>5. OneCall' /\ TakesOne'
    BY <2>2, <2>3, Zenon DEF CallInv, OneCall, TakesOne
  <2>6. TakenOver'
    BY <2>1, <2>2, Zenon DEF CallInv, TakenOver
  <2>7. QED
    BY <2>4, <2>5, <2>6, Zenon DEF CallInv
<1>20. ASSUME Initialize PROVE CallInv'
  BY <1>20, CallKept, Zenon DEF Initialize
<1>21. CASE UNCHANGED vars
  BY <1>21, CallKept, Zenon DEF vars
<1>22. QED
  BY <1>1, <1>2, <1>3, <1>4, <1>5, <1>6, <1>7, <1>8, <1>9, <1>10, <1>11,
     <1>12, <1>13, <1>14, <1>15, <1>16, <1>17, <1>18, <1>19, <1>20, <1>21, ZenonT(30)
  DEF Next, Receive, Task, Closing

-----------------------------------------------------------------------------
(* UnRegCommunicatorsCallback has let every callback return before the     *)
(* queue is cleared, and PutMsgIntoQueue refuses repetitions.              *)
CloseInv ==
    /\ closing \in {"contexts", "queue", "closed"} => registered = {}
    /\ \A x \in Messages : stage[x] = "accepted" => by[x] \in registered
    /\ NothingQueuedAfterClose

(* Nothing becomes accepted, nothing is queued and no callback unregisters.*)
LEMMA CloseKept ==
    ASSUME CloseInv, UNCHANGED <<by, registered, closing>>,
           \A x \in Messages : stage'[x] = "accepted" => stage[x] = "accepted",
           Range(msgQueue') \subseteq Range(msgQueue), msgQueue = <<>> => msgQueue' = <<>>
    PROVE  CloseInv'
  BY ZenonT(30) DEF CloseInv, NothingQueuedAfterClose

LEMMA CloseStep == Base /\ QueueInv /\ CloseInv /\ [Next]_vars => CloseInv'
<1> SUFFICES ASSUME Base, QueueInv, CloseInv, [Next]_vars PROVE CloseInv'
  OBVIOUS
<1>0. /\ stage \in [Messages -> Stages] /\ msgQueue \in Seq(Messages) /\ registered \subseteq Communicators
      /\ by \in [Messages -> Messages \cup Communicators \cup {Nobody}]
  BY Zenon DEF Base, QueueInv
<1>1. ASSUME NEW c \in Communicators, NEW m \in Messages, MessageReciveCallback(c, m) PROVE CloseInv'
  <2>1. /\ c \in registered /\ UNCHANGED <<msgQueue, registered, closing>> /\ by'[m] = c
        /\ \A x \in Messages : x # m => stage'[x] = stage[x] /\ by'[x] = by[x]
    BY <1>0, <1>1, Zenon DEF MessageReciveCallback, Move, queueVars, closeVars
  <2>2. QED
    BY <2>1, Zenon DEF CloseInv, NothingQueuedAfterClose
<1>2. ASSUME NEW m \in Messages, Discard(m) PROVE CloseInv'
  BY <1>0, <1>2, CloseKept, Zenon DEF Discard, Move, queueVars, closeVars
<1>3. ASSUME NEW m \in Messages, PutMsgIntoQueue(m) PROVE CloseInv'
  <2>1. CASE IsRepeated(m)
    BY <1>0, <1>3, <2>1, CloseKept, Zenon DEF PutMsgIntoQueue, Move, queueVars, closeVars
  <2>2. CASE ~IsRepeated(m)
    <3>1. /\ stage[m] = "accepted" /\ stage' = [stage EXCEPT ![m] = "queued"]
          /\ msgQueue' = Append(msgQueue, m) /\ UNCHANGED <<by, registered, closing>>
      BY <1>3, <2>2, Zenon DEF PutMsgIntoQueue, Move, closeVars
    <3>2. m \notin Range(msgQueue) /\ NoRepeat(msgQueue)
      BY <3>1, Zenon DEF QueueInv
    <3>3. Range(msgQueue') = Range(msgQueue) \cup {m}
      BY <1>0, <3>1, <3>2, AppendQueue, Zenon
    <3>4. registered # {}
      BY <3>1, Zenon DEF CloseInv
    <3>5. closing' \notin {"contexts", "queue", "closed"}
      BY <3>1, <3>4, Zenon DEF CloseInv
    <3>6. \A x \in Messages : stage'[x] = "accepted" => stage[x] = "accepted"
      BY <1>0, <3>1, Zenon
    <3>7. \A x, y \in Range(msgQueue') \cap LocalDataChanged : Device[x] = Device[y] => x = y
      BY <2>2, <3>3, Zenon DEF IsRepeated, CloseInv, NothingQueuedAfterClose
    <3>8. QED
      BY <3>1, <3>5, <3>6, <3>7, Zenon DEF CloseInv, NothingQueuedAfterClose
  <2>3. QED
    BY <2>1, <2>2, Zenon
<1>4. ASSUME NEW m \in Messages, MessageReciveCallbackInner(m) PROVE CloseInv'
  BY <1>0, <1>4, CloseKept, Zenon DEF MessageReciveCallbackInner, Move, queueVars, closeVars
<1>5. ASSUME NEW m \in Messages, GetConextForMsg(m) PROVE CloseInv'
  BY <1>0, <1>5, CloseKept, Zenon DEF GetConextForMsg, Move, queueVars, closeVars
<1>6. ASSUME NEW m \in Messages, IncExecTaskCount(m) PROVE CloseInv'
  BY <1>0, <1>6, CloseKept, Zenon DEF IncExecTaskCount, Move, queueVars, closeVars
<1>7. ASSUME NEW m \in Messages, ScheduleTask(m) PROVE CloseInv'
  BY <1>0, <1>7, CloseKept, Zenon DEF ScheduleTask, Move, queueVars, closeVars
<1>8. ASSUME NEW m \in Messages, ScheduleTaskFails(m) PROVE CloseInv'
  BY <1>0, <1>8, CloseKept, Zenon DEF ScheduleTaskFails, Move, queueVars, closeVars
<1>9. ASSUME NEW m \in Messages, ScheduleDealMsgFails(m) PROVE CloseInv'
  BY <1>0, <1>9, CloseKept, Zenon DEF ScheduleDealMsgFails, Move, queueVars, closeVars
<1>10. ASSUME NEW m \in Messages, RunTask(m) PROVE CloseInv'
  BY <1>0, <1>10, CloseKept, Zenon DEF RunTask, Move, queueVars, closeVars
<1>11. ASSUME NEW m \in Messages, MessageReciveCallbackTask(m) PROVE CloseInv'
  BY <1>0, <1>11, CloseKept, Zenon DEF MessageReciveCallbackTask, AfterCallback, Move, queueVars, closeVars
<1>12. ASSUME NEW m \in Messages, DealMsgUtilQueueEmpty(m) PROVE CloseInv'
  <2>1. CASE msgQueue = <<>>
    BY <1>0, <1>12, <2>1, CloseKept, Zenon DEF DealMsgUtilQueueEmpty, Move, queueVars, closeVars
  <2>2. CASE msgQueue # <<>>
    <3> DEFINE h == Head(msgQueue)
    <3>1. h \in Range(msgQueue) /\ h \in Messages /\ Range(Tail(msgQueue)) = Range(msgQueue) \ {h}
      BY <2>2, TailQueue, Zenon DEF QueueInv
    <3>2. /\ msgQueue' = Tail(msgQueue) /\ UNCHANGED <<registered, closing>>
          /\ stage' = [stage EXCEPT ![m] = "leaving", ![h] = "taken"] /\ by' = [by EXCEPT ![h] = m]
      BY <1>12, <2>2, Zenon DEF DealMsgUtilQueueEmpty, closeVars
    <3> HIDE DEF h
    <3>3. \A x \in Messages : stage'[x] = "accepted" => stage[x] = "accepted" /\ by'[x] = by[x]
      BY <1>0, <3>1, <3>2, Zenon
    <3>4. closing' # "closed"
      BY <2>2, <3>2, Zenon DEF CloseInv, NothingQueuedAfterClose
    <3>5. \A x, y \in Range(msgQueue') \cap LocalDataChanged : Device[x] = Device[y] => x = y
      BY <3>1, <3>2, Zenon DEF CloseInv, NothingQueuedAfterClose
    <3>6. \A x \in Messages : stage'[x] = "accepted" => by'[x] \in registered'
      <4>1. registered' = registered /\ \A x \in Messages : stage[x] = "accepted" => by[x] \in registered
        BY <3>2, Zenon DEF CloseInv
      <4>2. QED
        BY <3>3, <4>1, Zenon
    <3>7. closing' \in {"contexts", "queue", "closed"} => registered' = {}
      BY <3>2, Zenon DEF CloseInv
    <3>8. QED
      BY <3>4, <3>5, <3>6, <3>7, Zenon DEF CloseInv, NothingQueuedAfterClose
  <2>3. QED
    BY <2>1, <2>2, Zenon
<1>13. ASSUME NEW m \in Messages, ScheduleTaskOut(m) PROVE CloseInv'
  BY <1>0, <1>13, CloseKept, Zenon DEF ScheduleTaskOut, Move, queueVars, closeVars
<1>14. ASSUME Close PROVE CloseInv'
  BY <1>14, Zenon DEF Close, CloseInv, NothingQueuedAfterClose, queueVars
<1>15. ASSUME NEW c \in Communicators, UnRegCommunicatorsCallback(c) PROVE CloseInv'
  <2>1. /\ registered' = registered \ {c} /\ Returned(c) /\ UNCHANGED <<stage, by, msgQueue>>
        /\ closing = "unregister" /\ closing' = IF registered' = {} THEN "contexts" ELSE closing
    BY <1>15, Zenon DEF UnRegCommunicatorsCallback, UnRegisters, queueVars
  <2>2. \A x \in Messages : stage[x] = "accepted" => by[x] # c
    BY <2>1, Zenon DEF Returned, InCall
  <2>3. closing' \in {"contexts", "queue", "closed"} => registered' = {}
    BY <2>1, Zenon
  <2>4. closing' # "closed"
    BY <2>1, Zenon
  <2>5. \A x, y \in Range(msgQueue') \cap LocalDataChanged : Device[x] = Device[y] => x = y
    BY <2>1, Zenon DEF CloseInv, NothingQueuedAfterClose
  <2>6. \A x \in Messages : stage'[x] = "accepted" => by'[x] \in registered'
    BY <2>1, <2>2, Zenon DEF CloseInv
  <2>7. QED
    BY <2>3, <2>4, <2>5, <2>6, Zenon DEF CloseInv, NothingQueuedAfterClose
<1>16. ASSUME NEW d \in Devices, KillContext(d) PROVE CloseInv'
  BY <1>0, <1>16, CloseKept, Zenon DEF KillContext, Move, queueVars, closeVars
<1>17. ASSUME NEW d \in Devices, ForgetContext(d) PROVE CloseInv'
  BY <1>0, <1>17, CloseKept, Zenon DEF ForgetContext, Move, queueVars, closeVars
<1>18. ASSUME ClearContexts PROVE CloseInv'
  BY <1>18, Zenon DEF ClearContexts, CloseInv, NothingQueuedAfterClose, queueVars
<1>19. ASSUME ClearQueue PROVE CloseInv'
  <2>1. \A x \in Messages : stage'[x] = "accepted" => stage[x] = "accepted"
    BY <1>19, Zenon DEF ClearQueue
  <2>2. closing = "queue" /\ msgQueue' = <<>> /\ Range(msgQueue') = {} /\ UNCHANGED <<by, registered>>
    BY <1>19, EmptyQueue, Zenon DEF ClearQueue
  <2>3. QED
    BY <2>1, <2>2, Zenon DEF CloseInv, NothingQueuedAfterClose
<1>20. ASSUME Initialize PROVE CloseInv'
  BY <1>20, Zenon DEF Initialize, CloseInv, NothingQueuedAfterClose, queueVars
<1>21. CASE UNCHANGED vars
  BY <1>21, CloseKept, Zenon DEF vars, queueVars, closeVars
<1>22. QED
  BY <1>1, <1>2, <1>3, <1>4, <1>5, <1>6, <1>7, <1>8, <1>9, <1>10, <1>11,
     <1>12, <1>13, <1>14, <1>15, <1>16, <1>17, <1>18, <1>19, <1>20, <1>21, ZenonT(30)
  DEF Next, Receive, Task, Closing

-----------------------------------------------------------------------------
(* A message that is to run passes the check of MAX_EXEC_NUM.  Of those    *)
(* that work, each is counted, or was taken by a task that is counted and  *)
(* waits for it, or is in the call of a communicator of its own.           *)
LEMMA RoomForOne ==
    ASSUME Base, CountInv, CallInv, NEW m \in Messages, stage[m] = "accepted", MayRun
    PROVE  Cardinality(Working \cup {m}) <= MaxExecNum - 1 + Cardinality(Communicators)
<1> DEFINE Early == {x \in Messages : stage[x] \in {"taken", "context"} /\ by[x] \in Communicators}
           Rest  == Working \ Early
           counts == [x \in Rest |-> IF x \in Counted THEN x ELSE by[x]]
           calls  == [x \in Early \cup {m} |-> by[x]]
<1>0. by \in [Messages -> Messages \cup Communicators \cup {Nobody}]
  BY Zenon DEF Base
<1>1. Rest \in SUBSET Messages /\ Early \in SUBSET Messages /\ Counted \in SUBSET Messages
  BY Zenon DEF Working, Counted
<1>2. \A x \in Rest : x \notin Counted => by[x] \in Messages /\ stage[by[x]] = "leaving"
  <2> SUFFICES ASSUME NEW x \in Rest, x \notin Counted PROVE by[x] \in Messages /\ stage[by[x]] = "leaving"
    BY Zenon
  <2>1. x \in Messages /\ stage[x] \in {"taken", "context"} /\ by[x] \notin Communicators
    BY Zenon DEF Working, Counted
  <2>2. by[x] # Nobody
    BY <2>1, Zenon DEF CallInv, Known
  <2>3. by[x] \in Messages
    BY <1>0, <2>1, <2>2, Zenon
  <2>4. QED
    BY <2>1, <2>3, Zenon DEF CallInv, TakenOver
<1>3. \A x \in Rest : stage[x] # "leaving"
  BY Zenon DEF Working
<1>4. \A p \in Messages : stage[p] = "leaving" => p \in Counted
  BY Zenon DEF Counted
<1>5. counts \in Injection(Rest, Counted)
  <2>1. \A x \in Rest : counts[x] = IF x \in Counted THEN x ELSE by[x]
    BY Zenon
  <2>2. counts \in [Rest -> Counted]
    BY <1>2, <1>4, Zenon
  <2>3. ASSUME NEW x \in Rest, NEW y \in Rest, counts[x] = counts[y] PROVE x = y
    <3> HIDE DEF Rest, counts
    <3>1. CASE x \in Counted /\ y \in Counted
      BY <2>1, <2>3, <3>1, Zenon
    <3>2. CASE x \notin Counted /\ y \notin Counted
      BY <1>1, <1>2, <2>1, <2>3, <3>2, Zenon DEF CallInv, TakesOne
    <3>3. CASE x \in Counted /\ y \notin Counted
      BY <1>2, <1>3, <2>1, <2>3, <3>3, Zenon
    <3>4. CASE x \notin Counted /\ y \in Counted
      BY <1>2, <1>3, <2>1, <2>3, <3>4, ZenonT(30)
    <3>5. QED
      BY <3>1, <3>2, <3>3, <3>4, Zenon
  <2>4. QED
    BY <2>2, <2>3, Zenon DEF Injection, IsInjective
<1>6. calls \in Injection(Early \cup {m}, Communicators)
  <2>1. \A x \in Early \cup {m} : x \in Messages /\ by[x] \in Communicators /\ InCall(x)
    BY Zenon DEF CallInv, FromRemote, InCall
  <2>2. calls \in [Early \cup {m} -> Communicators] /\ \A x \in Early \cup {m} : calls[x] = by[x]
    BY <2>1, Zenon
  <2> HIDE DEF Early, calls
  <2>3. \A x, y \in Early \cup {m} : calls[x] = calls[y] => x = y
    BY <2>1, <2>2, Zenon DEF CallInv, OneCall
  <2>4. QED
    BY <2>2, <2>3, Zenon DEF Injection, IsInjective
<1>7. Working \cup {m} = Rest \cup (Early \cup {m})
  BY Zenon DEF Working
<1> HIDE DEF Early, Rest, counts, calls
<1>8. IsFiniteSet(Counted) /\ IsFiniteSet(Communicators) /\ Cardinality(Communicators) \in Nat
  BY <1>1, SomeMessages, ConstantsAssumption, FS_CardinalityType, Zenon DEF ConstantsAssumption
<1>9. IsFiniteSet(Rest) /\ Cardinality(Rest) \in Nat /\ Cardinality(Rest) <= Cardinality(Counted)
  BY <1>5, <1>8, FS_Injection, FS_CardinalityType, Zenon
<1>10. /\ IsFiniteSet(Early \cup {m}) /\ Cardinality(Early \cup {m}) \in Nat
       /\ Cardinality(Early \cup {m}) <= Cardinality(Communicators)
  BY <1>6, <1>8, FS_Injection, FS_CardinalityType, Zenon
<1> DEFINE Both == Rest \cap (Early \cup {m})
<1>11. IsFiniteSet(Both) /\ Cardinality(Both) \in Nat
  BY <1>9, FS_Intersection, FS_CardinalityType, Zenon
<1>12. Cardinality(Working \cup {m}) = Cardinality(Rest) + Cardinality(Early \cup {m}) - Cardinality(Both)
  BY <1>7, <1>9, <1>10, FS_Union, Zenon
<1>13. Cardinality(Counted) \in Nat /\ Cardinality(Counted) < MaxExecNum /\ MaxExecNum \in Nat
  BY <1>8, ConstantsAssumption, FS_CardinalityType, Zenon DEF MayRun, CountInv, ConstantsAssumption
<1> HIDE DEF Both
<1>14. QED
  BY <1>8, <1>9, <1>10, <1>11, <1>12, <1>13

LEMMA NoMoreWork ==
    ASSUME ThreadsBounded, Working' \subseteq Working
    PROVE  ThreadsBounded'
<1>1. Working \in SUBSET Messages
  BY Zenon DEF Working
<1>2. IsFiniteSet(Working) /\ Cardinality(Working) \in Nat
  BY <1>1, SomeMessages, Zenon
<1>3. Cardinality(Working') <= Cardinality(Working) /\ IsFiniteSet(Working')
  BY <1>2, FS_Subset, Zenon
<1>4. Cardinality(Working') \in Nat
  BY <1>3, FS_CardinalityType, Zenon
<1>5. Cardinality(Communicators) \in Nat /\ MaxExecNum \in Nat
  BY ConstantsAssumption, FS_CardinalityType, Zenon DEF ConstantsAssumption
<1>6. Cardinality(Working) <= MaxExecNum - 1 + Cardinality(Communicators)
  BY Zenon DEF ThreadsBounded
<1>7. Cardinality(Working') <= MaxExecNum - 1 + Cardinality(Communicators)
  BY <1>2, <1>3, <1>4, <1>5, <1>6
<1>8. QED
  BY <1>7, Zenon DEF ThreadsBounded

LEMMA ThreadsStep ==
    Base /\ QueueInv /\ CountInv /\ CallInv /\ ThreadsBounded /\ [Next]_vars => ThreadsBounded'
<1> SUFFICES ASSUME Base, QueueInv, CountInv, CallInv, ThreadsBounded, [Next]_vars PROVE ThreadsBounded'
  OBVIOUS
<1>0. stage \in [Messages -> Stages]
  BY Zenon DEF Base
<1>1. ASSUME NEW c \in Communicators, NEW m \in Messages, MessageReciveCallback(c, m) PROVE ThreadsBounded'
  BY <1>0, <1>1, NoMoreWork, Zenon DEF MessageReciveCallback, Move, Working
<1>2. ASSUME NEW m \in Messages, Discard(m) PROVE ThreadsBounded'
  BY <1>0, <1>2, NoMoreWork, Zenon DEF Discard, Move, Working
<1>3. ASSUME NEW m \in Messages, PutMsgIntoQueue(m) PROVE ThreadsBounded'
  BY <1>0, <1>3, NoMoreWork, Zenon DEF PutMsgIntoQueue, Move, Working
<1>4. ASSUME NEW m \in Messages, MessageReciveCallbackInner(m) PROVE ThreadsBounded'
  <2>1. stage[m] = "accepted" /\ MayRun /\ Working' = Working \cup {m}
    BY <1>0, <1>4, Zenon DEF MessageReciveCallbackInner, Move, Working
  <2>2. QED
    BY <2>1, RoomForOne, Zenon DEF ThreadsBounded
<1>5. ASSUME NEW m \in Messages, GetConextForMsg(m) PROVE ThreadsBounded'
  <2>1. stage[m] = "taken" /\ \E to \in {"gone", "context"} : stage' = [stage EXCEPT ![m] = to]
    BY <1>5, Zenon DEF GetConextForMsg, Move
  <2>2. QED
    BY <1>0, <2>1, NoMoreWork, Zenon DEF Working
<1>6. ASSUME NEW m \in Messages, IncExecTaskCount(m) PROVE ThreadsBounded'
  BY <1>0, <1>6, NoMoreWork, Zenon DEF IncExecTaskCount, Move, Working
<1>7. ASSUME NEW m \in Messages, ScheduleTask(m) PROVE ThreadsBounded'
  BY <1>0, <1>7, NoMoreWork, Zenon DEF ScheduleTask, Move, Working
<1>8. ASSUME NEW m \in Messages, ScheduleTaskFails(m) PROVE ThreadsBounded'
  BY <1>0, <1>8, NoMoreWork, Zenon DEF ScheduleTaskFails, Move, Working
<1>9. ASSUME NEW m \in Messages, ScheduleDealMsgFails(m) PROVE ThreadsBounded'
  BY <1>0, <1>9, NoMoreWork, Zenon DEF ScheduleDealMsgFails, Move, Working
<1>10. ASSUME NEW m \in Messages, RunTask(m) PROVE ThreadsBounded'
  BY <1>0, <1>10, NoMoreWork, Zenon DEF RunTask, Move, Working
<1>11. ASSUME NEW m \in Messages, MessageReciveCallbackTask(m) PROVE ThreadsBounded'
  BY <1>0, <1>11, NoMoreWork, Zenon DEF MessageReciveCallbackTask, AfterCallback, Move, Working
<1>12. ASSUME NEW m \in Messages, DealMsgUtilQueueEmpty(m) PROVE ThreadsBounded'
  <2>1. CASE msgQueue = <<>>
    BY <1>0, <1>12, <2>1, NoMoreWork, Zenon DEF DealMsgUtilQueueEmpty, Move, Working
  <2>2. CASE msgQueue # <<>>
    <3> DEFINE h == Head(msgQueue)
    <3>1. h \in Messages /\ stage[h] = "queued"
      BY <2>2, TailQueue, Zenon DEF QueueInv
    <3>2. stage[m] = "done" /\ stage' = [stage EXCEPT ![m] = "leaving", ![h] = "taken"]
      BY <1>12, <2>2, Zenon DEF DealMsgUtilQueueEmpty
    <3> HIDE DEF h
    <3>3. m \in Working /\ h \notin Working \ {m} /\ Working' = (Working \ {m}) \cup {h} /\ Working \in SUBSET Messages
      BY <1>0, <3>1, <3>2, Zenon DEF Working
    <3>4. IsFiniteSet(Working) /\ Cardinality(Working) \in Nat
      BY <3>3, SomeMessages, Zenon
    <3>5. IsFiniteSet(Working \ {m}) /\ Cardinality(Working \ {m}) = Cardinality(Working) - 1
      BY <3>3, <3>4, LoseOne, Zenon
    <3>6. Cardinality(Working') = Cardinality(Working \ {m}) + 1
      BY <3>3, <3>5, GainOne, Zenon
    <3>7. Cardinality(Working') = Cardinality(Working)
      BY <3>4, <3>5, <3>6
    <3>8. QED
      BY <3>7, Zenon DEF ThreadsBounded
  <2>3. QED
    BY <2>1, <2>2, Zenon
<1>13. ASSUME NEW m \in Messages, ScheduleTaskOut(m) PROVE ThreadsBounded'
  BY <1>0, <1>13, NoMoreWork, Zenon DEF ScheduleTaskOut, Move, Working
<1>14. ASSUME Close PROVE ThreadsBounded'
  BY <1>14, NoMoreWork, Zenon DEF Close, Working
<1>15. ASSUME NEW c \in Communicators, UnRegCommunicatorsCallback(c) PROVE ThreadsBounded'
  BY <1>15, NoMoreWork, Zenon DEF UnRegCommunicatorsCallback, Working
<1>16. ASSUME NEW d \in Devices, KillContext(d) PROVE ThreadsBounded'
  BY <1>16, NoMoreWork, Zenon DEF KillContext, Working
<1>17. ASSUME NEW d \in Devices, ForgetContext(d) PROVE ThreadsBounded'
  BY <1>17, NoMoreWork, Zenon DEF ForgetContext, Working
<1>18. ASSUME ClearContexts PROVE ThreadsBounded'
  BY <1>18, NoMoreWork, Zenon DEF ClearContexts, Working
<1>19. ASSUME ClearQueue PROVE ThreadsBounded'
  <2>1. \A x \in Messages : stage'[x] = stage[x] \/ stage'[x] = "gone"
    BY <1>19, Zenon DEF ClearQueue
  <2>2. QED
    BY <2>1, NoMoreWork, Zenon DEF Working
<1>20. ASSUME Initialize PROVE ThreadsBounded'
  BY <1>20, NoMoreWork, Zenon DEF Initialize, Working
<1>21. CASE UNCHANGED vars
  BY <1>21, NoMoreWork, Zenon DEF vars, Working
<1>22. QED
  BY <1>1, <1>2, <1>3, <1>4, <1>5, <1>6, <1>7, <1>8, <1>9, <1>10, <1>11,
     <1>12, <1>13, <1>14, <1>15, <1>16, <1>17, <1>18, <1>19, <1>20, <1>21, ZenonT(30)
  DEF Next, Receive, Task, Closing

-----------------------------------------------------------------------------
(* What holds in every state of the engine.                                *)
EngineInv == Base /\ QueueInv /\ CountInv /\ ContextInv /\ CallInv /\ CloseInv /\ ThreadsBounded

LEMMA EngineInit == Init => EngineInv
<1> SUFFICES ASSUME Init PROVE EngineInv
  OBVIOUS
<1>1. Base
  <2>1. closes \in 0 .. MaxClose
    BY ConstantsAssumption DEF Init, ConstantsAssumption
  <2>2. QED
    BY <2>1, Zenon DEF Init, Base, Stages
<1>2. msgQueue \in Seq(Messages) /\ NoRepeat(msgQueue) /\ Range(msgQueue) = {}
  BY EmptyQueue, Zenon DEF Init
<1>3. QueueInv
  BY <1>2, SizeOfNone, Zenon DEF Init, QueueInv
<1>4. Counted = {} /\ Holders = {} /\ Working = {} /\ \A x \in Messages : ~InCall(x)
  BY Zenon DEF Init, Counted, Holders, Working, InCall
<1>5. CountInv /\ ContextInv
  <2>1. Cardinality({}) = 0
    BY FS_EmptySet, Zenon
  <2>2. contextRefs = 0 /\ execTaskCount = 0
    BY Zenon DEF Init
  <2>3. contextRefs \in Nat /\ contextRefs >= 0
    BY <2>2
  <2>4. QED
    BY <1>4, <2>1, <2>2, <2>3, Zenon DEF CountInv, ContextInv
<1>6. CallInv
  <2>1. Nobody \notin Messages /\ Nobody \notin Communicators
    BY ConstantsAssumption, Zenon DEF ConstantsAssumption
  <2>2. QED
    BY <1>4, <2>1, Zenon DEF Init, CallInv, Known, FromRemote, Scheduled, OneCall, TakenOver, TakesOne
<1>7. CloseInv
  BY <1>2, Zenon DEF Init, CloseInv, NothingQueuedAfterClose
<1>8. ThreadsBounded
  <2>1. Cardinality(Communicators) \in Nat /\ MaxExecNum \in Nat \ {0}
    BY ConstantsAssumption, FS_CardinalityType, Zenon DEF ConstantsAssumption
  <2>2. 0 <= MaxExecNum - 1 + Cardinality(Communicators)
    BY <2>1
  <2>3. QED
    BY <1>4, <2>2, FS_EmptySet, Zenon DEF ThreadsBounded
<1>9. QED
  BY <1>1, <1>3, <1>5, <1>6, <1>7, <1>8, Zenon DEF EngineInv

LEMMA EngineInvariant == Spec => []EngineInv
<1>1. EngineInv /\ [Next]_vars => EngineInv'
  BY BaseStep, QueueStep, CountStep, ContextStep, CallStep, CloseStep, ThreadsStep, Zenon DEF EngineInv
<1>2. QED
  BY <1>1, EngineInit, PTL DEF Spec

(* execTaskCount_ and queueCacheSize_ never drift from what they count,    *)
(* whatever is refused, fails or is closed.                                *)
THEOREM CountersTheorem == Spec => []CountersExact
<1>1. EngineInv => CountersExact
  <2> SUFFICES ASSUME EngineInv PROVE CountersExact
    OBVIOUS
  <2>1. Counted \in SUBSET Messages /\ Range(msgQueue) \in SUBSET Messages
    BY InQueue, Zenon DEF EngineInv, QueueInv, Counted
  <2>2. execTaskCount \in Nat /\ queueCacheSize \in Nat /\ contextRefs \in Nat
    BY <2>1, SomeMessages, UnitsFinite, Zenon DEF EngineInv, CountInv, QueueInv, ContextInv
  <2>3. TypeOK
    BY <2>2, Zenon DEF EngineInv, Base, QueueInv, TypeOK
  <2>4. QED
    BY <2>3, Zenon DEF EngineInv, QueueInv, CountInv, CountersExact, ExecCountExact, CacheSizeExact
<1>2. QED
  BY <1>1, EngineInvariant, PTL

(* At most MAX_EXEC_NUM - 1 + the number of communicators messages are     *)
(* worked on at a time, though the check and the count are two steps.      *)
THEOREM ThreadsTheorem == Spec => []ThreadsBounded
<1>1. EngineInv => ThreadsBounded
  BY Zenon DEF EngineInv
<1>2. QED
  BY <1>1, EngineInvariant, PTL

(* Close leaves an empty queue behind, and nothing enters it afterwards.   *)
THEOREM CloseTheorem == Spec => []NothingQueuedAfterClose
<1>1. EngineInv => NothingQueuedAfterClose
  BY Zenon DEF EngineInv, CloseInv
<1>2. QED
  BY <1>1, EngineInvariant, PTL

(* No path, failed scheduling included, gives back a context in use.       *)
THEOREM ContextTheorem == Spec => []ContextStaysValid
<1>1. EngineInv => ContextStaysValid
  BY Zenon DEF EngineInv, ContextInv, Holders, ContextStaysValid
<1>2. QED
  BY <1>1, EngineInvariant, PTL
=============================================================================
