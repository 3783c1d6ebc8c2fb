---------------------------- MODULE SyncerProofs ----------------------------
(***************************************************************************)
(* Proofs about Syncer, for any operations, devices and scenarios: an      *)
(* inductive invariant, the proof that every step keeps it, and what       *)
(* follows from it.                                                        *)
(***************************************************************************)
EXTENDS Syncer, TLAPS

-----------------------------------------------------------------------------
(* What the proof takes from the theory of finite sets.  It is a hypothesis *)
(* of the lemmas below and is proved from the library at the end: the      *)
(* steps do not need the rest of that theory.                              *)
Counting ==
    /\ Cardinality({}) = 0
    /\ \A S : IsFiniteSet(S) => Cardinality(S) \in Nat
    /\ \A S, T : IsFiniteSet(S) /\ T \subseteq S => IsFiniteSet(T) /\ Cardinality(T) <= Cardinality(S)
    /\ \A S, x : IsFiniteSet(S) /\ x \notin S =>
          IsFiniteSet(S \union {x}) /\ Cardinality(S \union {x}) = Cardinality(S) + 1

LEMMA GainOne ==
    ASSUME Counting, NEW S, IsFiniteSet(S), NEW x, x \notin S, NEW T, T = S \union {x}
    PROVE  IsFiniteSet(T) /\ Cardinality(S) \in Nat /\ Cardinality(T) = Cardinality(S) + 1
  BY Zenon DEF Counting

LEMMA LoseOne ==
    ASSUME Counting, NEW S, IsFiniteSet(S), NEW x, x \in S, NEW T, T = S \ {x}
    PROVE  IsFiniteSet(T) /\ Cardinality(T) \in Nat /\ Cardinality(S) = Cardinality(T) + 1
<1>1. IsFiniteSet(T) /\ S = T \union {x} /\ x \notin T
  BY Zenon DEF Counting
<1>2. QED
  BY <1>1, GainOne, Zenon

(* Queues in which no operation is twice.                                  *)
NoRepeat(q) == \A i, j \in 1 .. Len(q) : q[i] = q[j] => i = j

LEMMA EmptyQueue == <<>> \in Seq(Ops) /\ NoRepeat(<<>>) /\ Targets(<<>>) = {}
  BY DEF NoRepeat, Targets

LEMMA InQueue ==
    ASSUME NEW q \in Seq(Ops)
    PROVE  Targets(q) \in SUBSET Ops /\ \A m : m \in Targets(q) <=> \E i \in 1 .. Len(q) : q[i] = m
  BY DEF Targets

LEMMA AppendQueue ==
    ASSUME NEW q \in Seq(Ops), NoRepeat(q), NEW m \in Ops, m \notin Targets(q)
    PROVE  /\ Append(q, m) \in Seq(Ops) /\ NoRepeat(Append(q, m))
           /\ Targets(Append(q, m)) = Targets(q) \cup {m}
<1> DEFINE n == Len(q)
           r == Append(q, m)
<1>1. n \in Nat /\ r \in Seq(Ops) /\ Len(r) = n + 1 /\ r[n + 1] = m /\ \A i \in 1 .. n : r[i] = q[i]
  OBVIOUS
<1>2. \A i \in 1 .. n : q[i] # m
  BY InQueue, Zenon
<1> HIDE DEF n, r
<1>3. \A i \in 1 .. Len(r) : i \in 1 .. n \/ i = n + 1
  BY <1>1
<1>4. NoRepeat(r)
  <2> SUFFICES ASSUME NEW i \in 1 .. Len(r), NEW j \in 1 .. Len(r), r[i] = r[j] PROVE i = j
    BY Zenon DEF NoRepeat
  <2>1. CASE i \in 1 .. n /\ j \in 1 .. n
    BY <1>1, <2>1, Zenon DEF NoRepeat, n
  <2>2. QED
    BY <1>1, <1>2, <1>3, <2>1, Zenon
<1>5. n + 1 \in 1 .. Len(r) /\ \A i \in 1 .. n : i \in 1 .. Len(r)
  BY <1>1
<1>6. \A x : x \in Targets(r) <=> x \in Targets(q) \cup {m}
  <2>1. \A x : x \in Targets(q) <=> \E i \in 1 .. n : q[i] = x
    BY InQueue, Zenon DEF n
  <2>2. \A x : x \in Targets(r) <=> \E i \in 1 .. Len(r) : r[i] = x
    BY <1>1, InQueue, Zenon
  <2>3. QED
    BY <1>1, <1>3, <1>5, <2>1, <2>2, ZenonT(30)
<1>7. QED
  BY <1>1, <1>4, <1>6, Zenon DEF r

LEMMA TailQueue ==
    ASSUME NEW q \in Seq(Ops), NoRepeat(q), q # <<>>
    PROVE  /\ Head(q) \in Targets(q) /\ Head(q) \in Ops
           /\ Tail(q) \in Seq(Ops) /\ NoRepeat(Tail(q))
           /\ Targets(Tail(q)) = Targets(q) \ {Head(q)}
<1> DEFINE n == Len(q)
           r == Tail(q)
           h == Head(q)
<1>1. /\ n \in Nat \ {0} /\ h = q[1] /\ h \in Ops /\ r \in Seq(Ops) /\ Len(r) = n - 1
      /\ \A i \in 1 .. n - 1 : r[i] = q[i + 1]
  OBVIOUS
<1> HIDE DEF n, r, h
<1>2. 1 \in 1 .. n /\ Len(r) \in Nat /\ (\A i \in 1 .. n : i = 1 \/ (i - 1 \in 1 .. Len(r) /\ (i - 1) + 1 = i))
  <2>1. n \in Nat \ {0} /\ Len(r) = n - 1
    BY <1>1, Zenon
  <2>2. QED
    BY <2>1
<1>3. \A i \in 1 .. Len(r) : i + 1 \in 1 .. n /\ i + 1 # 1 /\ r[i] = q[i + 1]
  <2>1. n \in Nat \ {0} /\ Len(r) = n - 1 /\ \A i \in 1 .. Len(r) : r[i] = q[i + 1]
    BY <1>1, Zenon
  <2>2. \A i \in 1 .. Len(r) : i + 1 \in 1 .. n /\ i + 1 # 1
    BY <2>1
  <2>3. QED
    BY <2>1, <2>2, Zenon
<1>4. NoRepeat(r)
  <2> SUFFICES ASSUME NEW i \in 1 .. Len(r), NEW j \in 1 .. Len(r), r[i] = r[j] PROVE i = j
    BY Zenon DEF NoRepeat
  <2>1. i + 1 = j + 1
    BY <1>3, Zenon DEF NoRepeat, n
  <2>2. QED
    BY <1>2, <2>1
<1>5. \A x : x \in Targets(q) <=> \E i \in 1 .. n : q[i] = x
  BY InQueue, Zenon DEF n
<1>6. \A x : x \in Targets(r) <=> \E i \in 1 .. Len(r) : r[i] = x
  BY <1>1, InQueue, Zenon
<1>7. \A x : x \in Targets(r) <=> x \in Targets(q) \ {h}
  <2>1. ASSUME NEW x, x \in Targets(r) PROVE x \in Targets(q) /\ x # h
    <3>1. PICK i \in 1 .. Len(r) : r[i] = x
      BY <1>6, <2>1, Zenon
    <3>2. q[i + 1] = x /\ i + 1 \in 1 .. n /\ i + 1 # 1
      BY <1>3, <3>1, Zenon
    <3>3. QED
      BY <1>1, <1>2, <1>5, <3>2, Zenon DEF NoRepeat, n
  <2>2. ASSUME NEW x, x \in Targets(q), x # h PROVE x \in Targets(r)
    <3>1. PICK i \in 1 .. n : q[i] = x
      BY <1>5, <2>2, Zenon
    <3>2. i - 1 \in 1 .. Len(r) /\ (i - 1) + 1 = i
      BY <1>1, <1>2, <2>2, <3>1, Zenon
    <3>3. QED
      BY <1>3, <1>6, <3>1, <3>2, Zenon
  <2>3. QED
    BY <2>1, <2>2, Zenon
<1>8. h \in Targets(q)
  BY <1>1, <1>2, <1>5, Zenon
<1>9. QED
  BY <1>1, <1>4, <1>7, <1>8, Zenon DEF r, h

(* The queue without the target of one operation.                          *)
LEMMA RemoveFromQueue ==
    ASSUME NEW q \in Seq(Ops), NoRepeat(q), NEW o
    PROVE  /\ RemoveTarget(q, o) \in Seq(Ops) /\ NoRepeat(RemoveTarget(q, o))
           /\ Targets(RemoveTarget(q, o)) = Targets(q) \ {o}
<1>1. CASE o \notin Targets(q)
  BY <1>1, Zenon DEF RemoveTarget
<1>2. CASE o \in Targets(q)
  <2> DEFINE n == Len(q)
             k == CHOOSE i \in DOMAIN q : q[i] = o
             from(i) == IF i < k THEN i ELSE i + 1
             to(i)   == IF i < k THEN i ELSE i - 1
             r == [i \in 1 .. n - 1 |-> q[from(i)]]
  <2>1. n \in Nat /\ DOMAIN q = 1 .. n
    OBVIOUS
  <2>2. k \in 1 .. n /\ q[k] = o
    BY <1>2, <2>1, InQueue, Zenon
  <2>3. RemoveTarget(q, o) = r
    BY <1>2, Zenon DEF RemoveTarget
  <2> HIDE DEF k
  <2>4. k \in Nat /\ k \in 1 .. n
    BY <2>1, <2>2
  <2>5. \A i \in 1 .. n - 1 : from(i) \in 1 .. n /\ from(i) # k
    BY <2>1, <2>4
  <2>6. \A i, j \in 1 .. n - 1 : from(i) = from(j) => i = j
    BY <2>1, <2>4
  <2>7. \A i \in 1 .. n : i # k => to(i) \in 1 .. n - 1 /\ from(to(i)) = i
    BY <2>1, <2>4
  <2>8. n - 1 \in Nat
    BY <2>1, <2>4
  <2> HIDE DEF n, from, to
  <2>9. \A i \in 1 .. n - 1 : r[i] = q[from(i)] /\ q[from(i)] \in Ops
    <3>1. \A i \in 1 .. n : q[i] \in Ops
      BY DEF n
    <3>2. QED
      BY <2>5, <3>1, Zenon
  <2>10. r \in Seq(Ops) /\ Len(r) = n - 1
    <3>1. r \in [1 .. n - 1 -> Ops]
      BY <2>9, Zenon
    <3> HIDE DEF r
    <3>2. QED
      BY <2>8, <3>1
  <2> HIDE DEF r
  <2>11. NoRepeat(r)
    <3> SUFFICES ASSUME NEW i \in 1 .. n - 1, NEW j \in 1 .. n - 1, r[i] = r[j] PROVE i = j
      BY <2>10, Zenon DEF NoRepeat
    <3>1. from(i) = from(j)
      BY <2>5, <2>9, Zenon DEF NoRepeat, n
    <3>2. QED
      BY <2>6, <3>1, Zenon
  <2>12. \A x : x \in Targets(q) <=> \E i \in 1 .. n : q[i] = x
    BY InQueue, Zenon DEF n
  <2>13. \A x : x \in Targets(r) <=> \E i \in 1 .. n - 1 : r[i] = x
    BY <2>10, InQueue, Zenon
  <2>14. \A x : x \in Targets(r) <=> x \in Targets(q) \ {o}
    <3>1. ASSUME NEW x, x \in Targets(r) PROVE x \in Targets(q) /\ x # o
      <4>1. PICK i \in 1 .. n - 1 : r[i] = x
        BY <2>13, <3>1, Zenon
      <4>2. from(i) \in 1 .. n /\ from(i) # k /\ q[from(i)] = x
        BY <2>5, <2>9, <4>1, Zenon
      <4>3. QED
        BY <2>2, <2>12, <4>2, Zenon DEF NoRepeat, n
    <3>2. ASSUME NEW x, x \in Targets(q), x # o PROVE x \in Targets(r)
      <4>1. PICK i \in 1 .. n : q[i] = x
        BY <2>12, <3>2, Zenon
      <4>2. to(i) \in 1 .. n - 1 /\ from(to(i)) = i
        BY <2>2, <2>7, <3>2, <4>1, Zenon
      <4>3. QED
        BY <2>9, <2>13, <4>1, <4>2, Zenon
    <3>3. QED
      BY <3>1, <3>2, Zenon
  <2>15. QED
    BY <2>3, <2>10, <2>11, <2>14, Zenon
<1>3. QED
  BY <1>1, <1>2, Zenon

-----------------------------------------------------------------------------
(* The fields of an operation.                                             *)
OpRecord == [refs : Int, killed : BOOLEAN, finished : BOOLEAN,
             status : [Devices -> Finals \union {"WAITING"}],
             semaphore : Int, pending : Int, calls : Int]

(* WithStatus changes the status of devices that were waiting.             *)
StatusSet(r, q, ds) ==
    /\ q \in OpRecord
    /\ q.refs = r.refs /\ q.killed = r.killed /\ q.finished = r.finished
    /\ q.semaphore = r.semaphore /\ q.pending = r.pending /\ q.calls = r.calls
    /\ \A d \in Devices : r.status[d] # "WAITING" => q.status[d] = r.status[d]
    /\ r.killed \/ r.finished \/ (\A d \in ds : q.status[d] # "WAITING")

LEMMA StatusField ==
    ASSUME NEW r \in OpRecord, NEW ds \in SUBSET Devices, NEW s \in Finals
    PROVE  StatusSet(r, WithStatus(r, ds, s), ds)
<1> DEFINE q == WithStatus(r, ds, s)
<1>1. CASE r.killed \/ r.finished
  BY <1>1, Zenon DEF WithStatus, StatusSet
<1>2. CASE ~(r.killed \/ r.finished)
  <2> DEFINE st == [d \in Devices |-> IF d \in ds /\ r.status[d] = "WAITING" THEN s ELSE r.status[d]]
  <2>1. q = [r EXCEPT !.status = st]
    BY <1>2, Zenon DEF WithStatus
  <2>2. r.status \in [Devices -> Finals \union {"WAITING"}]
    BY Zenon DEF OpRecord
  <2>3. \A d \in Devices : st[d] = IF d \in ds /\ r.status[d] = "WAITING" THEN s ELSE r.status[d]
    BY Zenon
  <2>4. \A d \in Devices : st[d] \in Finals \union {"WAITING"}
    BY <2>2, <2>3
  <2>5. st \in [Devices -> Finals \union {"WAITING"}]
    BY <2>4, Zenon
  <2>6. \A d \in Devices : r.status[d] # "WAITING" => st[d] = r.status[d]
    BY <2>3
  <2>7. \A d \in ds : st[d] # "WAITING"
    <3>1. s # "WAITING"
      BY Zenon DEF Finals
    <3>2. QED
      BY <2>3, <3>1
  <2> HIDE DEF st, q
  <2>8. StatusSet(r, q, ds)
    BY <2>1, <2>5, <2>6, <2>7, Zenon DEF OpRecord, StatusSet
  <2>9. QED
    BY <2>8, Zenon DEF q
<1>3. QED
  BY <1>1, <1>2, Zenon

(* From here on leaves are for Zenon, unless they name another prover.     *)
USE Zenon

-----------------------------------------------------------------------------
(* What has its type in every state, and how far Close and StopSync are.   *)
Base ==
    /\ scenario \in Scenarios
    /\ pc \in [Ops -> {"idle", "checked", "refused", "counted", "adding", "inserting",
                       "added", "listed", "finishing", "waiting", "returned"}]
    /\ todo \in [Ops -> SUBSET Devices]
    /\ op \in [Ops -> OpRecord]
    /\ fin \in [Ops -> [by : Threads \union {Caller, Closer, Nobody},
                        at : {"no", "call", "remove", "removing"}]]
    /\ rem \in [Ops -> {"no", "release", "kill"}]
    /\ syncOperationMap \subseteq Ops /\ syncIdList \subseteq Ops /\ stopping \subseteq Ops
    /\ queuedManualSyncSize \in Int /\ manualSyncEnable \in BOOLEAN
    /\ initialized \in BOOLEAN /\ closing \in BOOLEAN /\ stopCalled \in BOOLEAN
    /\ closeStage \in {"open", "collect", "trigger", "clear", "engine", "closed"}
    /\ collected \subseteq Ops /\ triggering \in collected \union {None}
    /\ queue \in [Devices -> Seq(Ops)]
    /\ current \in [Devices -> Ops \union {None}]
    /\ popped \in [Devices -> SUBSET Ops]
    /\ busy \in [Threads -> Ops \union {None}]
    /\ killedContext \subseteq Devices
    /\ closeStage \in {"open", "collect"} => collected = {}
    /\ closeStage # "open" => ~initialized
    /\ stopping # {} => stopCalled

(* A device has one target of an operation in its queue, and its task is   *)
(* inside the operation that is current.                                   *)
DeviceInv == \A d \in Devices :
    /\ NoRepeat(queue[d])
    /\ busy[<<"task", d>>] \in {None, current[d]}

(* How far the call is, as far as the invariant tells.                     *)
Early(o)  == pc[o] \in {"adding", "inserting"}
Ending(o) == pc[o] \in {"added", "listed", "finishing"}

(* Before PrepareSync nothing knows of the operation.                      *)
Fresh(o) == ~Created(o) =>
    /\ op[o].refs = 0 /\ ~op[o].killed /\ ~op[o].finished
    /\ o \notin syncOperationMap /\ o \notin collected
    /\ \A d \in Devices : o \notin Targets(queue[d]) /\ current[d] # o /\ o \notin popped[d]
    /\ \A t \in Threads : busy[t] # o

(* It is in the map once, and RemoveSyncOperation runs for it once.        *)
Entered(o) ==
    /\ o \in syncOperationMap => rem[o] = "no"
    /\ ~Created(o) \/ Early(o) => o \notin syncOperationMap /\ rem[o] = "no" /\ ~op[o].killed

(* Its reference count is the number of its holders.                       *)
CreatorRef(o)  == Count(Created(o) /\ pc[o] # "returned")
MapRef(o)      == Count(o \in syncOperationMap \/ rem[o] # "no")
ContextRefs(o) == Cardinality({d \in Devices : current[d] = o})
CloseRef(o)    == Count(o \in collected)
RefsFor(o) ==
    op[o].refs = CreatorRef(o) + MapRef(o) + ContextRefs(o) + CloseRef(o) + op[o].pending

(* As long as it is not killed somebody is bound to kill it: its creator,  *)
(* or whoever takes it out of the map.                                     *)
Kept(o) == Created(o) /\ ~op[o].killed =>
    \/ Early(o)
    \/ o \in syncOperationMap \/ rem[o] # "no"
    \/ Ending(o) /\ CheckIsAllFinished(o)

(* It is finished when no device waits.                                    *)
Done(o) == op[o].finished => CheckIsAllFinished(o)

(* A killed operation is in no queue, and one that is being added is not   *)
(* in the queues it has still to enter.                                    *)
Clean(o) == \A d \in Devices : op[o].killed \/ d \in todo[o] => o \notin Targets(queue[d])

(* No target is lost.                                                      *)
Found(o) == \A d \in Devices :
    Created(o) /\ ~op[o].killed /\ d \in DevicesOf[o] /\ op[o].status[d] = "WAITING" =>
        \/ d \in todo[o] \/ o \in Targets(queue[d]) \/ current[d] = o
        \/ o \in popped[d] \/ d \in killedContext

(* One thread is past the gate of Finished, and stays with the operation.  *)
Gate(o) == fin[o].at # "no" =>
    /\ op[o].finished
    /\ \/ fin[o].by = Caller /\ pc[o] = "finishing"
       \/ fin[o].by = Closer /\ triggering = o
       \/ fin[o].by \in Threads /\ busy[fin[o].by] = o

(* The callback is called or queued once.                                  *)
Callbacks(o) ==
    /\ op[o].pending \in {0, 1} /\ op[o].calls \in {0, 1}
    /\ op[o].pending = 0 \/ op[o].calls = 0
    /\ ~op[o].finished \/ fin[o].at = "call" => op[o].pending = 0 /\ op[o].calls = 0
    /\ op[o].finished /\ fin[o].at # "call" /\ ~IsAutoSync(o) /\ "schedule" \notin Events =>
          op[o].pending = 1 \/ op[o].calls = 1

(* The semaphore is signalled once.                                        *)
Signals(o) ==
    /\ op[o].semaphore \in {0, 1}
    /\ ~Created(o) \/ Early(o) \/ o \in syncOperationMap \/ rem[o] = "release" =>
          op[o].semaphore = 0

(* Only StopSync and Close take away an operation that is not finished.    *)
Cut(o) ==
    /\ (op[o].killed \/ rem[o] # "no") /\ ~op[o].finished => stopCalled \/ ~initialized
    /\ pc[o] = "finishing" => op[o].finished \/ op[o].killed

OpInv(o) ==
    /\ Fresh(o) /\ Entered(o) /\ RefsFor(o) /\ Kept(o) /\ Done(o) /\ Clean(o) /\ Found(o)
    /\ Gate(o) /\ Callbacks(o) /\ Signals(o) /\ Cut(o)

(* The manual syncs DisableManualSync has to wait for, and all that were   *)
(* ever counted.                                                           *)
Waiting  == {o \in Ops : IsQueued(o) /\ (\/ pc[o] \in {"counted", "adding", "inserting"}
                                         \/ o \in syncOperationMap \/ rem[o] = "release")}
Admitted == {o \in Ops : pc[o] \notin {"idle", "checked", "refused"}}

SizeInv ==
    /\ Cardinality(Waiting) <= queuedManualSyncSize
    /\ queuedManualSyncSize <= Cardinality(Admitted)
    /\ ~manualSyncEnable => Waiting = {}

Inv == Base /\ DeviceInv /\ \A x \in Ops : OpInv(x)

-----------------------------------------------------------------------------
(* A step that does not concern an operation leaves its part of the        *)
(* invariant alone.                                                        *)
SameCall(x) == pc'[x] = pc[x] /\ todo'[x] = todo[x]
SameMap(x) ==
    /\ rem'[x] = rem[x]
    /\ x \in syncOperationMap' <=> x \in syncOperationMap
    /\ x \in collected' <=> x \in collected
SameTargets(x) == \A d \in Devices :
    /\ current'[d] = x <=> current[d] = x
    /\ x \in Targets(queue'[d]) <=> x \in Targets(queue[d])
    /\ x \in popped'[d] <=> x \in popped[d]
SameBusy(x) == \A t \in Threads : busy'[t] = x <=> busy[t] = x
SameFin(x) == fin'[x] = fin[x] /\ (triggering = x => triggering' = x) /\ SameBusy(x)

Same(x) ==
    op'[x] = op[x] /\ SameCall(x) /\ SameMap(x) /\ SameTargets(x) /\ SameFin(x)

Onward ==
    /\ scenario' = scenario /\ killedContext \subseteq killedContext'
    /\ (stopCalled => stopCalled') /\ (~initialized => ~initialized')

SamePhase(x) ==
    /\ Created(x)' <=> Created(x)
    /\ Early(x)' <=> Early(x)
    /\ Ending(x)' <=> Ending(x)
    /\ (pc[x] = "returned")' <=> pc[x] = "returned"
    /\ (pc[x] = "finishing")' <=> pc[x] = "finishing"

LEMMA PhaseKept ==
    ASSUME NEW x, SameCall(x)
    PROVE  SamePhase(x)
  BY DEF SameCall, SamePhase, Created, Early, Ending

(* The holders of an operation, one by one.                                *)
LEMMA CreatorNow == \A o :
    /\ CreatorRef(o) \in Int
    /\ Created(o) /\ pc[o] # "returned" => CreatorRef(o) = 1
    /\ ~Created(o) \/ pc[o] = "returned" => CreatorRef(o) = 0
  BY SMT DEF CreatorRef, Count

LEMMA MapNow == \A o :
    /\ MapRef(o) \in Int
    /\ o \in syncOperationMap \/ rem[o] # "no" => MapRef(o) = 1
    /\ o \notin syncOperationMap /\ rem[o] = "no" => MapRef(o) = 0
  BY SMT DEF MapRef, Count

LEMMA CloseNow == \A o :
    /\ CloseRef(o) \in Int
    /\ o \in collected => CloseRef(o) = 1
    /\ o \notin collected => CloseRef(o) = 0
  BY SMT DEF CloseRef, Count

LEMMA ContextsNow ==
    ASSUME Counting, NEW o
    PROVE  ContextRefs(o) \in Nat
<1>1. {d \in Devices : current[d] = o} \in SUBSET Devices
  OBVIOUS
<1>2. QED
  BY <1>1, SyncerAssumption DEF Counting, ContextRefs, SyncerAssumption

LEMMA CreatorNext == \A o :
    /\ CreatorRef(o)' \in Int
    /\ Created(o)' /\ pc'[o] # "returned" => CreatorRef(o)' = 1
    /\ ~Created(o)' \/ pc'[o] = "returned" => CreatorRef(o)' = 0
  BY SMT DEF CreatorRef, Count

LEMMA MapNext == \A o :
    /\ MapRef(o)' \in Int
    /\ o \in syncOperationMap' \/ rem'[o] # "no" => MapRef(o)' = 1
    /\ o \notin syncOperationMap' /\ rem'[o] = "no" => MapRef(o)' = 0
  BY SMT DEF MapRef, Count

LEMMA CloseNext == \A o :
    /\ CloseRef(o)' \in Int
    /\ o \in collected' => CloseRef(o)' = 1
    /\ o \notin collected' => CloseRef(o)' = 0
  BY SMT DEF CloseRef, Count

LEMMA CreatorKept == ASSUME NEW x, SamePhase(x) PROVE CreatorRef(x)' = CreatorRef(x)
  BY CreatorNow, CreatorNext DEF SamePhase

LEMMA MapKept == ASSUME NEW x, SameMap(x) PROVE MapRef(x)' = MapRef(x) /\ CloseRef(x)' = CloseRef(x)
<1>1. MapRef(x)' = MapRef(x)
  BY MapNow, MapNext DEF SameMap
<1>2. CloseRef(x)' = CloseRef(x)
  BY CloseNow, CloseNext DEF SameMap
<1>3. QED
  BY <1>1, <1>2

LEMMA ContextsKept ==
    ASSUME NEW x, \A d \in Devices : current'[d] = x <=> current[d] = x
    PROVE  ContextRefs(x)' = ContextRefs(x)
<1>1. {d \in Devices : current'[d] = x} = {d \in Devices : current[d] = x}
  OBVIOUS
<1>2. QED
  BY <1>1 DEF ContextRefs

LEMMA TargetDevices ==
    ASSUME Base, NEW o \in Ops
    PROVE  DevicesOf[o] \in SUBSET Devices
<1>1. scenario \in Scenarios
  BY DEF Base
<1>2. scenario.devices \in [Ops -> (SUBSET Devices) \ {{}}]
  BY <1>1, SyncerAssumption DEF SyncerAssumption
<1>3. QED
  BY <1>2 DEF DevicesOf

LEMMA Frame ==
    ASSUME NEW x \in Ops, OpInv(x), Same(x), Onward
    PROVE  OpInv(x)'
<1>0. /\ op'[x] = op[x] /\ SamePhase(x) /\ SameMap(x) /\ SameTargets(x) /\ SameFin(x) /\ todo'[x] = todo[x]
      /\ DevicesOf' = DevicesOf /\ killedContext \subseteq killedContext' /\ Events' = Events
      /\ IsAutoSync(x)' <=> IsAutoSync(x)
  BY PhaseKept DEF Same, SameCall, Onward, DevicesOf, Events, IsAutoSync, Kind
<1>1. Fresh(x)'
  BY <1>0 DEF OpInv, Fresh, SamePhase, SameMap, SameTargets, SameFin, SameBusy
<1>2. Entered(x)'
  BY <1>0 DEF OpInv, Entered, SamePhase, SameMap
<1>3. RefsFor(x)'
  <2>1. CreatorRef(x)' = CreatorRef(x) /\ MapRef(x)' = MapRef(x) /\ CloseRef(x)' = CloseRef(x)
    BY <1>0, CreatorKept, MapKept
  <2>2. ContextRefs(x)' = ContextRefs(x)
    BY <1>0, ContextsKept DEF SameTargets
  <2>3. QED
    BY <1>0, <2>1, <2>2 DEF OpInv, RefsFor
<1>4. CheckIsAllFinished(x)' <=> CheckIsAllFinished(x)
  BY <1>0 DEF CheckIsAllFinished
<1>5. Kept(x)'
  BY <1>0, <1>4 DEF OpInv, Kept, SamePhase, SameMap
<1>6. Done(x)' /\ Clean(x)'
  BY <1>0, <1>4 DEF OpInv, Done, Clean, SameTargets
<1>7. Found(x)'
  BY <1>0 DEF OpInv, Found, SamePhase, SameTargets
<1>8. Gate(x)'
  BY <1>0 DEF OpInv, Gate, SamePhase, SameFin, SameBusy
<1>9. Callbacks(x)'
  BY <1>0 DEF OpInv, Callbacks, SameFin
<1>10. Signals(x)'
  BY <1>0 DEF OpInv, Signals, SamePhase, SameMap
<1>11. Cut(x)'
  BY <1>0 DEF OpInv, Cut, SamePhase, SameMap, Onward
<1>12. QED
  BY <1>1, <1>2, <1>3, <1>5, <1>6, <1>7, <1>8, <1>9, <1>10, <1>11 DEF OpInv

LEMMA TargetsFrame ==
    ASSUME NEW o \in Ops, Clean(o), Found(o), SamePhase(o), todo'[o] = todo[o], SameTargets(o), Onward,
           op'[o].killed = op[o].killed, op'[o].status = op[o].status
    PROVE  Clean(o)' /\ Found(o)'
<1>1. Clean(o)'
  BY DEF Clean, SameTargets
<1>2. Found(o)'
  BY DEF Found, SameTargets, SamePhase, Onward, DevicesOf
<1>3. QED
  BY <1>1, <1>2

LEMMA OneOp ==
    ASSUME Inv, NEW o \in Ops, Base', DeviceInv', Onward, \A x \in Ops : x # o => Same(x), OpInv(o)'
    PROVE  Inv'
  BY Frame DEF Inv

-----------------------------------------------------------------------------
(* The thread that calls Sync.                                             *)

LEMMA SyncParamCheckStep ==
    ASSUME Counting, Inv, NEW o \in Ops, SyncParamCheck(o)
    PROVE  Inv'
<1>1. /\ Base /\ DeviceInv /\ Fresh(o) /\ Entered(o) /\ RefsFor(o) /\ Kept(o) /\ Done(o) /\ Clean(o)
      /\ Found(o) /\ Gate(o) /\ Callbacks(o) /\ Signals(o) /\ Cut(o)
  BY DEF Inv, OpInv
<1>2. op \in [Ops -> OpRecord] /\ op' \in [Ops -> OpRecord]
  BY <1>1 DEF Base, SyncParamCheck
<1>3. /\ op' = op /\ pc[o] = "idle" /\ pc'[o] \in {"checked", "refused"} /\ todo'[o] = todo[o]
      /\ SameMap(o) /\ SameTargets(o) /\ SameFin(o)
  BY <1>1, <1>2 DEF SyncParamCheck, Base, OpRecord, stopVars, sizeVars, syncerVars, contextVars,
     SameMap, SameTargets, SameFin, SameBusy
<1>4. /\ ~Created(o) /\ ~Early(o) /\ ~Ending(o) /\ pc[o] # "returned" /\ pc[o] # "finishing"
      /\ ~Created(o)' /\ ~Early(o)' /\ ~Ending(o)' /\ pc'[o] # "returned" /\ pc'[o] # "finishing"
  BY <1>3 DEF Created, Early, Ending
<1>5. Onward
  BY DEF SyncParamCheck, Onward, stopVars, sizeVars, syncerVars, contextVars
<1>6. \A x \in Ops : x # o => Same(x)
  BY <1>1, <1>2 DEF SyncParamCheck, Base, Same, SameCall, SameMap, SameTargets, SameFin, SameBusy,
     stopVars, sizeVars, syncerVars, contextVars
<1>7. Base'
  BY <1>1, <1>2, <1>3 DEF SyncParamCheck, Base, stopVars, sizeVars, syncerVars, contextVars
<1>8. DeviceInv'
  BY <1>1 DEF SyncParamCheck, DeviceInv, contextVars
<1>9. CheckIsAllFinished(o) => CheckIsAllFinished(o)'
  BY <1>2, <1>3, <1>5 DEF CheckIsAllFinished, Onward, DevicesOf
<1>10. Fresh(o)' /\ Entered(o)'
  BY <1>1, <1>2, <1>3, <1>4 DEF Fresh, SameMap, SameTargets, SameFin, SameBusy, Entered
<1>11. RefsFor(o)'
  <2>1. CreatorRef(o)' = CreatorRef(o)
    BY <1>4, CreatorNow, CreatorNext
  <2>2. MapRef(o)' = MapRef(o)
    BY <1>3, MapKept
  <2>3. CloseRef(o)' = CloseRef(o)
    BY <1>3, MapKept
  <2>4. ContextRefs(o)' = ContextRefs(o)
    BY <1>3, ContextsKept DEF SameTargets
  <2>5. QED
    BY <1>1, <1>2, <1>3, <2>1, <2>2, <2>3, <2>4 DEF RefsFor
<1>12. Kept(o)' /\ Done(o)'
  BY <1>1, <1>2, <1>3, <1>4, <1>9 DEF Kept, SameMap, Done
<1>13. Clean(o)'
  BY <1>1, <1>2, <1>3, <1>4 DEF Clean, SameTargets
<1>14. Found(o)'
  BY <1>1, <1>2, <1>3, <1>4, <1>5 DEF Found, Onward, DevicesOf, SameTargets
<1>15. Gate(o)'
  BY <1>1, <1>2, <1>3, <1>4 DEF Gate, SameFin, SameBusy
<1>16. Callbacks(o)'
  BY <1>1, <1>2, <1>3, <1>4, <1>5 DEF Callbacks, Onward, IsAutoSync, Kind, Events, SameFin
<1>17. Signals(o)' /\ Cut(o)'
  BY <1>1, <1>2, <1>3, <1>4, <1>5 DEF Signals, SameMap, Cut, Onward
<1>18. OpInv(o)'
  BY <1>10, <1>11, <1>12, <1>13, <1>14, <1>15, <1>16, <1>17, ZenonT(30) DEF OpInv
<1>19. QED
  BY <1>5, <1>6, <1>7, <1>8, <1>18, OneOp

LEMMA AddQueuedManualSyncSizeStep ==
    ASSUME Counting, Inv, NEW o \in Ops, AddQueuedManualSyncSize(o)
    PROVE  Inv'
<1>1. /\ Base /\ DeviceInv /\ Fresh(o) /\ Entered(o) /\ RefsFor(o) /\ Kept(o) /\ Done(o) /\ Clean(o)
      /\ Found(o) /\ Gate(o) /\ Callbacks(o) /\ Signals(o) /\ Cut(o)
  BY DEF Inv, OpInv
<1>2. op \in [Ops -> OpRecord] /\ op' \in [Ops -> OpRecord]
  BY <1>1 DEF Base, AddQueuedManualSyncSize
<1>3. /\ op' = op /\ pc[o] = "checked" /\ pc'[o] \in {"counted", "refused"} /\ todo'[o] = todo[o]
      /\ SameMap(o) /\ SameTargets(o) /\ SameFin(o)
  BY <1>1, <1>2 DEF AddQueuedManualSyncSize, Base, OpRecord, stopVars, sizeVars, syncerVars,
     contextVars, SameMap, SameTargets, SameFin, SameBusy
<1>4. /\ ~Created(o) /\ ~Early(o) /\ ~Ending(o) /\ pc[o] # "returned" /\ pc[o] # "finishing"
      /\ ~Created(o)' /\ ~Early(o)' /\ ~Ending(o)' /\ pc'[o] # "returned" /\ pc'[o] # "finishing"
  BY <1>3 DEF Created, Early, Ending
<1>5. Onward
  BY DEF AddQueuedManualSyncSize, Onward, stopVars, sizeVars, syncerVars, contextVars
<1>6. \A x \in Ops : x # o => Same(x)
  BY <1>1, <1>2 DEF AddQueuedManualSyncSize, Base, Same, SameCall, SameMap, SameTargets, SameFin,
     SameBusy, stopVars, sizeVars, syncerVars, contextVars
<1>7. Base'
  <2>1. queuedManualSyncSize' \in {queuedManualSyncSize, queuedManualSyncSize + 0, queuedManualSyncSize + 1}
    BY DEF AddQueuedManualSyncSize
  <2>2. queuedManualSyncSize \in Int
    BY <1>1 DEF Base
  <2>3. queuedManualSyncSize' \in Int
    BY <2>1, <2>2, SMT
  <2>4. pc' \in [Ops -> {"idle", "checked", "refused", "counted", "adding", "inserting",
                       "added", "listed", "finishing", "waiting", "returned"}]
    <3>1. pc' \in {[pc EXCEPT ![o] = "counted"], [pc EXCEPT ![o] = "refused"]}
      BY DEF AddQueuedManualSyncSize
    <3>2. pc \in [Ops -> {"idle", "checked", "refused", "counted", "adding", "inserting",
                          "added", "listed", "finishing", "waiting", "returned"}]
      BY <1>1 DEF Base
    <3>3. QED
      BY <3>1, <3>2
  <2>5. QED
    BY <1>1, <1>2, <1>3, <2>3, <2>4 DEF AddQueuedManualSyncSize, Base, stopVars, syncerVars,
       contextVars
<1>8. DeviceInv'
  BY <1>1 DEF AddQueuedManualSyncSize, DeviceInv, contextVars
<1>9. CheckIsAllFinished(o) => CheckIsAllFinished(o)'
  BY <1>2, <1>3, <1>5 DEF CheckIsAllFinished, Onward, DevicesOf
<1>10. Fresh(o)' /\ Entered(o)'
  BY <1>1, <1>2, <1>3, <1>4 DEF Fresh, SameMap, SameTargets, SameFin, SameBusy, Entered
<1>11. RefsFor(o)'
  <2>1. CreatorRef(o)' = CreatorRef(o)
    BY <1>4, CreatorNow, CreatorNext
  <2>2. MapRef(o)' = MapRef(o)
    BY <1>3, MapKept
  <2>3. CloseRef(o)' = CloseRef(o)
    BY <1>3, MapKept
  <2>4. ContextRefs(o)' = ContextRefs(o)
    BY <1>3, ContextsKept DEF SameTargets
  <2>5. QED
    BY <1>1, <1>2, <1>3, <2>1, <2>2, <2>3, <2>4 DEF RefsFor
<1>12. Kept(o)' /\ Done(o)'
  BY <1>1, <1>2, <1>3, <1>4, <1>9 DEF Kept, SameMap, Done
<1>13. Clean(o)'
  BY <1>1, <1>2, <1>3, <1>4 DEF Clean, SameTargets
<1>14. Found(o)'
  BY <1>1, <1>2, <1>3, <1>4, <1>5 DEF Found, Onward, DevicesOf, SameTargets
<1>15. Gate(o)'
  BY <1>1, <1>2, <1>3, <1>4 DEF Gate, SameFin, SameBusy
<1>16. Callbacks(o)'
  BY <1>1, <1>2, <1>3, <1>4, <1>5 DEF Callbacks, Onward, IsAutoSync, Kind, Events, SameFin
<1>17. Signals(o)' /\ Cut(o)'
  BY <1>1, <1>2, <1>3, <1>4, <1>5 DEF Signals, SameMap, Cut, Onward
<1>18. OpInv(o)'
  BY <1>10, <1>11, <1>12, <1>13, <1>14, <1>15, <1>16, <1>17, ZenonT(30) DEF OpInv
<1>19. QED
  BY <1>5, <1>6, <1>7, <1>8, <1>18, OneOp

LEMMA PrepareSyncStep ==
    ASSUME Counting, Inv, NEW o \in Ops, PrepareSync(o)
    PROVE  Inv'
<1>1. /\ Base /\ DeviceInv /\ Fresh(o) /\ Entered(o) /\ RefsFor(o) /\ Kept(o) /\ Done(o) /\ Clean(o)
      /\ Found(o) /\ Gate(o) /\ Callbacks(o) /\ Signals(o) /\ Cut(o)
  BY DEF Inv, OpInv
<1>2. /\ op \in [Ops -> OpRecord] /\ op' \in [Ops -> OpRecord] /\ (\A x \in Ops : x # o => op'[x] = op[x])
      /\ op'[o].refs = 1 /\ op'[o].killed = FALSE /\ op'[o].finished = FALSE
      /\ op'[o].semaphore = 0 /\ op'[o].pending = 0 /\ op'[o].calls = 0
  <2>1. op \in [Ops -> OpRecord] /\ op' = [op EXCEPT ![o] = [NoOperation EXCEPT !.refs = 1]]
    BY <1>1 DEF Base, PrepareSync
  <2>2. 0 \in Int /\ 1 \in Int
    BY SMT
  <2>3. NoOperation \in OpRecord
    BY <2>2 DEF NoOperation, OpRecord
  <2>4. [NoOperation EXCEPT !.refs = 1] \in OpRecord
    BY <2>2, <2>3 DEF OpRecord
  <2>5. QED
    BY <2>1, <2>4 DEF NoOperation
<1>3. /\ pc[o] = "counted" /\ pc'[o] = "adding" /\ todo'[o] = DevicesOf[o] /\ SameMap(o)
      /\ SameTargets(o) /\ SameFin(o)
  BY <1>1, <1>2 DEF PrepareSync, Base, OpRecord, stopVars, sizeVars, syncerVars, contextVars,
     SameMap, SameTargets, SameFin, SameBusy
<1>4. /\ ~Created(o) /\ ~Early(o) /\ ~Ending(o) /\ pc[o] # "returned" /\ pc[o] # "finishing"
      /\ Created(o)' /\ Early(o)' /\ ~Ending(o)' /\ pc'[o] # "returned" /\ pc'[o] # "finishing"
  BY <1>3 DEF Created, Early, Ending
<1>5. Onward
  BY DEF PrepareSync, Onward, stopVars, sizeVars, syncerVars, contextVars
<1>6. \A x \in Ops : x # o => Same(x)
  BY <1>1, <1>2, ZenonT(30) DEF PrepareSync, Base, Same, SameCall, SameMap, SameTargets, SameFin, SameBusy,
     stopVars, sizeVars, syncerVars, contextVars
<1>7. Base'
  <2>1. DevicesOf[o] \in SUBSET Devices
    BY <1>1, TargetDevices
  <2>2. QED
    BY <1>1, <1>2, <2>1 DEF PrepareSync, Base, stopVars, sizeVars, syncerVars, contextVars
<1>8. DeviceInv'
  BY <1>1 DEF PrepareSync, DeviceInv, contextVars
<1>10. Fresh(o)' /\ Entered(o)'
  BY <1>1, <1>2, <1>3, <1>4 DEF Fresh, SameMap, SameTargets, SameFin, SameBusy, Entered
<1>11. RefsFor(o)'
  <2>1. CreatorRef(o) = 0 /\ CreatorRef(o)' = 1
    BY <1>4, CreatorNow, CreatorNext
  <2>2. MapRef(o) = 0 /\ MapRef(o)' = 0
    BY <1>1, <1>3, <1>4, MapNow, MapNext DEF Entered, SameMap
  <2>3. CloseRef(o) = 0 /\ CloseRef(o)' = 0
    BY <1>1, <1>3, <1>4, CloseNow, CloseNext DEF Fresh, SameMap
  <2>4. ContextRefs(o)' = 0
    <3>1. {d \in Devices : current'[d] = o} = {}
      BY <1>1, <1>3, <1>4 DEF Fresh, SameTargets
    <3>2. QED
      BY <3>1 DEF Counting, ContextRefs
  <2>5. /\ op[o].refs \in Int /\ op[o].pending \in Int /\ CreatorRef(o) \in Int /\ MapRef(o) \in Int
        /\ ContextRefs(o) \in Nat /\ CloseRef(o) \in Int
    BY <1>2, CreatorNow, MapNow, ContextsNow, CloseNow DEF OpRecord
  <2>6. /\ op[o].refs = CreatorRef(o) + MapRef(o) + ContextRefs(o) + CloseRef(o) + op[o].pending
        /\ op'[o].refs = 1 /\ op'[o].pending = 0
    BY <1>1, <1>2, <1>3 DEF RefsFor
  <2>7. op'[o].refs = CreatorRef(o)' + MapRef(o)' + ContextRefs(o)' + CloseRef(o)' + op'[o].pending
    BY <2>1, <2>2, <2>3, <2>4, <2>5, <2>6, SMT
  <2>8. QED
    BY <2>7 DEF RefsFor
<1>12. Kept(o)' /\ Done(o)'
  BY <1>1, <1>2, <1>3, <1>4 DEF Kept, SameMap, Done
<1>13. Clean(o)'
  BY <1>1, <1>3, <1>4 DEF Fresh, Clean, SameTargets
<1>14. Found(o)'
  BY <1>1, <1>2, <1>3, <1>4, <1>5 DEF Found, Onward, DevicesOf, SameTargets
<1>15. Gate(o)'
  BY <1>1, <1>3, <1>4 DEF Fresh, Gate, SameFin
<1>16. Callbacks(o)'
  BY <1>1, <1>2, <1>3, <1>4, <1>5 DEF Callbacks, Onward, IsAutoSync, Kind, Events, SameFin
<1>17. Signals(o)'
  BY <1>1, <1>2, <1>3, <1>4 DEF Signals, SameMap
<1>18. Cut(o)'
  BY <1>1, <1>2, <1>3, <1>4 DEF Entered, Cut, SameMap
<1>19. OpInv(o)'
  BY <1>10, <1>11, <1>12, <1>13, <1>14, <1>15, <1>16, <1>17, <1>18, ZenonT(30) DEF OpInv
<1>20. QED
  BY <1>5, <1>6, <1>7, <1>8, <1>19, OneOp

LEMMA AllAddedStep ==
    ASSUME Counting, Inv, NEW o \in Ops, AllAdded(o)
    PROVE  Inv'
<1>1. /\ Base /\ DeviceInv /\ Fresh(o) /\ Entered(o) /\ RefsFor(o) /\ Kept(o) /\ Done(o) /\ Clean(o)
      /\ Found(o) /\ Gate(o) /\ Callbacks(o) /\ Signals(o) /\ Cut(o)
  BY DEF Inv, OpInv
<1>2. op \in [Ops -> OpRecord] /\ op' \in [Ops -> OpRecord]
  BY <1>1 DEF Base, AllAdded
<1>3. /\ op' = op /\ pc[o] = "adding" /\ pc'[o] \in {"added", "inserting"}
      /\ (pc'[o] = "added" => CheckIsAllFinished(o)) /\ todo'[o] = todo[o] /\ SameMap(o)
      /\ SameTargets(o) /\ SameFin(o)
  BY <1>1, <1>2 DEF AllAdded, Base, OpRecord, stopVars, sizeVars, syncerVars, contextVars,
     SameMap, SameTargets, SameFin, SameBusy
<1>4. /\ Created(o) /\ Early(o) /\ ~Ending(o) /\ pc[o] # "returned" /\ pc[o] # "finishing"
      /\ Created(o)' /\ pc'[o] # "returned" /\ pc'[o] # "finishing"
  BY <1>3 DEF Created, Early, Ending
<1>5. Onward
  BY DEF AllAdded, Onward, stopVars, sizeVars, syncerVars, contextVars
<1>6. \A x \in Ops : x # o => Same(x)
  BY <1>1, <1>2 DEF AllAdded, Base, Same, SameCall, SameMap, SameTargets, SameFin, SameBusy,
     stopVars, sizeVars, syncerVars, contextVars
<1>7. Base'
  BY <1>1, <1>2, <1>3, ZenonT(30) DEF AllAdded, Base, stopVars, sizeVars, syncerVars, contextVars
<1>8. DeviceInv'
  BY <1>1 DEF AllAdded, DeviceInv, contextVars
<1>9. CheckIsAllFinished(o) => CheckIsAllFinished(o)'
  BY <1>2, <1>3, <1>5 DEF CheckIsAllFinished, Onward, DevicesOf
<1>10. Fresh(o)' /\ Entered(o)'
  BY <1>1, <1>2, <1>3, <1>4 DEF Fresh, SameMap, SameTargets, SameFin, SameBusy, Entered
<1>11. RefsFor(o)'
  <2>1. CreatorRef(o)' = CreatorRef(o)
    BY <1>4, CreatorNow, CreatorNext
  <2>2. MapRef(o)' = MapRef(o)
    BY <1>3, MapKept
  <2>3. CloseRef(o)' = CloseRef(o)
    BY <1>3, MapKept
  <2>4. ContextRefs(o)' = ContextRefs(o)
    BY <1>3, ContextsKept DEF SameTargets
  <2>5. QED
    BY <1>1, <1>2, <1>3, <2>1, <2>2, <2>3, <2>4 DEF RefsFor
<1>12. Kept(o)'
  BY <1>3, <1>9 DEF Kept, Early, Ending
<1>13. Done(o)'
  BY <1>1, <1>2, <1>3, <1>4, <1>9 DEF Done
<1>14. Clean(o)'
  BY <1>1, <1>2, <1>3, <1>4 DEF Clean, SameTargets
<1>15. Found(o)'
  BY <1>1, <1>2, <1>3, <1>4, <1>5 DEF Found, Onward, DevicesOf, SameTargets
<1>16. Gate(o)'
  BY <1>1, <1>2, <1>3, <1>4 DEF Gate, SameFin, SameBusy
<1>17. Callbacks(o)'
  BY <1>1, <1>2, <1>3, <1>4, <1>5 DEF Callbacks, Onward, IsAutoSync, Kind, Events, SameFin
<1>18. Signals(o)' /\ Cut(o)'
  BY <1>1, <1>2, <1>3, <1>4, <1>5 DEF Signals, SameMap, Cut, Onward
<1>19. OpInv(o)'
  BY <1>10, <1>11, <1>12, <1>13, <1>14, <1>15, <1>16, <1>17, <1>18, ZenonT(30) DEF OpInv
<1>20. QED
  BY <1>5, <1>6, <1>7, <1>8, <1>19, OneOp

LEMMA AddSyncOperationStep ==
    ASSUME Counting, Inv, NEW o \in Ops, AddSyncOperation(o)
    PROVE  Inv'
<1>1. /\ Base /\ DeviceInv /\ Fresh(o) /\ Entered(o) /\ RefsFor(o) /\ Kept(o) /\ Done(o) /\ Clean(o)
      /\ Found(o) /\ Gate(o) /\ Callbacks(o) /\ Signals(o) /\ Cut(o)
  BY DEF Inv, OpInv
<1>2. /\ op \in [Ops -> OpRecord] /\ op' \in [Ops -> OpRecord] /\ (\A x \in Ops : x # o => op'[x] = op[x])
      /\ op'[o].refs = op[o].refs + 1 /\ op'[o].killed = op[o].killed
      /\ op'[o].finished = op[o].finished /\ op'[o].status = op[o].status
      /\ op'[o].semaphore = op[o].semaphore /\ op'[o].pending = op[o].pending
      /\ op'[o].calls = op[o].calls
  <2>1. op \in [Ops -> OpRecord] /\ op' = [op EXCEPT ![o].refs = @ + 1]
    BY <1>1 DEF Base, AddSyncOperation, Inserted
  <2>2. op' \in [Ops -> OpRecord]
    BY <2>1, SMT DEF OpRecord
  <2>3. /\ op'[o].refs = op[o].refs + 1 /\ op'[o].killed = op[o].killed
        /\ op'[o].finished = op[o].finished /\ op'[o].status = op[o].status
        /\ op'[o].semaphore = op[o].semaphore /\ op'[o].pending = op[o].pending
        /\ op'[o].calls = op[o].calls
    BY <2>1 DEF OpRecord
  <2>4. QED
    BY <2>1, <2>2, <2>3
<1>3. /\ pc[o] = "inserting" /\ pc'[o] = "added" /\ todo'[o] = todo[o] /\ o \in syncOperationMap'
      /\ rem'[o] = rem[o] /\ (o \in collected' <=> o \in collected) /\ SameTargets(o)
      /\ SameFin(o)
  BY <1>1, <1>2 DEF AddSyncOperation, Base, OpRecord, stopVars, sizeVars, syncerVars, contextVars,
     SameTargets, SameFin, SameBusy
<1>4. /\ Created(o) /\ Early(o) /\ ~Ending(o) /\ pc[o] # "returned" /\ pc[o] # "finishing"
      /\ Created(o)' /\ ~Early(o)' /\ Ending(o)' /\ pc'[o] # "returned" /\ pc'[o] # "finishing"
  BY <1>3 DEF Created, Early, Ending
<1>5. Onward
  BY DEF AddSyncOperation, Onward, stopVars, sizeVars, syncerVars, contextVars
<1>6. \A x \in Ops : x # o => Same(x)
  BY <1>1, <1>2 DEF AddSyncOperation, Base, Same, SameCall, SameMap, SameTargets, SameFin,
     SameBusy, stopVars, sizeVars, syncerVars, contextVars
<1>7. Base'
  BY <1>1, <1>2, <1>3, ZenonT(30) DEF AddSyncOperation, Base, stopVars, sizeVars, syncerVars, contextVars
<1>8. DeviceInv'
  BY <1>1 DEF AddSyncOperation, DeviceInv, contextVars
<1>9. CheckIsAllFinished(o) => CheckIsAllFinished(o)'
  BY <1>2, <1>5 DEF CheckIsAllFinished, Onward, DevicesOf
<1>10. Fresh(o)' /\ Entered(o)'
  BY <1>1, <1>2, <1>3, <1>4 DEF Fresh, SameTargets, SameFin, SameBusy, Entered
<1>11. RefsFor(o)'
  <2>1. CreatorRef(o)' = CreatorRef(o)
    BY <1>4, CreatorNow, CreatorNext
  <2>2. MapRef(o) = 0 /\ MapRef(o)' = 1
    BY <1>1, <1>3, <1>4, MapNow, MapNext DEF Entered, SameMap
  <2>3. CloseRef(o)' = CloseRef(o)
    BY <1>3, CloseNow, CloseNext
  <2>4. ContextRefs(o)' = ContextRefs(o)
    BY <1>3, ContextsKept DEF SameTargets
  <2>5. /\ op[o].refs \in Int /\ op[o].pending \in Int /\ CreatorRef(o) \in Int /\ MapRef(o) \in Int
        /\ ContextRefs(o) \in Nat /\ CloseRef(o) \in Int
    BY <1>2, CreatorNow, MapNow, ContextsNow, CloseNow DEF OpRecord
  <2>6. /\ op[o].refs = CreatorRef(o) + MapRef(o) + ContextRefs(o) + CloseRef(o) + op[o].pending
        /\ op'[o].refs = op[o].refs + 1 /\ op'[o].pending = op[o].pending
    BY <1>1, <1>2, <1>3 DEF RefsFor
  <2>7. op'[o].refs = CreatorRef(o)' + MapRef(o)' + ContextRefs(o)' + CloseRef(o)' + op'[o].pending
    BY <2>1, <2>2, <2>3, <2>4, <2>5, <2>6, SMT
  <2>8. QED
    BY <2>7 DEF RefsFor
<1>12. Kept(o)' /\ Done(o)'
  BY <1>1, <1>2, <1>3, <1>4, <1>9 DEF Kept, Done
<1>13. Clean(o)'
  BY <1>1, <1>2, <1>3, <1>4 DEF Clean, SameTargets
<1>14. Found(o)'
  BY <1>1, <1>2, <1>3, <1>4, <1>5 DEF Found, Onward, DevicesOf, SameTargets
<1>15. Gate(o)'
  BY <1>1, <1>2, <1>3, <1>4 DEF Gate, SameFin, SameBusy
<1>16. Callbacks(o)'
  BY <1>1, <1>2, <1>3, <1>4, <1>5 DEF Callbacks, Onward, IsAutoSync, Kind, Events, SameFin
<1>17. Signals(o)' /\ Cut(o)'
  BY <1>1, <1>2, <1>3, <1>4, <1>5, ZenonT(30) DEF Signals, Cut, Onward
<1>18. OpInv(o)'
  BY <1>10, <1>11, <1>12, <1>13, <1>14, <1>15, <1>16, <1>17, ZenonT(30) DEF OpInv
<1>19. QED
  BY <1>5, <1>6, <1>7, <1>8, <1>18, OneOp

LEMMA PushSyncIdStep ==
    ASSUME Counting, Inv, NEW o \in Ops, PushSyncId(o)
    PROVE  Inv'
<1>1. /\ Base /\ DeviceInv /\ Fresh(o) /\ Entered(o) /\ RefsFor(o) /\ Kept(o) /\ Done(o) /\ Clean(o)
      /\ Found(o) /\ Gate(o) /\ Callbacks(o) /\ Signals(o) /\ Cut(o)
  BY DEF Inv, OpInv
<1>2. op \in [Ops -> OpRecord] /\ op' \in [Ops -> OpRecord]
  BY <1>1 DEF Base, PushSyncId
<1>3. /\ op' = op /\ pc[o] = "added" /\ pc'[o] = "listed" /\ todo'[o] = todo[o] /\ SameMap(o)
      /\ SameTargets(o) /\ SameFin(o)
  BY <1>1, <1>2 DEF PushSyncId, Base, OpRecord, stopVars, sizeVars, syncerVars, contextVars,
     SameMap, SameTargets, SameFin, SameBusy
<1>4. /\ Created(o) /\ ~Early(o) /\ Ending(o) /\ pc[o] # "returned" /\ pc[o] # "finishing"
      /\ Created(o)' /\ ~Early(o)' /\ Ending(o)' /\ pc'[o] # "returned" /\ pc'[o] # "finishing"
  BY <1>3 DEF Created, Early, Ending
<1>5. Onward
  BY DEF PushSyncId, Onward, stopVars, sizeVars, syncerVars, contextVars
<1>6. \A x \in Ops : x # o => Same(x)
  BY <1>1, <1>2 DEF PushSyncId, Base, Same, SameCall, SameMap, SameTargets, SameFin, SameBusy,
     stopVars, sizeVars, syncerVars, contextVars
<1>7. Base'
  BY <1>1, <1>2, <1>3, ZenonT(30) DEF PushSyncId, Base, stopVars, sizeVars, syncerVars, contextVars
<1>8. DeviceInv'
  BY <1>1 DEF PushSyncId, DeviceInv, contextVars
<1>9. CheckIsAllFinished(o) => CheckIsAllFinished(o)'
  BY <1>2, <1>3, <1>5 DEF CheckIsAllFinished, Onward, DevicesOf
<1>10. Fresh(o)' /\ Entered(o)'
  BY <1>1, <1>2, <1>3, <1>4 DEF Fresh, SameMap, SameTargets, SameFin, SameBusy, Entered
<1>11. RefsFor(o)'
  <2>1. CreatorRef(o)' = CreatorRef(o)
    BY <1>4, CreatorNow, CreatorNext
  <2>2. MapRef(o)' = MapRef(o)
    BY <1>3, MapKept
  <2>3. CloseRef(o)' = CloseRef(o)
    BY <1>3, MapKept
  <2>4. ContextRefs(o)' = ContextRefs(o)
    BY <1>3, ContextsKept DEF SameTargets
  <2>5. QED
    BY <1>1, <1>2, <1>3, <2>1, <2>2, <2>3, <2>4 DEF RefsFor
<1>12. Kept(o)' /\ Done(o)'
  BY <1>1, <1>2, <1>3, <1>4, <1>9 DEF Kept, SameMap, Done
<1>13. Clean(o)'
  BY <1>1, <1>2, <1>3, <1>4 DEF Clean, SameTargets
<1>14. Found(o)'
  BY <1>1, <1>2, <1>3, <1>4, <1>5 DEF Found, Onward, DevicesOf, SameTargets
<1>15. Gate(o)'
  BY <1>1, <1>2, <1>3, <1>4 DEF Gate, SameFin, SameBusy
<1>16. Callbacks(o)'
  BY <1>1, <1>2, <1>3, <1>4, <1>5 DEF Callbacks, Onward, IsAutoSync, Kind, Events, SameFin
<1>17. Signals(o)' /\ Cut(o)'
  BY <1>1, <1>2, <1>3, <1>4, <1>5 DEF Signals, SameMap, Cut, Onward
<1>18. OpInv(o)'
  BY <1>10, <1>11, <1>12, <1>13, <1>14, <1>15, <1>16, <1>17, ZenonT(30) DEF OpInv
<1>19. QED
  BY <1>5, <1>6, <1>7, <1>8, <1>18, OneOp

LEMMA PurgedQueues ==
    ASSUME Base, DeviceInv, NEW o \in Ops, queue' = Purged(o)
    PROVE  /\ queue' \in [Devices -> Seq(Ops)]
           /\ \A d \in Devices : NoRepeat(queue'[d]) /\ Targets(queue'[d]) = Targets(queue[d]) \ {o}
<1>1. /\ queue' = [d \in Devices |-> RemoveTarget(queue[d], o)] /\ queue \in [Devices -> Seq(Ops)]
      /\ \A d \in Devices : NoRepeat(queue[d])
  BY DEF Base, DeviceInv, Purged
<1>2. ASSUME NEW d \in Devices
      PROVE  queue'[d] \in Seq(Ops) /\ NoRepeat(queue'[d]) /\ Targets(queue'[d]) = Targets(queue[d]) \ {o}
  <2>1. queue[d] \in Seq(Ops) /\ NoRepeat(queue[d]) /\ queue'[d] = RemoveTarget(queue[d], o)
    BY <1>1
  <2>2. QED
    BY <2>1, RemoveFromQueue
<1>3. QED
  BY <1>1, <1>2

LEMMA FinishNowStep ==
    ASSUME Counting, Inv, NEW o \in Ops, CheckIsAllFinished(o), MayFinish(o), FinishOrWait(o)
    PROVE  Inv'
<1>1. /\ Base /\ DeviceInv /\ Fresh(o) /\ Entered(o) /\ RefsFor(o) /\ Kept(o) /\ Done(o) /\ Clean(o)
      /\ Found(o) /\ Gate(o) /\ Callbacks(o) /\ Signals(o) /\ Cut(o)
  BY DEF Inv, OpInv
<1>2. /\ op \in [Ops -> OpRecord] /\ op' \in [Ops -> OpRecord] /\ (\A x \in Ops : x # o => op'[x] = op[x])
      /\ op'[o].refs = op[o].refs /\ op'[o].killed = op[o].killed /\ op'[o].finished = TRUE
      /\ op'[o].status = op[o].status /\ op'[o].semaphore = op[o].semaphore
      /\ op'[o].pending = op[o].pending /\ op'[o].calls = op[o].calls
  <2>1. op \in [Ops -> OpRecord] /\ op' = [op EXCEPT ![o].finished = TRUE]
    BY <1>1 DEF Base, FinishOrWait, EnterFinished
  <2>2. op' = [op EXCEPT ![o] = [op[o] EXCEPT !.finished = TRUE]]
    BY <2>1 DEF OpRecord
  <2>3. op' \in [Ops -> OpRecord]
    BY <2>1, <2>2, ZenonT(30) DEF OpRecord
  <2>4. /\ op'[o].refs = op[o].refs /\ op'[o].killed = op[o].killed /\ op'[o].finished = TRUE
        /\ op'[o].status = op[o].status /\ op'[o].semaphore = op[o].semaphore
        /\ op'[o].pending = op[o].pending /\ op'[o].calls = op[o].calls
    BY <2>1, <2>2, ZenonT(30) DEF OpRecord
  <2>5. QED
    BY <2>1, <2>2, <2>3, <2>4
<1>f. /\ fin' \in [Ops -> [by : Threads \union {Caller, Closer, Nobody},
                     at : {"no", "call", "remove", "removing"}]]
      /\ fin'[o].by = Caller /\ fin'[o].at = "call" /\ \A x \in Ops : x # o => fin'[x] = fin[x]
  <2>1. /\ fin \in [Ops -> [by : Threads \union {Caller, Closer, Nobody},
                          at : {"no", "call", "remove", "removing"}]]
        /\ fin' = [fin EXCEPT ![o] = [by |-> Caller, at |-> "call"]]
    BY <1>1 DEF FinishOrWait, EnterFinished, Base
  <2>2. Caller \in Threads \union {Caller, Closer, Nobody}
    OBVIOUS
  <2>3. QED
    BY <2>1, <2>2
<1>3. /\ pc[o] = "listed" /\ pc'[o] = "finishing" /\ todo'[o] = todo[o] /\ fin'[o].by = Caller
      /\ fin'[o].at = "call" /\ ~op[o].killed /\ ~op[o].finished /\ CheckIsAllFinished(o)
      /\ SameMap(o) /\ SameTargets(o) /\ SameBusy(o)
  BY <1>1, <1>2, <1>f, ZenonT(30) DEF FinishOrWait, MayFinish, Base, SameMap, SameTargets, SameBusy, stopVars,
     sizeVars, syncerVars, contextVars
<1>4. /\ Created(o) /\ ~Early(o) /\ Ending(o) /\ pc[o] # "returned" /\ pc[o] # "finishing"
      /\ Created(o)' /\ ~Early(o)' /\ Ending(o)' /\ pc'[o] # "returned" /\ pc'[o] = "finishing"
  BY <1>3 DEF Created, Early, Ending
<1>5. Onward
  BY DEF FinishOrWait, EnterFinished, MayFinish, Onward, stopVars, sizeVars, syncerVars, contextVars
<1>6. \A x \in Ops : x # o => Same(x)
  BY <1>1, <1>2, <1>f, ZenonT(30) DEF FinishOrWait, Base, Same, SameCall, SameMap, SameTargets, SameFin,
     SameBusy, stopVars, sizeVars, syncerVars, contextVars
<1>7. Base'
  BY <1>1, <1>2, <1>f, ZenonT(30) DEF FinishOrWait, Base, stopVars, sizeVars, syncerVars, contextVars
<1>8. DeviceInv'
  BY <1>1 DEF FinishOrWait, EnterFinished, MayFinish, DeviceInv, contextVars
<1>9. CheckIsAllFinished(o) => CheckIsAllFinished(o)'
  BY <1>2, <1>5 DEF CheckIsAllFinished, Onward, DevicesOf
<1>10. Fresh(o)' /\ Entered(o)'
  BY <1>1, <1>2, <1>3, <1>4 DEF Fresh, SameMap, SameTargets, SameBusy, Entered
<1>11. RefsFor(o)'
  <2>1. CreatorRef(o)' = CreatorRef(o)
    BY <1>4, CreatorNow, CreatorNext
  <2>2. MapRef(o)' = MapRef(o)
    BY <1>3, MapKept
  <2>3. CloseRef(o)' = CloseRef(o)
    BY <1>3, MapKept
  <2>4. ContextRefs(o)' = ContextRefs(o)
    BY <1>3, ContextsKept DEF SameTargets
  <2>5. QED
    BY <1>1, <1>2, <1>3, <2>1, <2>2, <2>3, <2>4 DEF RefsFor
<1>12. Kept(o)' /\ Done(o)'
  BY <1>1, <1>2, <1>3, <1>4, <1>9 DEF Kept, SameMap, Done
<1>13. Clean(o)'
  BY <1>1, <1>2, <1>3, <1>4 DEF Clean, SameTargets
<1>14. Found(o)'
  BY <1>1, <1>2, <1>3, <1>4, <1>5, ZenonT(30) DEF Found, Onward, DevicesOf, SameTargets
<1>15. Gate(o)'
  BY <1>1, <1>2, <1>3, <1>4 DEF Gate, SameBusy
<1>16. Callbacks(o)'
  BY <1>1, <1>2, <1>3, <1>4, <1>5 DEF Callbacks, Onward, IsAutoSync, Kind, Events
<1>17. Signals(o)' /\ Cut(o)'
  BY <1>1, <1>2, <1>3, <1>4, <1>5 DEF Signals, SameMap, Cut, Onward
<1>18. OpInv(o)'
  BY <1>10, <1>11, <1>12, <1>13, <1>14, <1>15, <1>16, <1>17, ZenonT(30) DEF OpInv
<1>19. QED
  BY <1>5, <1>6, <1>7, <1>8, <1>18, OneOp

LEMMA FinishedElsewhereStep ==
    ASSUME Counting, Inv, NEW o \in Ops, CheckIsAllFinished(o), ~MayFinish(o), FinishOrWait(o)
    PROVE  Inv'
<1>1. /\ Base /\ DeviceInv /\ Fresh(o) /\ Entered(o) /\ RefsFor(o) /\ Kept(o) /\ Done(o) /\ Clean(o)
      /\ Found(o) /\ Gate(o) /\ Callbacks(o) /\ Signals(o) /\ Cut(o)
  BY DEF Inv, OpInv
<1>2. op \in [Ops -> OpRecord] /\ op' \in [Ops -> OpRecord]
  BY <1>1 DEF Base, FinishOrWait
<1>3. /\ op' = op /\ pc[o] = "listed" /\ pc'[o] = "finishing" /\ todo'[o] = todo[o]
      /\ (op[o].killed \/ op[o].finished) /\ CheckIsAllFinished(o) /\ SameMap(o) /\ SameTargets(o)
      /\ SameFin(o)
  BY <1>1, <1>2 DEF FinishOrWait, MayFinish, Base, OpRecord, stopVars, sizeVars, syncerVars,
     contextVars, SameMap, SameTargets, SameFin, SameBusy
<1>4. /\ Created(o) /\ ~Early(o) /\ Ending(o) /\ pc[o] # "returned" /\ pc[o] # "finishing"
      /\ Created(o)' /\ ~Early(o)' /\ Ending(o)' /\ pc'[o] # "returned" /\ pc'[o] = "finishing"
  BY <1>3 DEF Created, Early, Ending
<1>5. Onward
  BY DEF FinishOrWait, MayFinish, Onward, stopVars, sizeVars, syncerVars, contextVars
<1>6. \A x \in Ops : x # o => Same(x)
  BY <1>1 DEF FinishOrWait, Base, Same, SameCall, SameMap, SameTargets, SameFin, SameBusy,
     stopVars, sizeVars, syncerVars, contextVars
<1>7. Base'
  BY <1>1, <1>2, ZenonT(30) DEF FinishOrWait, Base, stopVars, sizeVars, syncerVars, contextVars
<1>8. DeviceInv'
  BY <1>1 DEF FinishOrWait, MayFinish, DeviceInv, contextVars
<1>9. CheckIsAllFinished(o) => CheckIsAllFinished(o)'
  BY <1>2, <1>3, <1>5 DEF CheckIsAllFinished, Onward, DevicesOf
<1>10. Fresh(o)' /\ Entered(o)'
  BY <1>1, <1>2, <1>3, <1>4 DEF Fresh, SameMap, SameTargets, SameFin, SameBusy, Entered
<1>11. RefsFor(o)'
  <2>1. CreatorRef(o)' = CreatorRef(o)
    BY <1>4, CreatorNow, CreatorNext
  <2>2. MapRef(o)' = MapRef(o)
    BY <1>3, MapKept
  <2>3. CloseRef(o)' = CloseRef(o)
    BY <1>3, MapKept
  <2>4. ContextRefs(o)' = ContextRefs(o)
    BY <1>3, ContextsKept DEF SameTargets
  <2>5. QED
    BY <1>1, <1>2, <1>3, <2>1, <2>2, <2>3, <2>4 DEF RefsFor
<1>12. Kept(o)' /\ Done(o)'
  BY <1>1, <1>2, <1>3, <1>4, <1>9 DEF Kept, SameMap, Done
<1>13. Clean(o)'
  BY <1>1, <1>2, <1>3, <1>4 DEF Clean, SameTargets
<1>14. Found(o)'
  BY <1>1, <1>2, <1>3, <1>4, <1>5 DEF Found, Onward, DevicesOf, SameTargets
<1>15. Gate(o)'
  BY <1>1, <1>2, <1>3, <1>4 DEF Gate, SameFin, SameBusy
<1>16. Callbacks(o)'
  BY <1>1, <1>2, <1>3, <1>4, <1>5 DEF Callbacks, Onward, IsAutoSync, Kind, Events, SameFin
<1>17. Signals(o)' /\ Cut(o)'
  BY <1>1, <1>2, <1>3, <1>4, <1>5 DEF Signals, SameMap, Cut, Onward
<1>18. OpInv(o)'
  BY <1>10, <1>11, <1>12, <1>13, <1>14, <1>15, <1>16, <1>17, ZenonT(30) DEF OpInv
<1>19. QED
  BY <1>5, <1>6, <1>7, <1>8, <1>18, OneOp

LEMMA WaitForOthersStep ==
    ASSUME Counting, Inv, NEW o \in Ops, ~CheckIsAllFinished(o), FinishOrWait(o)
    PROVE  Inv'
<1>1. /\ Base /\ DeviceInv /\ Fresh(o) /\ Entered(o) /\ RefsFor(o) /\ Kept(o) /\ Done(o) /\ Clean(o)
      /\ Found(o) /\ Gate(o) /\ Callbacks(o) /\ Signals(o) /\ Cut(o)
  BY DEF Inv, OpInv
<1>2. op \in [Ops -> OpRecord] /\ op' \in [Ops -> OpRecord]
  BY <1>1 DEF Base, FinishOrWait
<1>3. /\ op' = op /\ pc[o] = "listed" /\ pc'[o] = "waiting" /\ todo'[o] = todo[o]
      /\ ~CheckIsAllFinished(o) /\ SameMap(o) /\ SameTargets(o) /\ SameFin(o)
  BY <1>1, <1>2 DEF FinishOrWait, Base, OpRecord, stopVars, sizeVars, syncerVars, contextVars,
     SameMap, SameTargets, SameFin, SameBusy
<1>4. /\ Created(o) /\ ~Early(o) /\ Ending(o) /\ pc[o] # "returned" /\ pc[o] # "finishing"
      /\ Created(o)' /\ ~Early(o)' /\ ~Ending(o)' /\ pc'[o] # "returned" /\ pc'[o] # "finishing"
  BY <1>3 DEF Created, Early, Ending
<1>5. Onward
  BY DEF FinishOrWait, Onward, stopVars, sizeVars, syncerVars, contextVars
<1>6. \A x \in Ops : x # o => Same(x)
  BY <1>1, <1>2 DEF FinishOrWait, Base, Same, SameCall, SameMap, SameTargets, SameFin, SameBusy,
     stopVars, sizeVars, syncerVars, contextVars
<1>7. Base'
  BY <1>1, <1>2, ZenonT(30) DEF FinishOrWait, Base, stopVars, sizeVars, syncerVars, contextVars
<1>8. DeviceInv'
  BY <1>1 DEF FinishOrWait, DeviceInv, contextVars
<1>9. CheckIsAllFinished(o) => CheckIsAllFinished(o)'
  BY <1>2, <1>3, <1>5 DEF CheckIsAllFinished, Onward, DevicesOf
<1>10. Fresh(o)' /\ Entered(o)'
  BY <1>1, <1>2, <1>3, <1>4 DEF Fresh, SameMap, SameTargets, SameFin, SameBusy, Entered
<1>11. RefsFor(o)'
  <2>1. CreatorRef(o)' = CreatorRef(o)
    BY <1>4, CreatorNow, CreatorNext
  <2>2. MapRef(o)' = MapRef(o)
    BY <1>3, MapKept
  <2>3. CloseRef(o)' = CloseRef(o)
    BY <1>3, MapKept
  <2>4. ContextRefs(o)' = ContextRefs(o)
    BY <1>3, ContextsKept DEF SameTargets
  <2>5. QED
    BY <1>1, <1>2, <1>3, <2>1, <2>2, <2>3, <2>4 DEF RefsFor
<1>12. Kept(o)' /\ Done(o)'
  BY <1>1, <1>2, <1>3, <1>4, <1>9 DEF Kept, SameMap, Done
<1>13. Clean(o)'
  BY <1>1, <1>2, <1>3, <1>4 DEF Clean, SameTargets
<1>14. Found(o)'
  BY <1>1, <1>2, <1>3, <1>4, <1>5 DEF Found, Onward, DevicesOf, SameTargets
<1>15. Gate(o)'
  BY <1>1, <1>2, <1>3, <1>4 DEF Gate, SameFin, SameBusy
<1>16. Callbacks(o)'
  BY <1>1, <1>2, <1>3, <1>4, <1>5 DEF Callbacks, Onward, IsAutoSync, Kind, Events, SameFin
<1>17. Signals(o)' /\ Cut(o)'
  BY <1>1, <1>2, <1>3, <1>4, <1>5 DEF Signals, SameMap, Cut, Onward
<1>18. OpInv(o)'
  BY <1>10, <1>11, <1>12, <1>13, <1>14, <1>15, <1>16, <1>17, ZenonT(30) DEF OpInv
<1>19. QED
  BY <1>5, <1>6, <1>7, <1>8, <1>18, OneOp

LEMMA FinishOrWaitStep ==
    ASSUME Counting, Inv, NEW o \in Ops, FinishOrWait(o)
    PROVE  Inv'
  BY FinishNowStep, FinishedElsewhereStep, WaitForOthersStep

LEMMA ReturnFinishedStep ==
    ASSUME Counting, Inv, NEW o \in Ops, ReturnFinished(o)
    PROVE  Inv'
<1>1. /\ Base /\ DeviceInv /\ Fresh(o) /\ Entered(o) /\ RefsFor(o) /\ Kept(o) /\ Done(o) /\ Clean(o)
      /\ Found(o) /\ Gate(o) /\ Callbacks(o) /\ Signals(o) /\ Cut(o)
  BY DEF Inv, OpInv
<1>2. /\ op \in [Ops -> OpRecord] /\ op' \in [Ops -> OpRecord] /\ (\A x \in Ops : x # o => op'[x] = op[x])
      /\ op'[o].refs = op[o].refs - 1 /\ op'[o].killed = TRUE /\ op'[o].finished = op[o].finished
      /\ op'[o].status = op[o].status /\ op'[o].semaphore = op[o].semaphore
      /\ op'[o].pending = op[o].pending /\ op'[o].calls = op[o].calls
  <2>1. op \in [Ops -> OpRecord] /\ op' = [op EXCEPT ![o].killed = TRUE, ![o].refs = @ - 1]
    BY <1>1 DEF Base, ReturnFinished, KillAndDec
  <2>2. op' \in [Ops -> OpRecord]
    BY <2>1, SMT DEF OpRecord
  <2>3. /\ op'[o].refs = op[o].refs - 1 /\ op'[o].killed = TRUE /\ op'[o].finished = op[o].finished
        /\ op'[o].status = op[o].status /\ op'[o].semaphore = op[o].semaphore
        /\ op'[o].pending = op[o].pending /\ op'[o].calls = op[o].calls
    BY <2>1 DEF OpRecord
  <2>4. QED
    BY <2>1, <2>2, <2>3
<1>q. /\ queue' \in [Devices -> Seq(Ops)]
      /\ \A d \in Devices : NoRepeat(queue'[d]) /\ Targets(queue'[d]) = Targets(queue[d]) \ {o}
  BY <1>1, PurgedQueues DEF ReturnFinished
<1>3. /\ pc[o] = "finishing" /\ pc'[o] = "returned" /\ todo'[o] = todo[o] /\ fin[o].by # Caller
      /\ current' = current /\ popped' = popped
      /\ (\A d \in Devices : o \notin Targets(queue'[d])) /\ SameMap(o) /\ SameFin(o)
  BY <1>1, <1>q DEF ReturnFinished, Base, SameMap, SameFin, SameBusy, stopVars, sizeVars,
     syncerVars, contextVars
<1>4. /\ Created(o) /\ ~Early(o) /\ Ending(o) /\ pc[o] # "returned" /\ pc[o] = "finishing"
      /\ Created(o)' /\ ~Early(o)' /\ ~Ending(o)' /\ pc'[o] = "returned" /\ pc'[o] # "finishing"
  BY <1>3 DEF Created, Early, Ending
<1>5. Onward
  BY DEF ReturnFinished, Onward, stopVars, sizeVars, syncerVars, contextVars
<1>6. \A x \in Ops : x # o => Same(x)
  <2> SUFFICES ASSUME NEW x \in Ops, x # o PROVE Same(x)
    OBVIOUS
  <2>1. op'[x] = op[x] /\ SameCall(x) /\ SameMap(x) /\ SameFin(x)
    BY <1>1, <1>2 DEF ReturnFinished, Base, SameCall, SameMap, SameFin, SameBusy, stopVars,
       sizeVars, syncerVars, contextVars
  <2>2. SameTargets(x)
    BY <1>1, <1>q DEF ReturnFinished, Base, SameTargets, stopVars, sizeVars, syncerVars, contextVars
  <2>3. QED
    BY <2>1, <2>2 DEF Same
<1>7. Base'
  BY <1>1, <1>2, <1>q DEF ReturnFinished, Base, stopVars, sizeVars, syncerVars, contextVars
<1>8. DeviceInv'
  BY <1>1, <1>q DEF ReturnFinished, DeviceInv
<1>9. CheckIsAllFinished(o) => CheckIsAllFinished(o)'
  BY <1>2, <1>5 DEF CheckIsAllFinished, Onward, DevicesOf
<1>10. Fresh(o)' /\ Entered(o)'
  BY <1>1, <1>2, <1>3, <1>4 DEF Fresh, SameMap, SameFin, SameBusy, Entered
<1>11. RefsFor(o)'
  <2>1. CreatorRef(o) = 1 /\ CreatorRef(o)' = 0
    BY <1>4, CreatorNow, CreatorNext
  <2>2. MapRef(o)' = MapRef(o)
    BY <1>3, MapKept
  <2>3. CloseRef(o)' = CloseRef(o)
    BY <1>3, MapKept
  <2>4. ContextRefs(o)' = ContextRefs(o)
    BY <1>3, ContextsKept DEF SameTargets
  <2>5. /\ op[o].refs \in Int /\ op[o].pending \in Int /\ CreatorRef(o) \in Int /\ MapRef(o) \in Int
        /\ ContextRefs(o) \in Nat /\ CloseRef(o) \in Int
    BY <1>2, CreatorNow, MapNow, ContextsNow, CloseNow DEF OpRecord
  <2>6. /\ op[o].refs = CreatorRef(o) + MapRef(o) + ContextRefs(o) + CloseRef(o) + op[o].pending
        /\ op'[o].refs = op[o].refs - 1 /\ op'[o].pending = op[o].pending
    BY <1>1, <1>2, <1>3 DEF RefsFor
  <2>7. op'[o].refs = CreatorRef(o)' + MapRef(o)' + ContextRefs(o)' + CloseRef(o)' + op'[o].pending
    BY <2>1, <2>2, <2>3, <2>4, <2>5, <2>6, SMT
  <2>8. QED
    BY <2>7 DEF RefsFor
<1>12. Kept(o)' /\ Done(o)'
  BY <1>1, <1>2, <1>3, <1>4, <1>9 DEF Kept, SameMap, Done
<1>13. Clean(o)'
  BY <1>1, <1>2, <1>3, <1>4 DEF Clean
<1>14. Found(o)'
  BY <1>1, <1>2, <1>3, <1>4, <1>5 DEF Found, Onward, DevicesOf
<1>15. Gate(o)'
  BY <1>1, <1>2, <1>3, <1>4 DEF Gate, SameFin, SameBusy
<1>16. Callbacks(o)'
  BY <1>1, <1>2, <1>3, <1>4, <1>5 DEF Callbacks, Onward, IsAutoSync, Kind, Events, SameFin
<1>17. Signals(o)' /\ Cut(o)'
  BY <1>1, <1>2, <1>3, <1>4, <1>5 DEF Signals, SameMap, Cut, Onward
<1>18. OpInv(o)'
  BY <1>10, <1>11, <1>12, <1>13, <1>14, <1>15, <1>16, <1>17, ZenonT(30) DEF OpInv
<1>19. QED
  BY <1>5, <1>6, <1>7, <1>8, <1>18, OneOp

LEMMA NeedNotWaitStep ==
    ASSUME Counting, Inv, NEW o \in Ops, ~IsBlockSync(o), WaitIfNeed(o)
    PROVE  Inv'
<1>1. /\ Base /\ DeviceInv /\ Fresh(o) /\ Entered(o) /\ RefsFor(o) /\ Kept(o) /\ Done(o) /\ Clean(o)
      /\ Found(o) /\ Gate(o) /\ Callbacks(o) /\ Signals(o) /\ Cut(o)
  BY DEF Inv, OpInv
<1>2. /\ op \in [Ops -> OpRecord] /\ op' \in [Ops -> OpRecord] /\ (\A x \in Ops : x # o => op'[x] = op[x])
      /\ op'[o].refs = op[o].refs - 1 /\ op'[o].killed = op[o].killed
      /\ op'[o].finished = op[o].finished /\ op'[o].status = op[o].status
      /\ op'[o].semaphore = op[o].semaphore /\ op'[o].pending = op[o].pending
      /\ op'[o].calls = op[o].calls
  <2>1. op \in [Ops -> OpRecord]
        /\ op' = [[op EXCEPT ![o].refs = @ - 1] EXCEPT ![o].semaphore = @]
    BY <1>1, SMT DEF Base, WaitIfNeed, DecRef
  <2>2. op' = [op EXCEPT ![o] = [op[o] EXCEPT !.refs = @ - 1]]
    BY <2>1 DEF OpRecord
  <2>3. op \in [Ops -> OpRecord]
    BY <2>1
  <2>4. /\ op' \in [Ops -> OpRecord]
        /\ op'[o].refs = op[o].refs - 1 /\ op'[o].killed = op[o].killed
        /\ op'[o].finished = op[o].finished /\ op'[o].status = op[o].status
        /\ op'[o].semaphore = op[o].semaphore /\ op'[o].pending = op[o].pending
        /\ op'[o].calls = op[o].calls
    BY <2>2, <2>3, SMT DEF OpRecord
  <2>5. QED
    BY <2>1, <2>2, <2>3, <2>4
<1>3. /\ pc[o] = "waiting" /\ pc'[o] = "returned" /\ todo'[o] = todo[o] /\ SameMap(o)
      /\ SameTargets(o) /\ SameFin(o)
  BY <1>1, <1>2 DEF WaitIfNeed, Base, OpRecord, stopVars, sizeVars, syncerVars, contextVars,
     SameMap, SameTargets, SameFin, SameBusy
<1>4. /\ Created(o) /\ ~Early(o) /\ ~Ending(o) /\ pc[o] # "returned" /\ pc[o] # "finishing"
      /\ Created(o)' /\ ~Early(o)' /\ ~Ending(o)' /\ pc'[o] = "returned" /\ pc'[o] # "finishing"
  BY <1>3 DEF Created, Early, Ending
<1>5. Onward
  BY DEF WaitIfNeed, Onward, stopVars, sizeVars, syncerVars, contextVars
<1>6. \A x \in Ops : x # o => Same(x)
  BY <1>1, <1>2 DEF WaitIfNeed, Base, Same, SameCall, SameMap, SameTargets, SameFin, SameBusy,
     stopVars, sizeVars, syncerVars, contextVars
<1>7. Base'
  BY <1>1, <1>2, <1>3 DEF WaitIfNeed, Base, stopVars, sizeVars, syncerVars, contextVars
<1>8. DeviceInv'
  BY <1>1 DEF WaitIfNeed, DeviceInv, contextVars
<1>9. CheckIsAllFinished(o) => CheckIsAllFinished(o)'
  BY <1>2, <1>5 DEF CheckIsAllFinished, Onward, DevicesOf
<1>10. Fresh(o)' /\ Entered(o)'
  BY <1>1, <1>2, <1>3, <1>4 DEF Fresh, SameMap, SameTargets, SameFin, SameBusy, Entered
<1>11. RefsFor(o)'
  <2>1. CreatorRef(o) = 1 /\ CreatorRef(o)' = 0
    BY <1>4, CreatorNow, CreatorNext
  <2>2. MapRef(o)' = MapRef(o)
    BY <1>3, MapKept
  <2>3. CloseRef(o)' = CloseRef(o)
    BY <1>3, MapKept
  <2>4. ContextRefs(o)' = ContextRefs(o)
    BY <1>3, ContextsKept DEF SameTargets
  <2>5. /\ op[o].refs \in Int /\ op[o].pending \in Int /\ CreatorRef(o) \in Int /\ MapRef(o) \in Int
        /\ ContextRefs(o) \in Nat /\ CloseRef(o) \in Int
    BY <1>2, CreatorNow, MapNow, ContextsNow, CloseNow DEF OpRecord
  <2>6. /\ op[o].refs = CreatorRef(o) + MapRef(o) + ContextRefs(o) + CloseRef(o) + op[o].pending
        /\ op'[o].refs = op[o].refs - 1 /\ op'[o].pending = op[o].pending
    BY <1>1, <1>2, <1>3 DEF RefsFor
  <2>7. op'[o].refs = CreatorRef(o)' + MapRef(o)' + ContextRefs(o)' + CloseRef(o)' + op'[o].pending
    BY <2>1, <2>2, <2>3, <2>4, <2>5, <2>6, SMT
  <2>8. QED
    BY <2>7 DEF RefsFor
<1>12. Kept(o)' /\ Done(o)'
  BY <1>1, <1>2, <1>3, <1>4, <1>9 DEF Kept, SameMap, Done
<1>13. Clean(o)'
  BY <1>1, <1>2, <1>3, <1>4 DEF Clean, SameTargets
<1>14. Found(o)'
  BY <1>1, <1>2, <1>3, <1>4, <1>5 DEF Found, Onward, DevicesOf, SameTargets
<1>15. Gate(o)'
  BY <1>1, <1>2, <1>3, <1>4 DEF Gate, SameFin, SameBusy
<1>16. Callbacks(o)'
  BY <1>1, <1>2, <1>3, <1>4, <1>5 DEF Callbacks, Onward, IsAutoSync, Kind, Events, SameFin
<1>17. Signals(o)' /\ Cut(o)'
  BY <1>1, <1>2, <1>3, <1>4, <1>5 DEF Signals, SameMap, Cut, Onward
<1>18. OpInv(o)'
  BY <1>10, <1>11, <1>12, <1>13, <1>14, <1>15, <1>16, <1>17, ZenonT(30) DEF OpInv
<1>19. QED
  BY <1>5, <1>6, <1>7, <1>8, <1>18, OneOp

LEMMA WokenUpStep ==
    ASSUME Counting, Inv, NEW o \in Ops, IsBlockSync(o), WaitIfNeed(o)
    PROVE  Inv'
<1>1. /\ Base /\ DeviceInv /\ Fresh(o) /\ Entered(o) /\ RefsFor(o) /\ Kept(o) /\ Done(o) /\ Clean(o)
      /\ Found(o) /\ Gate(o) /\ Callbacks(o) /\ Signals(o) /\ Cut(o)
  BY DEF Inv, OpInv
<1>2. /\ op \in [Ops -> OpRecord] /\ op' \in [Ops -> OpRecord] /\ (\A x \in Ops : x # o => op'[x] = op[x])
      /\ op'[o].refs = op[o].refs - 1 /\ op'[o].killed = op[o].killed
      /\ op'[o].finished = op[o].finished /\ op'[o].status = op[o].status
      /\ op'[o].semaphore = op[o].semaphore - 1 /\ op'[o].pending = op[o].pending
      /\ op'[o].calls = op[o].calls
  <2>1. op \in [Ops -> OpRecord] /\ op' = [[op EXCEPT ![o].refs = @ - 1] EXCEPT ![o].semaphore = @ - 1]
    BY <1>1, SMT DEF Base, WaitIfNeed, DecRef
  <2>2. op' \in [Ops -> OpRecord]
    BY <2>1, SMT DEF OpRecord
  <2>3. /\ op'[o].refs = op[o].refs - 1 /\ op'[o].killed = op[o].killed
        /\ op'[o].finished = op[o].finished /\ op'[o].status = op[o].status
        /\ op'[o].semaphore = op[o].semaphore - 1 /\ op'[o].pending = op[o].pending
        /\ op'[o].calls = op[o].calls
    BY <2>1, ZenonT(30) DEF OpRecord
  <2>4. QED
    BY <2>1, <2>2, <2>3
<1>3. /\ pc[o] = "waiting" /\ pc'[o] = "returned" /\ todo'[o] = todo[o] /\ op[o].semaphore > 0
      /\ SameMap(o) /\ SameTargets(o) /\ SameFin(o)
  BY <1>1, <1>2 DEF WaitIfNeed, Base, OpRecord, stopVars, sizeVars, syncerVars, contextVars,
     SameMap, SameTargets, SameFin, SameBusy
<1>4. /\ Created(o) /\ ~Early(o) /\ ~Ending(o) /\ pc[o] # "returned" /\ pc[o] # "finishing"
      /\ Created(o)' /\ ~Early(o)' /\ ~Ending(o)' /\ pc'[o] = "returned" /\ pc'[o] # "finishing"
  BY <1>3 DEF Created, Early, Ending
<1>5. Onward
  BY DEF WaitIfNeed, Onward, stopVars, sizeVars, syncerVars, contextVars
<1>6. \A x \in Ops : x # o => Same(x)
  BY <1>1, <1>2 DEF WaitIfNeed, Base, Same, SameCall, SameMap, SameTargets, SameFin, SameBusy,
     stopVars, sizeVars, syncerVars, contextVars
<1>7. Base'
  BY <1>1, <1>2, <1>3 DEF WaitIfNeed, Base, stopVars, sizeVars, syncerVars, contextVars
<1>8. DeviceInv'
  BY <1>1 DEF WaitIfNeed, DeviceInv, contextVars
<1>9. CheckIsAllFinished(o) => CheckIsAllFinished(o)'
  BY <1>2, <1>5 DEF CheckIsAllFinished, Onward, DevicesOf
<1>10. Fresh(o)' /\ Entered(o)'
  BY <1>1, <1>2, <1>3, <1>4 DEF Fresh, SameMap, SameTargets, SameFin, SameBusy, Entered
<1>11. RefsFor(o)'
  <2>1. CreatorRef(o) = 1 /\ CreatorRef(o)' = 0
    BY <1>4, CreatorNow, CreatorNext
  <2>2. MapRef(o)' = MapRef(o)
    BY <1>3, MapKept
  <2>3. CloseRef(o)' = CloseRef(o)
    BY <1>3, MapKept
  <2>4. ContextRefs(o)' = ContextRefs(o)
    BY <1>3, ContextsKept DEF SameTargets
  <2>5. /\ op[o].refs \in Int /\ op[o].pending \in Int /\ CreatorRef(o) \in Int /\ MapRef(o) \in Int
        /\ ContextRefs(o) \in Nat /\ CloseRef(o) \in Int
    BY <1>2, CreatorNow, MapNow, ContextsNow, CloseNow DEF OpRecord
  <2>6. /\ op[o].refs = CreatorRef(o) + MapRef(o) + ContextRefs(o) + CloseRef(o) + op[o].pending
        /\ op'[o].refs = op[o].refs - 1 /\ op'[o].pending = op[o].pending
    BY <1>1, <1>2, <1>3 DEF RefsFor
  <2>7. op'[o].refs = CreatorRef(o)' + MapRef(o)' + ContextRefs(o)' + CloseRef(o)' + op'[o].pending
    BY <2>1, <2>2, <2>3, <2>4, <2>5, <2>6, SMT
  <2>8. QED
    BY <2>7 DEF RefsFor
<1>12. Kept(o)' /\ Done(o)'
  BY <1>1, <1>2, <1>3, <1>4, <1>9 DEF Kept, SameMap, Done
<1>13. Clean(o)'
  BY <1>1, <1>2, <1>3, <1>4 DEF Clean, SameTargets
<1>14. Found(o)'
  BY <1>1, <1>2, <1>3, <1>4, <1>5 DEF Found, Onward, DevicesOf, SameTargets
<1>15. Gate(o)'
  BY <1>1, <1>2, <1>3, <1>4 DEF Gate, SameFin, SameBusy
<1>16. Callbacks(o)'
  BY <1>1, <1>2, <1>3, <1>4, <1>5 DEF Callbacks, Onward, IsAutoSync, Kind, Events, SameFin
<1>17. Signals(o)'
  <2>1. op[o].semaphore \in {0, 1} /\ op[o].semaphore > 0 /\ op'[o].semaphore = op[o].semaphore - 1
    BY <1>1, <1>2, <1>3 DEF Signals
  <2>2. op'[o].semaphore = 0
    BY <2>1, SMT
  <2>3. QED
    BY <2>2 DEF Signals
<1>18. Cut(o)'
  BY <1>1, <1>2, <1>3, <1>4, <1>5 DEF Cut, Onward, SameMap
<1>19. OpInv(o)'
  BY <1>10, <1>11, <1>12, <1>13, <1>14, <1>15, <1>16, <1>17, <1>18, ZenonT(30) DEF OpInv
<1>20. QED
  BY <1>5, <1>6, <1>7, <1>8, <1>19, OneOp

LEMMA WaitIfNeedStep ==
    ASSUME Counting, Inv, NEW o \in Ops, WaitIfNeed(o)
    PROVE  Inv'
  BY NeedNotWaitStep, WokenUpStep

LEMMA FinishedAtOnceStep ==
    ASSUME Counting, Inv, NEW o \in Ops, NEW d \in Devices, NEW s \in Finals, op' = [op EXCEPT ![o] = WithStatus(@, {d}, s)], queue' = queue, AddSyncOperForContext(o, d)
    PROVE  Inv'
<1>1. /\ Base /\ DeviceInv /\ Fresh(o) /\ Entered(o) /\ RefsFor(o) /\ Kept(o) /\ Done(o) /\ Clean(o)
      /\ Found(o) /\ Gate(o) /\ Callbacks(o) /\ Signals(o) /\ Cut(o)
  BY DEF Inv, OpInv
<1>2. /\ op \in [Ops -> OpRecord] /\ op' \in [Ops -> OpRecord] /\ (\A x \in Ops : x # o => op'[x] = op[x])
      /\ op'[o].refs = op[o].refs /\ op'[o].killed = op[o].killed
      /\ op'[o].finished = op[o].finished /\ op'[o].semaphore = op[o].semaphore
      /\ op'[o].pending = op[o].pending /\ op'[o].calls = op[o].calls
      /\ (\A e \in Devices : op[o].status[e] # "WAITING" => op'[o].status[e] = op[o].status[e])
      /\ op[o].killed \/ op[o].finished \/ (\A e \in {d} : op'[o].status[e] # "WAITING")
  <2>1. op \in [Ops -> OpRecord] /\ op' = [op EXCEPT ![o] = WithStatus(@, {d}, s)]
    BY <1>1 DEF Base
  <2>2. op'[o] = WithStatus(op[o], {d}, s) /\ op[o] \in OpRecord
    BY <2>1
  <2>3. {d} \in SUBSET Devices /\ s \in Finals
    OBVIOUS
  <2>4. StatusSet(op[o], op'[o], {d})
    BY <2>2, <2>3, StatusField
  <2>5. op' \in [Ops -> OpRecord]
    BY <2>1, <2>2, <2>4 DEF StatusSet
  <2>6. QED
    BY <2>1, <2>4, <2>5 DEF StatusSet
<1>3. /\ pc[o] = "adding" /\ pc'[o] = "adding" /\ d \in todo[o] /\ todo'[o] = todo[o] \ {d}
      /\ SameMap(o) /\ SameTargets(o) /\ SameFin(o)
  BY <1>1 DEF AddSyncOperForContext, Base, SameMap, SameTargets, SameFin, SameBusy, stopVars,
     sizeVars, syncerVars, contextVars
<1>4. /\ Created(o) /\ Early(o) /\ ~Ending(o) /\ pc[o] # "returned" /\ pc[o] # "finishing"
      /\ Created(o)' /\ Early(o)' /\ ~Ending(o)' /\ pc'[o] # "returned" /\ pc'[o] # "finishing"
  BY <1>3 DEF Created, Early, Ending
<1>5. Onward
  BY DEF AddSyncOperForContext, Onward, stopVars, sizeVars, syncerVars, contextVars
<1>6. \A x \in Ops : x # o => Same(x)
  BY <1>1, <1>2, ZenonT(30) DEF AddSyncOperForContext, Base, Same, SameCall, SameMap, SameTargets, SameFin,
     SameBusy, stopVars, sizeVars, syncerVars, contextVars
<1>7. Base'
  BY <1>1, <1>2 DEF AddSyncOperForContext, Base, stopVars, sizeVars, syncerVars, contextVars
<1>8. DeviceInv'
  BY <1>1 DEF AddSyncOperForContext, DeviceInv, contextVars
<1>9. CheckIsAllFinished(o) => CheckIsAllFinished(o)'
  BY <1>1, <1>2, <1>5, TargetDevices DEF CheckIsAllFinished, Onward, DevicesOf
<1>10. Fresh(o)' /\ Entered(o)'
  BY <1>1, <1>2, <1>3, <1>4 DEF Fresh, SameMap, SameTargets, SameFin, SameBusy, Entered
<1>11. RefsFor(o)'
  <2>1. CreatorRef(o)' = CreatorRef(o)
    BY <1>4, CreatorNow, CreatorNext
  <2>2. MapRef(o)' = MapRef(o)
    BY <1>3, MapKept
  <2>3. CloseRef(o)' = CloseRef(o)
    BY <1>3, MapKept
  <2>4. ContextRefs(o)' = ContextRefs(o)
    BY <1>3, ContextsKept DEF SameTargets
  <2>5. QED
    BY <1>1, <1>2, <1>3, <2>1, <2>2, <2>3, <2>4 DEF RefsFor
<1>12. Kept(o)' /\ Done(o)'
  BY <1>1, <1>2, <1>3, <1>4, <1>9 DEF Kept, SameMap, Done
<1>13. Clean(o)'
  BY <1>1, <1>2, <1>3, <1>4 DEF Clean, SameTargets
<1>14. Found(o)'
  BY <1>1, <1>2, <1>3, <1>4, <1>5, ZenonT(30) DEF Entered, Done, CheckIsAllFinished, Found, Onward, DevicesOf,
     SameTargets
<1>15. Gate(o)'
  BY <1>1, <1>2, <1>3, <1>4, ZenonT(30) DEF Gate, SameFin, SameBusy
<1>16. Callbacks(o)'
  BY <1>1, <1>2, <1>3, <1>4, <1>5 DEF Callbacks, Onward, IsAutoSync, Kind, Events, SameFin
<1>17. Signals(o)' /\ Cut(o)'
  BY <1>1, <1>2, <1>3, <1>4, <1>5 DEF Signals, SameMap, Cut, Onward
<1>18. OpInv(o)'
  BY <1>10, <1>11, <1>12, <1>13, <1>14, <1>15, <1>16, <1>17, ZenonT(30) DEF OpInv
<1>19. QED
  BY <1>5, <1>6, <1>7, <1>8, <1>18, OneOp

LEMMA TargetQueuedStep ==
    ASSUME Counting, Inv, NEW o \in Ops, NEW d \in Devices, op' = op, queue' = [queue EXCEPT ![d] = Append(@, o)], AddSyncOperForContext(o, d)
    PROVE  Inv'
<1>1. /\ Base /\ DeviceInv /\ Fresh(o) /\ Entered(o) /\ RefsFor(o) /\ Kept(o) /\ Done(o) /\ Clean(o)
      /\ Found(o) /\ Gate(o) /\ Callbacks(o) /\ Signals(o) /\ Cut(o)
  BY DEF Inv, OpInv
<1>2. op \in [Ops -> OpRecord] /\ op' \in [Ops -> OpRecord]
  BY <1>1 DEF Base
<1>q. /\ queue' \in [Devices -> Seq(Ops)] /\ NoRepeat(queue'[d])
      /\ Targets(queue'[d]) = Targets(queue[d]) \union {o} /\ \A e \in Devices : e # d => queue'[e] = queue[e]
  <2>1. /\ queue \in [Devices -> Seq(Ops)] /\ o \notin Targets(queue[d]) /\ NoRepeat(queue[d])
        /\ queue' = [queue EXCEPT ![d] = Append(queue[d], o)]
    BY <1>1 DEF AddSyncOperForContext, Base, Clean, DeviceInv
  <2>2. /\ Append(queue[d], o) \in Seq(Ops) /\ NoRepeat(Append(queue[d], o))
        /\ Targets(Append(queue[d], o)) = Targets(queue[d]) \union {o}
    BY <2>1, AppendQueue
  <2>3. QED
    BY <2>1, <2>2
<1>3. /\ op' = op /\ pc[o] = "adding" /\ pc'[o] = "adding" /\ d \in todo[o]
      /\ todo'[o] = todo[o] \ {d} /\ current' = current /\ popped' = popped
      /\ o \in Targets(queue'[d]) /\ (\A e \in Devices : e # d => queue'[e] = queue[e])
      /\ SameMap(o) /\ SameFin(o)
  BY <1>1, <1>q DEF AddSyncOperForContext, Base, SameMap, SameFin, SameBusy, stopVars, sizeVars,
     syncerVars, contextVars
<1>4. /\ Created(o) /\ Early(o) /\ ~Ending(o) /\ pc[o] # "returned" /\ pc[o] # "finishing"
      /\ Created(o)' /\ Early(o)' /\ ~Ending(o)' /\ pc'[o] # "returned" /\ pc'[o] # "finishing"
  BY <1>3 DEF Created, Early, Ending
<1>5. Onward
  BY DEF AddSyncOperForContext, Onward, stopVars, sizeVars, syncerVars, contextVars
<1>6. \A x \in Ops : x # o => Same(x)
  BY <1>1, <1>q DEF AddSyncOperForContext, Base, Same, SameCall, SameMap, SameTargets, SameFin,
     SameBusy, stopVars, sizeVars, syncerVars, contextVars
<1>7. Base'
  BY <1>1, <1>q DEF AddSyncOperForContext, Base, stopVars, sizeVars, syncerVars, contextVars
<1>8. DeviceInv'
  BY <1>1, <1>q DEF AddSyncOperForContext, DeviceInv
<1>9. CheckIsAllFinished(o) => CheckIsAllFinished(o)'
  BY <1>2, <1>3, <1>5 DEF CheckIsAllFinished, Onward, DevicesOf
<1>10. Fresh(o)' /\ Entered(o)'
  BY <1>1, <1>2, <1>3, <1>4 DEF Fresh, SameMap, SameFin, SameBusy, Entered
<1>11. RefsFor(o)'
  <2>1. CreatorRef(o)' = CreatorRef(o)
    BY <1>4, CreatorNow, CreatorNext
  <2>2. MapRef(o)' = MapRef(o)
    BY <1>3, MapKept
  <2>3. CloseRef(o)' = CloseRef(o)
    BY <1>3, MapKept
  <2>4. ContextRefs(o)' = ContextRefs(o)
    BY <1>3, ContextsKept DEF SameTargets
  <2>5. QED
    BY <1>1, <1>2, <1>3, <2>1, <2>2, <2>3, <2>4 DEF RefsFor
<1>12. Kept(o)' /\ Done(o)'
  BY <1>1, <1>2, <1>3, <1>4, <1>9 DEF Kept, SameMap, Done
<1>13. Clean(o)'
  BY <1>1, <1>2, <1>3, <1>4 DEF Clean, Entered
<1>14. Found(o)'
  BY <1>1, <1>2, <1>3, <1>4, <1>5 DEF Found, Onward, DevicesOf
<1>15. Gate(o)'
  BY <1>1, <1>2, <1>3, <1>4 DEF Gate, SameFin, SameBusy
<1>16. Callbacks(o)'
  BY <1>1, <1>2, <1>3, <1>4, <1>5 DEF Callbacks, Onward, IsAutoSync, Kind, Events, SameFin
<1>17. Signals(o)' /\ Cut(o)'
  BY <1>1, <1>2, <1>3, <1>4, <1>5 DEF Signals, SameMap, Cut, Onward
<1>18. OpInv(o)'
  BY <1>10, <1>11, <1>12, <1>13, <1>14, <1>15, <1>16, <1>17, ZenonT(30) DEF OpInv
<1>19. QED
  BY <1>5, <1>6, <1>7, <1>8, <1>18, OneOp

LEMMA AddSyncOperForContextStep ==
    ASSUME Counting, Inv, NEW o \in Ops, NEW d \in Devices, AddSyncOperForContext(o, d)
    PROVE  Inv'
<1>1. \/ \E s \in Finals : op' = [op EXCEPT ![o] = WithStatus(@, {d}, s)] /\ queue' = queue
      \/ op' = op /\ queue' = [queue EXCEPT ![d] = Append(@, o)]
  BY DEF AddSyncOperForContext, Finals
<1>2. QED
  BY <1>1, FinishedAtOnceStep, TargetQueuedStep

-----------------------------------------------------------------------------
(* Finished, and RemoveSyncOperation.                                      *)
LEMMA AllSame ==
    ASSUME Inv, Base', DeviceInv', Onward, \A x \in Ops : Same(x)
    PROVE  Inv'
  BY Frame DEF Inv

(* The thread that was inside Finished goes on: only that thread lets go.  *)
Left(o) ==
    /\ fin' \in [Ops -> [by : Threads \union {Caller, Closer, Nobody},
                         at : {"no", "call", "remove", "removing"}]]
    /\ busy' \in [Threads -> Ops \union {None}]
    /\ fin'[o].at = "no" /\ (\A x \in Ops : x # o => fin'[x] = fin[x] /\ SameBusy(x))
    /\ \A t \in Threads : busy'[t] \in {None, busy[t]}

LEMMA OtherThreads == Caller \notin Threads /\ Closer \notin Threads /\ Nobody \notin Threads
  BY SMT DEF Caller, Closer, Nobody, Threads

LEMMA LeaveThread ==
    ASSUME Base, NEW o \in Ops, Gate(o), fin[o].at # "no", Leave(o)
    PROVE  Left(o)
<1>1. /\ fin \in [Ops -> [by : Threads \union {Caller, Closer, Nobody},
                        at : {"no", "call", "remove", "removing"}]]
      /\ busy \in [Threads -> Ops \union {None}]
      /\ fin' = [fin EXCEPT ![o] = [by |-> Nobody, at |-> "no"]]
      /\ busy' = [t \in Threads |-> IF t = fin[o].by THEN None ELSE busy[t]]
  BY DEF Base, Leave
<1>2. /\ fin' \in [Ops -> [by : Threads \union {Caller, Closer, Nobody},
                        at : {"no", "call", "remove", "removing"}]]
      /\ fin'[o].at = "no" /\ \A x \in Ops : x # o => fin'[x] = fin[x]
  BY <1>1
<1>3. \A t \in Threads : /\ t = fin[o].by => busy'[t] = None /\ busy[t] = o
                         /\ t # fin[o].by => busy'[t] = busy[t]
  <2>1. \A t \in Threads : t = fin[o].by => busy[t] = o
    BY OtherThreads DEF Gate
  <2>2. QED
    BY <1>1, <2>1
<1>4. busy' \in [Threads -> Ops \union {None}] /\ \A t \in Threads : busy'[t] \in {None, busy[t]}
  BY <1>1, <1>3
<1>5. \A x \in Ops : x # o => SameBusy(x)
  <2> SUFFICES ASSUME NEW x \in Ops, x # o, NEW t \in Threads PROVE busy'[t] = x <=> busy[t] = x
    BY DEF SameBusy
  <2>1. x # None
    BY SyncerAssumption DEF SyncerAssumption
  <2>2. QED
    BY <1>3, <2>1
<1>6. QED
  BY <1>2, <1>4, <1>5 DEF Left

LEMMA CalledBackStep ==
    ASSUME Counting, Inv, NEW o \in Ops, IsBlockSync(o), op' = [op EXCEPT ![o].calls = @ + 1], UserCallback(o)
    PROVE  Inv'
<1>1. /\ Base /\ DeviceInv /\ Fresh(o) /\ Entered(o) /\ RefsFor(o) /\ Kept(o) /\ Done(o) /\ Clean(o)
      /\ Found(o) /\ Gate(o) /\ Callbacks(o) /\ Signals(o) /\ Cut(o)
  BY DEF Inv, OpInv
<1>2. /\ op \in [Ops -> OpRecord] /\ op' \in [Ops -> OpRecord] /\ (\A x \in Ops : x # o => op'[x] = op[x])
      /\ op'[o].refs = op[o].refs /\ op'[o].killed = op[o].killed
      /\ op'[o].finished = op[o].finished /\ op'[o].status = op[o].status
      /\ op'[o].semaphore = op[o].semaphore /\ op'[o].pending = op[o].pending
      /\ op'[o].calls = op[o].calls + 1
  <2>1. op \in [Ops -> OpRecord] /\ op' = [op EXCEPT ![o].calls = @ + 1]
    BY <1>1 DEF Base, UserCallback
  <2>2. op' \in [Ops -> OpRecord]
    BY <2>1, SMT DEF OpRecord
  <2>3. /\ op'[o].refs = op[o].refs /\ op'[o].killed = op[o].killed
        /\ op'[o].finished = op[o].finished /\ op'[o].status = op[o].status
        /\ op'[o].semaphore = op[o].semaphore /\ op'[o].pending = op[o].pending
        /\ op'[o].calls = op[o].calls + 1
    BY <2>1 DEF OpRecord
  <2>4. QED
    BY <2>1, <2>2, <2>3
<1>f. /\ fin' \in [Ops -> [by : Threads \union {Caller, Closer, Nobody},
                     at : {"no", "call", "remove", "removing"}]]
      /\ fin'[o].by = fin[o].by /\ fin'[o].at = "remove" /\ \A x \in Ops : x # o => fin'[x] = fin[x]
  <2>1. /\ fin \in [Ops -> [by : Threads \union {Caller, Closer, Nobody},
                          at : {"no", "call", "remove", "removing"}]]
        /\ fin' = [fin EXCEPT ![o].at = "remove"]
    BY <1>1 DEF UserCallback, Base
  <2>2. fin' = [fin EXCEPT ![o] = [fin[o] EXCEPT !.at = "remove"]]
    BY <2>1
  <2>3. QED
    BY <2>1, <2>2
<1>3. /\ fin[o].at = "call" /\ fin'[o].at = "remove" /\ fin'[o].by = fin[o].by /\ op[o].finished
      /\ op[o].pending = 0 /\ op[o].calls = 0 /\ triggering' = triggering /\ SameCall(o)
      /\ SameMap(o) /\ SameTargets(o) /\ SameBusy(o)
  BY <1>1, <1>2, <1>f DEF UserCallback, Gate, Callbacks, SameCall, SameMap, SameTargets, SameBusy,
     stopVars, sizeVars, syncerVars, contextVars
<1>4. SamePhase(o) /\ todo'[o] = todo[o]
  BY <1>3, PhaseKept DEF SameCall
<1>5. Onward
  BY DEF UserCallback, Onward, stopVars, sizeVars, syncerVars, contextVars
<1>6. \A x \in Ops : x # o => Same(x)
  BY <1>1, <1>2, <1>f DEF UserCallback, Same, SameCall, SameMap, SameTargets, SameFin, SameBusy,
     stopVars, sizeVars, syncerVars, contextVars
<1>7. Base'
  BY <1>1, <1>2, <1>f DEF UserCallback, Base, stopVars, sizeVars, syncerVars, contextVars
<1>8. DeviceInv'
  BY <1>1 DEF UserCallback, DeviceInv, contextVars
<1>9. CheckIsAllFinished(o) => CheckIsAllFinished(o)'
  BY <1>2, <1>5 DEF CheckIsAllFinished, Onward, DevicesOf
<1>10. Fresh(o)' /\ Entered(o)'
  BY <1>1, <1>2, <1>3, <1>4 DEF Fresh, SamePhase, SameMap, SameTargets, SameBusy, Entered
<1>11. RefsFor(o)'
  <2>1. CreatorRef(o)' = CreatorRef(o)
    BY <1>4, CreatorKept
  <2>2. MapRef(o)' = MapRef(o)
    BY <1>3, MapKept
  <2>3. CloseRef(o)' = CloseRef(o)
    BY <1>3, MapKept
  <2>4. ContextRefs(o)' = ContextRefs(o)
    BY <1>3, ContextsKept DEF SameTargets
  <2>5. QED
    BY <1>1, <1>2, <1>3, <2>1, <2>2, <2>3, <2>4 DEF RefsFor
<1>12. Kept(o)' /\ Done(o)'
  BY <1>1, <1>2, <1>3, <1>4, <1>9 DEF Kept, SamePhase, SameMap, Done
<1>13. Clean(o)' /\ Found(o)'
  BY <1>1, <1>2, <1>3, <1>4, <1>5, TargetsFrame
<1>14. Gate(o)'
  <2>1. /\ Gate(o) /\ fin[o].at = "call" /\ fin'[o].by = fin[o].by /\ op'[o].finished
        /\ triggering' = triggering /\ SamePhase(o) /\ SameBusy(o)
    BY <1>1, <1>2, <1>3, <1>4
  <2>2. QED
    BY <2>1 DEF Gate, SamePhase, SameBusy
<1>15. Callbacks(o)'
  <2>1. op[o].calls = 0 /\ op'[o].calls = op[o].calls + 1
    BY <1>2, <1>3
  <2>2. op'[o].calls = 1
    BY <2>1, SMT
  <2>3. QED
    BY <1>2, <1>3, <2>2 DEF Callbacks
<1>16. Signals(o)' /\ Cut(o)'
  BY <1>1, <1>2, <1>3, <1>4, <1>5 DEF Signals, SamePhase, SameMap, Cut, Onward
<1>17. OpInv(o)'
  BY <1>10, <1>11, <1>12, <1>13, <1>14, <1>15, <1>16, ZenonT(30) DEF OpInv
<1>18. QED
  BY <1>5, <1>6, <1>7, <1>8, <1>17, OneOp

LEMMA CallbackQueuedStep ==
    ASSUME Counting, Inv, NEW o \in Ops, IsQueued(o), op' = [op EXCEPT ![o].pending = @ + 1, ![o].refs = @ + 1], UserCallback(o)
    PROVE  Inv'
<1>1. /\ Base /\ DeviceInv /\ Fresh(o) /\ Entered(o) /\ RefsFor(o) /\ Kept(o) /\ Done(o) /\ Clean(o)
      /\ Found(o) /\ Gate(o) /\ Callbacks(o) /\ Signals(o) /\ Cut(o)
  BY DEF Inv, OpInv
<1>2. /\ op \in [Ops -> OpRecord] /\ op' \in [Ops -> OpRecord] /\ (\A x \in Ops : x # o => op'[x] = op[x])
      /\ op'[o].refs = op[o].refs + 1 /\ op'[o].killed = op[o].killed
      /\ op'[o].finished = op[o].finished /\ op'[o].status = op[o].status
      /\ op'[o].semaphore = op[o].semaphore /\ op'[o].pending = op[o].pending + 1
      /\ op'[o].calls = op[o].calls
  <2>1. op \in [Ops -> OpRecord] /\ op' = [op EXCEPT ![o].pending = @ + 1, ![o].refs = @ + 1]
    BY <1>1 DEF Base, UserCallback
  <2>2. op' \in [Ops -> OpRecord]
    BY <2>1, SMT DEF OpRecord
  <2>3. /\ op'[o].refs = op[o].refs + 1 /\ op'[o].killed = op[o].killed
        /\ op'[o].finished = op[o].finished /\ op'[o].status = op[o].status
        /\ op'[o].semaphore = op[o].semaphore /\ op'[o].pending = op[o].pending + 1
        /\ op'[o].calls = op[o].calls
    BY <2>1, ZenonT(30) DEF OpRecord
  <2>4. QED
    BY <2>1, <2>2, <2>3
<1>f. /\ fin' \in [Ops -> [by : Threads \union {Caller, Closer, Nobody},
                     at : {"no", "call", "remove", "removing"}]]
      /\ fin'[o].by = fin[o].by /\ fin'[o].at = "remove" /\ \A x \in Ops : x # o => fin'[x] = fin[x]
  <2>1. /\ fin \in [Ops -> [by : Threads \union {Caller, Closer, Nobody},
                          at : {"no", "call", "remove", "removing"}]]
        /\ fin' = [fin EXCEPT ![o].at = "remove"]
    BY <1>1 DEF UserCallback, Base
  <2>2. fin' = [fin EXCEPT ![o] = [fin[o] EXCEPT !.at = "remove"]]
    BY <2>1
  <2>3. QED
    BY <2>1, <2>2
<1>3. /\ fin[o].at = "call" /\ fin'[o].at = "remove" /\ fin'[o].by = fin[o].by /\ op[o].finished
      /\ op[o].pending = 0 /\ op[o].calls = 0 /\ triggering' = triggering /\ SameCall(o)
      /\ SameMap(o) /\ SameTargets(o) /\ SameBusy(o)
  BY <1>1, <1>2, <1>f DEF UserCallback, Gate, Callbacks, SameCall, SameMap, SameTargets, SameBusy,
     stopVars, sizeVars, syncerVars, contextVars
<1>4. SamePhase(o) /\ todo'[o] = todo[o]
  BY <1>3, PhaseKept DEF SameCall
<1>5. Onward
  BY DEF UserCallback, Onward, stopVars, sizeVars, syncerVars, contextVars
<1>6. \A x \in Ops : x # o => Same(x)
  BY <1>1, <1>2, <1>f DEF UserCallback, Same, SameCall, SameMap, SameTargets, SameFin, SameBusy,
     stopVars, sizeVars, syncerVars, contextVars
<1>7. Base'
  BY <1>1, <1>2, <1>f DEF UserCallback, Base, stopVars, sizeVars, syncerVars, contextVars
<1>8. DeviceInv'
  BY <1>1 DEF UserCallback, DeviceInv, contextVars
<1>9. CheckIsAllFinished(o) => CheckIsAllFinished(o)'
  BY <1>2, <1>5 DEF CheckIsAllFinished, Onward, DevicesOf
<1>10. Fresh(o)' /\ Entered(o)'
  BY <1>1, <1>2, <1>3, <1>4 DEF Fresh, SamePhase, SameMap, SameTargets, SameBusy, Entered
<1>11. RefsFor(o)'
  <2>1. CreatorRef(o)' = CreatorRef(o)
    BY <1>4, CreatorKept
  <2>2. MapRef(o)' = MapRef(o)
    BY <1>3, MapKept
  <2>3. CloseRef(o)' = CloseRef(o)
    BY <1>3, MapKept
  <2>4. ContextRefs(o)' = ContextRefs(o)
    BY <1>3, ContextsKept DEF SameTargets
  <2>5. /\ op[o].refs \in Int /\ op[o].pending \in Int /\ CreatorRef(o) \in Int /\ MapRef(o) \in Int
        /\ ContextRefs(o) \in Nat /\ CloseRef(o) \in Int
    BY <1>2, CreatorNow, MapNow, ContextsNow, CloseNow DEF OpRecord
  <2>6. /\ op[o].refs = CreatorRef(o) + MapRef(o) + ContextRefs(o) + CloseRef(o) + op[o].pending
        /\ op'[o].refs = op[o].refs + 1 /\ op'[o].pending = op[o].pending + 1
    BY <1>1, <1>2, <1>3 DEF RefsFor
  <2>7. op'[o].refs = CreatorRef(o)' + MapRef(o)' + ContextRefs(o)' + CloseRef(o)' + op'[o].pending
    BY <2>1, <2>2, <2>3, <2>4, <2>5, <2>6, SMT
  <2>8. QED
    BY <2>7 DEF RefsFor
<1>12. Kept(o)' /\ Done(o)'
  BY <1>1, <1>2, <1>3, <1>4, <1>9 DEF Kept, SamePhase, SameMap, Done
<1>13. Clean(o)' /\ Found(o)'
  BY <1>1, <1>2, <1>3, <1>4, <1>5, TargetsFrame
<1>14. Gate(o)'
  <2>1. /\ Gate(o) /\ fin[o].at = "call" /\ fin'[o].by = fin[o].by /\ op'[o].finished
        /\ triggering' = triggering /\ SamePhase(o) /\ SameBusy(o)
    BY <1>1, <1>2, <1>3, <1>4
  <2>2. QED
    BY <2>1 DEF Gate, SamePhase, SameBusy
<1>15. Callbacks(o)'
  <2>1. op[o].pending = 0 /\ op'[o].pending = op[o].pending + 1
    BY <1>2, <1>3
  <2>2. op'[o].pending = 1
    BY <2>1, SMT
  <2>3. QED
    BY <1>2, <1>3, <2>2 DEF Callbacks
<1>16. Signals(o)' /\ Cut(o)'
  BY <1>1, <1>2, <1>3, <1>4, <1>5 DEF Signals, SamePhase, SameMap, Cut, Onward
<1>17. OpInv(o)'
  BY <1>10, <1>11, <1>12, <1>13, <1>14, <1>15, <1>16, ZenonT(30) DEF OpInv
<1>18. QED
  BY <1>5, <1>6, <1>7, <1>8, <1>17, OneOp

LEMMA NoCallbackStep ==
    ASSUME Counting, Inv, NEW o \in Ops, IsAutoSync(o) \/ "schedule" \in Events, op' = op, UserCallback(o)
    PROVE  Inv'
<1>1. /\ Base /\ DeviceInv /\ Fresh(o) /\ Entered(o) /\ RefsFor(o) /\ Kept(o) /\ Done(o) /\ Clean(o)
      /\ Found(o) /\ Gate(o) /\ Callbacks(o) /\ Signals(o) /\ Cut(o)
  BY DEF Inv, OpInv
<1>2. op \in [Ops -> OpRecord] /\ op' \in [Ops -> OpRecord]
  BY <1>1 DEF Base
<1>f. /\ fin' \in [Ops -> [by : Threads \union {Caller, Closer, Nobody},
                     at : {"no", "call", "remove", "removing"}]]
      /\ fin'[o].by = fin[o].by /\ fin'[o].at = "remove" /\ \A x \in Ops : x # o => fin'[x] = fin[x]
  <2>1. /\ fin \in [Ops -> [by : Threads \union {Caller, Closer, Nobody},
                          at : {"no", "call", "remove", "removing"}]]
        /\ fin' = [fin EXCEPT ![o].at = "remove"]
    BY <1>1 DEF UserCallback, Base
  <2>2. fin' = [fin EXCEPT ![o] = [fin[o] EXCEPT !.at = "remove"]]
    BY <2>1
  <2>3. QED
    BY <2>1, <2>2
<1>3. /\ op' = op /\ fin[o].at = "call" /\ fin'[o].at = "remove" /\ fin'[o].by = fin[o].by
      /\ op[o].finished /\ op[o].pending = 0 /\ op[o].calls = 0 /\ triggering' = triggering
      /\ SameCall(o) /\ SameMap(o) /\ SameTargets(o) /\ SameBusy(o)
  BY <1>1, <1>2, <1>f DEF UserCallback, Gate, Callbacks, SameCall, SameMap, SameTargets, SameBusy,
     stopVars, sizeVars, syncerVars, contextVars
<1>4. SamePhase(o) /\ todo'[o] = todo[o]
  BY <1>3, PhaseKept DEF SameCall
<1>5. Onward
  BY DEF UserCallback, Onward, stopVars, sizeVars, syncerVars, contextVars
<1>6. \A x \in Ops : x # o => Same(x)
  BY <1>1, <1>2, <1>f DEF UserCallback, Same, SameCall, SameMap, SameTargets, SameFin, SameBusy,
     stopVars, sizeVars, syncerVars, contextVars
<1>7. Base'
  BY <1>1, <1>2, <1>f DEF UserCallback, Base, stopVars, sizeVars, syncerVars, contextVars
<1>8. DeviceInv'
  BY <1>1 DEF UserCallback, DeviceInv, contextVars
<1>9. CheckIsAllFinished(o) => CheckIsAllFinished(o)'
  BY <1>2, <1>3, <1>5 DEF CheckIsAllFinished, Onward, DevicesOf
<1>10. Fresh(o)' /\ Entered(o)'
  BY <1>1, <1>2, <1>3, <1>4 DEF Fresh, SamePhase, SameMap, SameTargets, SameBusy, Entered
<1>11. RefsFor(o)'
  <2>1. CreatorRef(o)' = CreatorRef(o)
    BY <1>4, CreatorKept
  <2>2. MapRef(o)' = MapRef(o)
    BY <1>3, MapKept
  <2>3. CloseRef(o)' = CloseRef(o)
    BY <1>3, MapKept
  <2>4. ContextRefs(o)' = ContextRefs(o)
    BY <1>3, ContextsKept DEF SameTargets
  <2>5. QED
    BY <1>1, <1>2, <1>3, <2>1, <2>2, <2>3, <2>4 DEF RefsFor
<1>12. Kept(o)' /\ Done(o)'
  BY <1>1, <1>2, <1>3, <1>4, <1>9 DEF Kept, SamePhase, SameMap, Done
<1>13. Clean(o)' /\ Found(o)'
  BY <1>1, <1>2, <1>3, <1>4, <1>5, TargetsFrame
<1>14. Gate(o)'
  <2>1. /\ Gate(o) /\ fin[o].at = "call" /\ fin'[o].by = fin[o].by /\ op'[o].finished
        /\ triggering' = triggering /\ SamePhase(o) /\ SameBusy(o)
    BY <1>1, <1>2, <1>3, <1>4
  <2>2. QED
    BY <2>1 DEF Gate, SamePhase, SameBusy
<1>15. Callbacks(o)'
  BY <1>1, <1>2, <1>3, <1>5 DEF Callbacks, Onward, IsAutoSync, Kind, Events
<1>16. Signals(o)' /\ Cut(o)'
  BY <1>1, <1>2, <1>3, <1>4, <1>5 DEF Signals, SamePhase, SameMap, Cut, Onward
<1>17. OpInv(o)'
  BY <1>10, <1>11, <1>12, <1>13, <1>14, <1>15, <1>16, ZenonT(30) DEF OpInv
<1>18. QED
  BY <1>5, <1>6, <1>7, <1>8, <1>17, OneOp

LEMMA UserCallbackStep ==
    ASSUME Counting, Inv, NEW o \in Ops, UserCallback(o)
    PROVE  Inv'
<1>1. \/ IsBlockSync(o) /\ op' = [op EXCEPT ![o].calls = @ + 1]
      \/ IsQueued(o) /\ op' = [op EXCEPT ![o].pending = @ + 1, ![o].refs = @ + 1]
      \/ (IsAutoSync(o) \/ "schedule" \in Events) /\ op' = op
  BY DEF UserCallback
<1>2. QED
  BY <1>1, CalledBackStep, CallbackQueuedStep, NoCallbackStep

LEMMA QueuedCallbackStep ==
    ASSUME Counting, Inv, NEW o \in Ops, QueuedCallback(o)
    PROVE  Inv'
<1>1. /\ Base /\ DeviceInv /\ Fresh(o) /\ Entered(o) /\ RefsFor(o) /\ Kept(o) /\ Done(o) /\ Clean(o)
      /\ Found(o) /\ Gate(o) /\ Callbacks(o) /\ Signals(o) /\ Cut(o)
  BY DEF Inv, OpInv
<1>2. /\ op \in [Ops -> OpRecord] /\ op' \in [Ops -> OpRecord] /\ (\A x \in Ops : x # o => op'[x] = op[x])
      /\ op'[o].refs = op[o].refs - 1 /\ op'[o].killed = op[o].killed
      /\ op'[o].finished = op[o].finished /\ op'[o].status = op[o].status
      /\ op'[o].semaphore = op[o].semaphore /\ op'[o].pending = op[o].pending - 1
      /\ op'[o].calls = op[o].calls + 1
  <2>1. op \in [Ops -> OpRecord] /\ op' = [op EXCEPT ![o].pending = @ - 1, ![o].calls = @ + 1, ![o].refs = @ - 1]
    BY <1>1 DEF Base, QueuedCallback
  <2>2. op' \in [Ops -> OpRecord]
    BY <2>1, SMT DEF OpRecord
  <2>3. /\ op'[o].refs = op[o].refs - 1 /\ op'[o].killed = op[o].killed
        /\ op'[o].finished = op[o].finished /\ op'[o].status = op[o].status
        /\ op'[o].semaphore = op[o].semaphore /\ op'[o].pending = op[o].pending - 1
        /\ op'[o].calls = op[o].calls + 1
    BY <2>1, ZenonT(30) DEF OpRecord
  <2>4. QED
    BY <2>1, <2>2, <2>3
<1>c. op[o].pending = 1 /\ op[o].calls = 0 /\ op[o].finished /\ fin[o].at # "call"
  <2>1. op[o].pending > 0 /\ op[o].pending \in {0, 1}
    BY <1>1 DEF QueuedCallback, Callbacks
  <2>2. op[o].pending = 1 /\ op[o].pending # 0
    BY <2>1, SMT
  <2>3. QED
    BY <1>1, <2>2 DEF Callbacks
<1>3. /\ op[o].pending = 1 /\ op[o].calls = 0 /\ op[o].finished /\ fin[o].at # "call"
      /\ SameCall(o) /\ SameMap(o) /\ SameTargets(o) /\ SameFin(o)
  BY <1>1, <1>c DEF QueuedCallback, SameCall, SameMap, SameTargets, SameFin, SameBusy, stopVars,
     sizeVars, syncerVars, contextVars
<1>4. SamePhase(o) /\ todo'[o] = todo[o]
  BY <1>3, PhaseKept DEF SameCall
<1>5. Onward
  BY DEF QueuedCallback, Onward, stopVars, sizeVars, syncerVars, contextVars
<1>6. \A x \in Ops : x # o => Same(x)
  BY <1>1, <1>2 DEF QueuedCallback, Base, Same, SameCall, SameMap, SameTargets, SameFin, SameBusy,
     stopVars, sizeVars, syncerVars, contextVars
<1>7. Base'
  BY <1>1, <1>2, <1>3 DEF QueuedCallback, Base, stopVars, sizeVars, syncerVars, contextVars
<1>8. DeviceInv'
  BY <1>1 DEF QueuedCallback, DeviceInv, contextVars
<1>9. CheckIsAllFinished(o) => CheckIsAllFinished(o)'
  BY <1>2, <1>5 DEF CheckIsAllFinished, Onward, DevicesOf
<1>10. Fresh(o)' /\ Entered(o)'
  BY <1>1, <1>2, <1>3, <1>4 DEF Fresh, SamePhase, SameMap, SameTargets, SameFin, SameBusy, Entered
<1>11. RefsFor(o)'
  <2>1. CreatorRef(o)' = CreatorRef(o)
    BY <1>4, CreatorKept
  <2>2. MapRef(o)' = MapRef(o)
    BY <1>3, MapKept
  <2>3. CloseRef(o)' = CloseRef(o)
    BY <1>3, MapKept
  <2>4. ContextRefs(o)' = ContextRefs(o)
    BY <1>3, ContextsKept DEF SameTargets
  <2>5. /\ op[o].refs \in Int /\ op[o].pending \in Int /\ CreatorRef(o) \in Int /\ MapRef(o) \in Int
        /\ ContextRefs(o) \in Nat /\ CloseRef(o) \in Int
    BY <1>2, CreatorNow, MapNow, ContextsNow, CloseNow DEF OpRecord
  <2>6. /\ op[o].refs = CreatorRef(o) + MapRef(o) + ContextRefs(o) + CloseRef(o) + op[o].pending
        /\ op'[o].refs = op[o].refs - 1 /\ op'[o].pending = op[o].pending - 1
    BY <1>1, <1>2, <1>3 DEF RefsFor
  <2>7. op'[o].refs = CreatorRef(o)' + MapRef(o)' + ContextRefs(o)' + CloseRef(o)' + op'[o].pending
    BY <2>1, <2>2, <2>3, <2>4, <2>5, <2>6, SMT
  <2>8. QED
    BY <2>7 DEF RefsFor
<1>12. Kept(o)' /\ Done(o)'
  BY <1>1, <1>2, <1>3, <1>4, <1>9 DEF Kept, SamePhase, SameMap, Done
<1>13. Clean(o)' /\ Found(o)'
  BY <1>1, <1>2, <1>3, <1>4, <1>5, TargetsFrame
<1>14. Gate(o)'
  BY <1>1, <1>2, <1>3, <1>4 DEF Gate, SamePhase, SameFin, SameBusy
<1>15. Callbacks(o)'
  <2>1. /\ op[o].pending = 1 /\ op'[o].pending = op[o].pending - 1
        /\ op[o].calls = 0 /\ op'[o].calls = op[o].calls + 1
    BY <1>2, <1>3
  <2>2. op'[o].pending = 0 /\ op'[o].calls = 1
    BY <2>1, SMT
  <2>3. QED
    BY <1>2, <1>3, <2>2 DEF Callbacks, SameFin
<1>16. Signals(o)' /\ Cut(o)'
  BY <1>1, <1>2, <1>3, <1>4, <1>5 DEF Signals, SamePhase, SameMap, Cut, Onward
<1>17. OpInv(o)'
  BY <1>10, <1>11, <1>12, <1>13, <1>14, <1>15, <1>16, ZenonT(30) DEF OpInv
<1>18. QED
  BY <1>5, <1>6, <1>7, <1>8, <1>17, OneOp

LEMMA TakenOutStep ==
    ASSUME Counting, Inv, NEW o \in Ops, o \in syncOperationMap, OnSyncFinished(o)
    PROVE  Inv'
<1>1. /\ Base /\ DeviceInv /\ Fresh(o) /\ Entered(o) /\ RefsFor(o) /\ Kept(o) /\ Done(o) /\ Clean(o)
      /\ Found(o) /\ Gate(o) /\ Callbacks(o) /\ Signals(o) /\ Cut(o)
  BY DEF Inv, OpInv
<1>2. op \in [Ops -> OpRecord] /\ op' \in [Ops -> OpRecord]
  BY <1>1 DEF Base, OnSyncFinished
<1>f. /\ fin' \in [Ops -> [by : Threads \union {Caller, Closer, Nobody},
                     at : {"no", "call", "remove", "removing"}]]
      /\ fin'[o].by = fin[o].by /\ fin'[o].at = "removing" /\ \A x \in Ops : x # o => fin'[x] = fin[x]
  <2>1. /\ fin \in [Ops -> [by : Threads \union {Caller, Closer, Nobody},
                          at : {"no", "call", "remove", "removing"}]]
        /\ fin' = [fin EXCEPT ![o].at = "removing"]
    BY <1>1 DEF OnSyncFinished, Base
  <2>2. fin' = [fin EXCEPT ![o] = [fin[o] EXCEPT !.at = "removing"]]
    BY <2>1
  <2>3. QED
    BY <2>1, <2>2
<1>g. op[o].finished
  BY <1>1 DEF OnSyncFinished, Gate
<1>3. /\ op' = op /\ fin[o].at = "remove" /\ fin'[o].at = "removing" /\ fin'[o].by = fin[o].by
      /\ op[o].finished /\ o \in syncOperationMap /\ o \notin syncOperationMap'
      /\ rem'[o] = "release" /\ collected' = collected /\ triggering' = triggering /\ SameCall(o)
      /\ SameTargets(o) /\ SameBusy(o)
  BY <1>1, <1>f, <1>g DEF OnSyncFinished, Base, SameCall, SameTargets, SameBusy, stopVars,
     sizeVars, syncerVars, contextVars
<1>4. SamePhase(o) /\ todo'[o] = todo[o]
  BY <1>3, PhaseKept DEF SameCall
<1>5. Onward
  BY DEF OnSyncFinished, Onward, stopVars, sizeVars, syncerVars, contextVars
<1>6. \A x \in Ops : x # o => Same(x)
  BY <1>1, <1>f DEF OnSyncFinished, Base, Same, SameCall, SameMap, SameTargets, SameFin, SameBusy,
     stopVars, sizeVars, syncerVars, contextVars
<1>7. Base'
  BY <1>1, <1>f, ZenonT(30) DEF OnSyncFinished, Base, stopVars, sizeVars, syncerVars, contextVars
<1>8. DeviceInv'
  BY <1>1 DEF OnSyncFinished, DeviceInv, contextVars
<1>9. CheckIsAllFinished(o) => CheckIsAllFinished(o)'
  BY <1>2, <1>3, <1>5 DEF CheckIsAllFinished, Onward, DevicesOf
<1>10. Fresh(o)' /\ Entered(o)'
  BY <1>1, <1>2, <1>3, <1>4 DEF Fresh, SamePhase, SameTargets, SameBusy, Entered
<1>11. RefsFor(o)'
  <2>1. CreatorRef(o)' = CreatorRef(o)
    BY <1>4, CreatorKept
  <2>2. MapRef(o)' = MapRef(o)
    BY <1>3, MapNow, MapNext
  <2>3. CloseRef(o)' = CloseRef(o)
    BY <1>3, CloseNow, CloseNext
  <2>4. ContextRefs(o)' = ContextRefs(o)
    BY <1>3, ContextsKept DEF SameTargets
  <2>5. QED
    BY <1>1, <1>2, <1>3, <2>1, <2>2, <2>3, <2>4 DEF RefsFor
<1>12. Kept(o)' /\ Done(o)'
  BY <1>1, <1>2, <1>3, <1>4, <1>9 DEF Kept, SamePhase, Done
<1>13. Clean(o)' /\ Found(o)'
  BY <1>1, <1>2, <1>3, <1>4, <1>5, TargetsFrame
<1>14. Gate(o)'
  <2>1. /\ Gate(o) /\ fin[o].at = "remove" /\ fin'[o].by = fin[o].by /\ op'[o].finished
        /\ triggering' = triggering /\ SamePhase(o) /\ SameBusy(o)
    BY <1>1, <1>2, <1>3, <1>4
  <2>2. QED
    BY <2>1 DEF Gate, SamePhase, SameBusy
<1>15. Callbacks(o)'
  BY <1>1, <1>2, <1>3, <1>4, <1>5 DEF Callbacks, Onward, IsAutoSync, Kind, Events
<1>16. Signals(o)' /\ Cut(o)'
  BY <1>1, <1>2, <1>3, <1>4, <1>5 DEF Signals, SamePhase, Cut, Onward
<1>17. OpInv(o)'
  BY <1>10, <1>11, <1>12, <1>13, <1>14, <1>15, <1>16, ZenonT(30) DEF OpInv
<1>18. QED
  BY <1>5, <1>6, <1>7, <1>8, <1>17, OneOp

LEMMA NothingToTakeOutStep ==
    ASSUME Counting, Inv, NEW o \in Ops, o \notin syncOperationMap, OnSyncFinished(o)
    PROVE  Inv'
<1>1. /\ Base /\ DeviceInv /\ Fresh(o) /\ Entered(o) /\ RefsFor(o) /\ Kept(o) /\ Done(o) /\ Clean(o)
      /\ Found(o) /\ Gate(o) /\ Callbacks(o) /\ Signals(o) /\ Cut(o)
  BY DEF Inv, OpInv
<1>2. op \in [Ops -> OpRecord] /\ op' \in [Ops -> OpRecord]
  BY <1>1 DEF Base, OnSyncFinished
<1>f. Left(o) /\ None \notin Ops
  BY <1>1, LeaveThread, SyncerAssumption DEF OnSyncFinished, SyncerAssumption
<1>3. /\ op' = op /\ fin[o].at = "remove" /\ fin'[o].at = "no" /\ op[o].finished
      /\ (\A t \in Threads : busy'[t] = o => busy[t] = o) /\ SameCall(o) /\ SameMap(o)
      /\ SameTargets(o)
  BY <1>1, <1>f DEF OnSyncFinished, Left, Gate, SameCall, SameMap, SameTargets, stopVars,
     sizeVars, syncerVars, contextVars
<1>4. SamePhase(o) /\ todo'[o] = todo[o]
  BY <1>3, PhaseKept DEF SameCall
<1>5. Onward
  BY DEF OnSyncFinished, Onward, stopVars, sizeVars, syncerVars, contextVars
<1>6. \A x \in Ops : x # o => Same(x)
  BY <1>1, <1>f DEF OnSyncFinished, Left, Same, SameCall, SameMap, SameTargets, SameFin, stopVars,
     sizeVars, syncerVars, contextVars
<1>7. Base'
  BY <1>1, <1>f, ZenonT(30) DEF OnSyncFinished, Left, Base, stopVars, sizeVars, syncerVars, contextVars
<1>8. DeviceInv'
  BY <1>1, <1>f DEF OnSyncFinished, Left, DeviceInv, Threads
<1>9. CheckIsAllFinished(o) => CheckIsAllFinished(o)'
  BY <1>2, <1>3, <1>5 DEF CheckIsAllFinished, Onward, DevicesOf
<1>10. Fresh(o)' /\ Entered(o)'
  BY <1>1, <1>2, <1>3, <1>4 DEF Fresh, SamePhase, SameMap, SameTargets, Entered
<1>11. RefsFor(o)'
  <2>1. CreatorRef(o)' = CreatorRef(o)
    BY <1>4, CreatorKept
  <2>2. MapRef(o)' = MapRef(o)
    BY <1>3, MapKept
  <2>3. CloseRef(o)' = CloseRef(o)
    BY <1>3, MapKept
  <2>4. ContextRefs(o)' = ContextRefs(o)
    BY <1>3, ContextsKept DEF SameTargets
  <2>5. QED
    BY <1>1, <1>2, <1>3, <2>1, <2>2, <2>3, <2>4 DEF RefsFor
<1>12. Kept(o)' /\ Done(o)'
  BY <1>1, <1>2, <1>3, <1>4, <1>9 DEF Kept, SamePhase, SameMap, Done
<1>13. Clean(o)' /\ Found(o)'
  BY <1>1, <1>2, <1>3, <1>4, <1>5, TargetsFrame
<1>14. Gate(o)'
  BY <1>1, <1>2, <1>3, <1>4 DEF Gate, SamePhase
<1>15. Callbacks(o)'
  BY <1>1, <1>2, <1>3, <1>4, <1>5 DEF Callbacks, Onward, IsAutoSync, Kind, Events
<1>16. Signals(o)' /\ Cut(o)'
  BY <1>1, <1>2, <1>3, <1>4, <1>5 DEF Signals, SamePhase, SameMap, Cut, Onward
<1>17. OpInv(o)'
  BY <1>10, <1>11, <1>12, <1>13, <1>14, <1>15, <1>16, ZenonT(30) DEF OpInv
<1>18. QED
  BY <1>5, <1>6, <1>7, <1>8, <1>17, OneOp

LEMMA OnSyncFinishedStep ==
    ASSUME Counting, Inv, NEW o \in Ops, OnSyncFinished(o)
    PROVE  Inv'
  BY TakenOutStep, NothingToTakeOutStep

LEMMA WaiterNotifiedStep ==
    ASSUME Counting, Inv, NEW o \in Ops, IsBlockSync(o), ReleaseRemoved(o)
    PROVE  Inv'
<1>1. /\ Base /\ DeviceInv /\ Fresh(o) /\ Entered(o) /\ RefsFor(o) /\ Kept(o) /\ Done(o) /\ Clean(o)
      /\ Found(o) /\ Gate(o) /\ Callbacks(o) /\ Signals(o) /\ Cut(o)
  BY DEF Inv, OpInv
<1>2. /\ op \in [Ops -> OpRecord] /\ op' \in [Ops -> OpRecord] /\ (\A x \in Ops : x # o => op'[x] = op[x])
      /\ op'[o].refs = op[o].refs /\ op'[o].killed = op[o].killed
      /\ op'[o].finished = op[o].finished /\ op'[o].status = op[o].status
      /\ op'[o].semaphore = op[o].semaphore + 1 /\ op'[o].pending = op[o].pending
      /\ op'[o].calls = op[o].calls
  <2>1. op \in [Ops -> OpRecord] /\ op' = [op EXCEPT ![o].semaphore = @ + 1]
    BY <1>1 DEF Base, ReleaseRemoved, Notified
  <2>2. op' \in [Ops -> OpRecord]
    BY <2>1, SMT DEF OpRecord
  <2>3. /\ op'[o].refs = op[o].refs /\ op'[o].killed = op[o].killed
        /\ op'[o].finished = op[o].finished /\ op'[o].status = op[o].status
        /\ op'[o].semaphore = op[o].semaphore + 1 /\ op'[o].pending = op[o].pending
        /\ op'[o].calls = op[o].calls
    BY <2>1 DEF OpRecord
  <2>4. QED
    BY <2>1, <2>2, <2>3
<1>3. /\ rem[o] = "release" /\ rem'[o] = "kill" /\ syncOperationMap' = syncOperationMap
      /\ collected' = collected /\ SameCall(o) /\ SameTargets(o) /\ SameFin(o)
  BY <1>1 DEF ReleaseRemoved, Base, SameCall, SameTargets, SameFin, SameBusy, stopVars, sizeVars,
     syncerVars, contextVars
<1>4. SamePhase(o) /\ todo'[o] = todo[o]
  BY <1>3, PhaseKept DEF SameCall
<1>5. Onward
  BY DEF ReleaseRemoved, Onward, stopVars, sizeVars, syncerVars, contextVars
<1>6. \A x \in Ops : x # o => Same(x)
  BY <1>1, <1>2 DEF ReleaseRemoved, Base, Same, SameCall, SameMap, SameTargets, SameFin, SameBusy,
     stopVars, sizeVars, syncerVars, contextVars
<1>7. Base'
  <2>1. queuedManualSyncSize' \in {queuedManualSyncSize, queuedManualSyncSize - 1} /\ queuedManualSyncSize \in Int
    BY <1>1 DEF ReleaseRemoved, SubQueuedSyncSize, Base
  <2>2. queuedManualSyncSize' \in Int
    BY <2>1, SMT
  <2>3. QED
    BY <1>1, <1>2, <2>2 DEF ReleaseRemoved, Base, stopVars, syncerVars, contextVars
<1>8. DeviceInv'
  BY <1>1 DEF ReleaseRemoved, DeviceInv, contextVars
<1>9. CheckIsAllFinished(o) => CheckIsAllFinished(o)'
  BY <1>2, <1>5 DEF CheckIsAllFinished, Onward, DevicesOf
<1>10. Fresh(o)' /\ Entered(o)'
  BY <1>1, <1>2, <1>3, <1>4 DEF Fresh, SamePhase, SameTargets, SameFin, SameBusy, Entered
<1>11. RefsFor(o)'
  <2>1. CreatorRef(o)' = CreatorRef(o)
    BY <1>4, CreatorKept
  <2>2. MapRef(o)' = MapRef(o)
    BY <1>3, MapNow, MapNext
  <2>3. CloseRef(o)' = CloseRef(o)
    BY <1>3, CloseNow, CloseNext
  <2>4. ContextRefs(o)' = ContextRefs(o)
    BY <1>3, ContextsKept DEF SameTargets
  <2>5. QED
    BY <1>1, <1>2, <1>3, <2>1, <2>2, <2>3, <2>4 DEF RefsFor
<1>12. Kept(o)' /\ Done(o)'
  BY <1>1, <1>2, <1>3, <1>4, <1>9 DEF Kept, SamePhase, Done
<1>13. Clean(o)' /\ Found(o)'
  BY <1>1, <1>2, <1>3, <1>4, <1>5, TargetsFrame
<1>14. Gate(o)'
  BY <1>1, <1>2, <1>3, <1>4 DEF Gate, SamePhase, SameFin, SameBusy
<1>15. Callbacks(o)'
  BY <1>1, <1>2, <1>3, <1>4, <1>5 DEF Callbacks, Onward, IsAutoSync, Kind, Events, SameFin
<1>16. Signals(o)'
  <2>1. op[o].semaphore = 0 /\ op'[o].semaphore = op[o].semaphore + 1
    BY <1>1, <1>2, <1>3 DEF Signals
  <2>2. op'[o].semaphore = 1
    BY <2>1, SMT
  <2>3. QED
    BY <1>1, <1>3, <1>4, <2>2 DEF Signals, Entered, SamePhase
<1>17. Cut(o)'
  BY <1>1, <1>2, <1>3, <1>4, <1>5 DEF Cut, Onward, SamePhase
<1>18. OpInv(o)'
  BY <1>10, <1>11, <1>12, <1>13, <1>14, <1>15, <1>16, <1>17, ZenonT(30) DEF OpInv
<1>19. QED
  BY <1>5, <1>6, <1>7, <1>8, <1>18, OneOp

LEMMA NobodyNotifiedStep ==
    ASSUME Counting, Inv, NEW o \in Ops, ~IsBlockSync(o), ReleaseRemoved(o)
    PROVE  Inv'
<1>1. /\ Base /\ DeviceInv /\ Fresh(o) /\ Entered(o) /\ RefsFor(o) /\ Kept(o) /\ Done(o) /\ Clean(o)
      /\ Found(o) /\ Gate(o) /\ Callbacks(o) /\ Signals(o) /\ Cut(o)
  BY DEF Inv, OpInv
<1>2. op \in [Ops -> OpRecord] /\ op' \in [Ops -> OpRecord]
  BY <1>1 DEF Base, ReleaseRemoved, Notified
<1>3. /\ op' = op /\ rem[o] = "release" /\ rem'[o] = "kill"
      /\ syncOperationMap' = syncOperationMap /\ collected' = collected /\ SameCall(o)
      /\ SameTargets(o) /\ SameFin(o)
  BY <1>1 DEF ReleaseRemoved, Notified, Base, SameCall, SameTargets, SameFin, SameBusy, stopVars,
     sizeVars, syncerVars, contextVars
<1>4. SamePhase(o) /\ todo'[o] = todo[o]
  BY <1>3, PhaseKept DEF SameCall
<1>5. Onward
  BY DEF ReleaseRemoved, Onward, stopVars, sizeVars, syncerVars, contextVars
<1>6. \A x \in Ops : x # o => Same(x)
  BY <1>1, <1>2 DEF ReleaseRemoved, Notified, Base, Same, SameCall, SameMap, SameTargets, SameFin,
     SameBusy, stopVars, sizeVars, syncerVars, contextVars
<1>7. Base'
  <2>1. queuedManualSyncSize' \in {queuedManualSyncSize, queuedManualSyncSize - 1} /\ queuedManualSyncSize \in Int
    BY <1>1 DEF ReleaseRemoved, SubQueuedSyncSize, Base
  <2>2. queuedManualSyncSize' \in Int
    BY <2>1, SMT
  <2>3. QED
    BY <1>1, <1>2, <2>2 DEF ReleaseRemoved, Base, stopVars, syncerVars, contextVars
<1>8. DeviceInv'
  BY <1>1 DEF ReleaseRemoved, DeviceInv, contextVars
<1>9. CheckIsAllFinished(o) => CheckIsAllFinished(o)'
  BY <1>2, <1>3, <1>5 DEF CheckIsAllFinished, Onward, DevicesOf
<1>10. Fresh(o)' /\ Entered(o)'
  BY <1>1, <1>2, <1>3, <1>4 DEF Fresh, SamePhase, SameTargets, SameFin, SameBusy, Entered
<1>11. RefsFor(o)'
  <2>1. CreatorRef(o)' = CreatorRef(o)
    BY <1>4, CreatorKept
  <2>2. MapRef(o)' = MapRef(o)
    BY <1>3, MapNow, MapNext
  <2>3. CloseRef(o)' = CloseRef(o)
    BY <1>3, CloseNow, CloseNext
  <2>4. ContextRefs(o)' = ContextRefs(o)
    BY <1>3, ContextsKept DEF SameTargets
  <2>5. QED
    BY <1>1, <1>2, <1>3, <2>1, <2>2, <2>3, <2>4 DEF RefsFor
<1>12. Kept(o)' /\ Done(o)'
  BY <1>1, <1>2, <1>3, <1>4, <1>9 DEF Kept, SamePhase, Done
<1>13. Clean(o)' /\ Found(o)'
  BY <1>1, <1>2, <1>3, <1>4, <1>5, TargetsFrame
<1>14. Gate(o)'
  BY <1>1, <1>2, <1>3, <1>4 DEF Gate, SamePhase, SameFin, SameBusy
<1>15. Callbacks(o)'
  BY <1>1, <1>2, <1>3, <1>4, <1>5 DEF Callbacks, Onward, IsAutoSync, Kind, Events, SameFin
<1>16. Signals(o)' /\ Cut(o)'
  BY <1>1, <1>2, <1>3, <1>4, <1>5 DEF Signals, SamePhase, Cut, Onward
<1>17. OpInv(o)'
  BY <1>10, <1>11, <1>12, <1>13, <1>14, <1>15, <1>16, ZenonT(30) DEF OpInv
<1>18. QED
  BY <1>5, <1>6, <1>7, <1>8, <1>17, OneOp

LEMMA ReleaseRemovedStep ==
    ASSUME Counting, Inv, NEW o \in Ops, ReleaseRemoved(o)
    PROVE  Inv'
  BY WaiterNotifiedStep, NobodyNotifiedStep

LEMMA KilledByStopStep ==
    ASSUME Counting, Inv, NEW o \in Ops, fin[o].at # "removing", KillRemoved(o)
    PROVE  Inv'
<1>1. /\ Base /\ DeviceInv /\ Fresh(o) /\ Entered(o) /\ RefsFor(o) /\ Kept(o) /\ Done(o) /\ Clean(o)
      /\ Found(o) /\ Gate(o) /\ Callbacks(o) /\ Signals(o) /\ Cut(o)
  BY DEF Inv, OpInv
<1>2. /\ op \in [Ops -> OpRecord] /\ op' \in [Ops -> OpRecord] /\ (\A x \in Ops : x # o => op'[x] = op[x])
      /\ op'[o].refs = op[o].refs - 1 /\ op'[o].killed = TRUE /\ op'[o].finished = op[o].finished
      /\ op'[o].status = op[o].status /\ op'[o].semaphore = op[o].semaphore
      /\ op'[o].pending = op[o].pending /\ op'[o].calls = op[o].calls
  <2>1. op \in [Ops -> OpRecord] /\ op' = [op EXCEPT ![o].killed = TRUE, ![o].refs = @ - 1]
    BY <1>1 DEF Base, KillRemoved, KillAndDec
  <2>2. op' \in [Ops -> OpRecord]
    BY <2>1, SMT DEF OpRecord
  <2>3. /\ op'[o].refs = op[o].refs - 1 /\ op'[o].killed = TRUE /\ op'[o].finished = op[o].finished
        /\ op'[o].status = op[o].status /\ op'[o].semaphore = op[o].semaphore
        /\ op'[o].pending = op[o].pending /\ op'[o].calls = op[o].calls
    BY <2>1 DEF OpRecord
  <2>4. QED
    BY <2>1, <2>2, <2>3
<1>q. /\ queue' \in [Devices -> Seq(Ops)]
      /\ \A d \in Devices : NoRepeat(queue'[d]) /\ Targets(queue'[d]) = Targets(queue[d]) \ {o}
  BY <1>1, PurgedQueues DEF KillRemoved
<1>3. /\ rem[o] = "kill" /\ rem'[o] = "no" /\ o \notin syncOperationMap
      /\ syncOperationMap' = syncOperationMap /\ collected' = collected /\ current' = current
      /\ popped' = popped /\ (\A d \in Devices : o \notin Targets(queue'[d])) /\ SameCall(o)
      /\ SameFin(o)
  BY <1>1, <1>q DEF KillRemoved, Base, Entered, SameCall, SameFin, SameBusy, stopVars, sizeVars,
     syncerVars, contextVars
<1>4. SamePhase(o) /\ todo'[o] = todo[o]
  BY <1>3, PhaseKept DEF SameCall
<1>5. Onward
  BY DEF KillRemoved, Onward, stopVars, sizeVars, syncerVars, contextVars
<1>6. \A x \in Ops : x # o => Same(x)
  <2> SUFFICES ASSUME NEW x \in Ops, x # o PROVE Same(x)
    OBVIOUS
  <2>1. op'[x] = op[x] /\ SameCall(x) /\ SameMap(x) /\ SameFin(x)
    BY <1>1, <1>2 DEF KillRemoved, Base, SameCall, SameMap, SameFin, SameBusy, stopVars, sizeVars,
       syncerVars, contextVars
  <2>2. SameTargets(x)
    BY <1>1, <1>q DEF KillRemoved, Base, SameTargets, stopVars, sizeVars, syncerVars, contextVars
  <2>3. QED
    BY <2>1, <2>2 DEF Same
<1>7. Base'
  BY <1>1, <1>2, <1>q DEF KillRemoved, Base, stopVars, sizeVars, syncerVars, contextVars
<1>8. DeviceInv'
  BY <1>1, <1>q DEF KillRemoved, DeviceInv
<1>9. CheckIsAllFinished(o) => CheckIsAllFinished(o)'
  BY <1>2, <1>5 DEF CheckIsAllFinished, Onward, DevicesOf
<1>10. Fresh(o)' /\ Entered(o)'
  BY <1>1, <1>2, <1>3, <1>4 DEF Fresh, SamePhase, SameFin, SameBusy, Entered
<1>11. RefsFor(o)'
  <2>1. CreatorRef(o)' = CreatorRef(o)
    BY <1>4, CreatorKept
  <2>2. MapRef(o) = 1 /\ MapRef(o)' = 0
    BY <1>1, <1>3, <1>4, MapNow, MapNext DEF Entered, SameMap
  <2>3. CloseRef(o)' = CloseRef(o)
    BY <1>3, CloseNow, CloseNext
  <2>4. ContextRefs(o)' = ContextRefs(o)
    BY <1>3, ContextsKept DEF SameTargets
  <2>5. /\ op[o].refs \in Int /\ op[o].pending \in Int /\ CreatorRef(o) \in Int /\ MapRef(o) \in Int
        /\ ContextRefs(o) \in Nat /\ CloseRef(o) \in Int
    BY <1>2, CreatorNow, MapNow, ContextsNow, CloseNow DEF OpRecord
  <2>6. /\ op[o].refs = CreatorRef(o) + MapRef(o) + ContextRefs(o) + CloseRef(o) + op[o].pending
        /\ op'[o].refs = op[o].refs - 1 /\ op'[o].pending = op[o].pending
    BY <1>1, <1>2, <1>3 DEF RefsFor
  <2>7. op'[o].refs = CreatorRef(o)' + MapRef(o)' + ContextRefs(o)' + CloseRef(o)' + op'[o].pending
    BY <2>1, <2>2, <2>3, <2>4, <2>5, <2>6, SMT
  <2>8. QED
    BY <2>7 DEF RefsFor
<1>12. Kept(o)' /\ Done(o)'
  BY <1>1, <1>2, <1>3, <1>4, <1>9 DEF Kept, SamePhase, Done
<1>13. Clean(o)'
  BY <1>3 DEF Clean
<1>14. Found(o)'
  BY <1>2 DEF Found
<1>15. Gate(o)'
  BY <1>1, <1>2, <1>3, <1>4 DEF Gate, SamePhase, SameFin, SameBusy
<1>16. Callbacks(o)'
  BY <1>1, <1>2, <1>3, <1>4, <1>5 DEF Callbacks, Onward, IsAutoSync, Kind, Events, SameFin
<1>17. Signals(o)' /\ Cut(o)'
  BY <1>1, <1>2, <1>3, <1>4, <1>5 DEF Signals, SamePhase, Cut, Onward
<1>18. OpInv(o)'
  BY <1>10, <1>11, <1>12, <1>13, <1>14, <1>15, <1>16, <1>17, ZenonT(30) DEF OpInv
<1>19. QED
  BY <1>5, <1>6, <1>7, <1>8, <1>18, OneOp

LEMMA KilledByFinishStep ==
    ASSUME Counting, Inv, NEW o \in Ops, fin[o].at = "removing", KillRemoved(o)
    PROVE  Inv'
<1>1. /\ Base /\ DeviceInv /\ Fresh(o) /\ Entered(o) /\ RefsFor(o) /\ Kept(o) /\ Done(o) /\ Clean(o)
      /\ Found(o) /\ Gate(o) /\ Callbacks(o) /\ Signals(o) /\ Cut(o)
  BY DEF Inv, OpInv
<1>2. /\ op \in [Ops -> OpRecord] /\ op' \in [Ops -> OpRecord] /\ (\A x \in Ops : x # o => op'[x] = op[x])
      /\ op'[o].refs = op[o].refs - 1 /\ op'[o].killed = TRUE /\ op'[o].finished = op[o].finished
      /\ op'[o].status = op[o].status /\ op'[o].semaphore = op[o].semaphore
      /\ op'[o].pending = op[o].pending /\ op'[o].calls = op[o].calls
  <2>1. op \in [Ops -> OpRecord] /\ op' = [op EXCEPT ![o].killed = TRUE, ![o].refs = @ - 1]
    BY <1>1 DEF Base, KillRemoved, KillAndDec
  <2>2. op' \in [Ops -> OpRecord]
    BY <2>1, SMT DEF OpRecord
  <2>3. /\ op'[o].refs = op[o].refs - 1 /\ op'[o].killed = TRUE /\ op'[o].finished = op[o].finished
        /\ op'[o].status = op[o].status /\ op'[o].semaphore = op[o].semaphore
        /\ op'[o].pending = op[o].pending /\ op'[o].calls = op[o].calls
    BY <2>1, ZenonT(30) DEF OpRecord
  <2>4. QED
    BY <2>1, <2>2, <2>3
<1>q. /\ queue' \in [Devices -> Seq(Ops)]
      /\ \A d \in Devices : NoRepeat(queue'[d]) /\ Targets(queue'[d]) = Targets(queue[d]) \ {o}
  BY <1>1, PurgedQueues DEF KillRemoved
<1>f. Left(o) /\ None \notin Ops
  BY <1>1, LeaveThread, SyncerAssumption DEF KillRemoved, SyncerAssumption
<1>3. /\ rem[o] = "kill" /\ rem'[o] = "no" /\ o \notin syncOperationMap
      /\ syncOperationMap' = syncOperationMap /\ collected' = collected /\ current' = current
      /\ popped' = popped /\ (\A d \in Devices : o \notin Targets(queue'[d])) /\ SameCall(o)
      /\ fin[o].at = "removing" /\ fin'[o].at = "no"
      /\ (\A t \in Threads : busy'[t] = o => busy[t] = o)
  BY <1>1, <1>q, <1>f, ZenonT(30) DEF KillRemoved, Base, Entered, Left, SameCall, stopVars, sizeVars,
     syncerVars, contextVars
<1>4. SamePhase(o) /\ todo'[o] = todo[o]
  BY <1>3, PhaseKept DEF SameCall
<1>5. Onward
  BY DEF KillRemoved, Onward, stopVars, sizeVars, syncerVars, contextVars
<1>6. \A x \in Ops : x # o => Same(x)
  <2> SUFFICES ASSUME NEW x \in Ops, x # o PROVE Same(x)
    OBVIOUS
  <2>1. op'[x] = op[x] /\ SameCall(x) /\ SameMap(x) /\ SameFin(x)
    BY <1>1, <1>2, <1>f DEF KillRemoved, Base, Left, SameCall, SameMap, SameFin, stopVars,
       sizeVars, syncerVars, contextVars
  <2>2. SameTargets(x)
    BY <1>1, <1>q DEF KillRemoved, Base, SameTargets, stopVars, sizeVars, syncerVars, contextVars
  <2>3. QED
    BY <2>1, <2>2 DEF Same
<1>7. Base'
  BY <1>1, <1>2, <1>q, <1>f DEF KillRemoved, Left, Base, stopVars, sizeVars, syncerVars, contextVars
<1>8. DeviceInv'
  BY <1>1, <1>q, <1>f DEF KillRemoved, Left, DeviceInv, Threads
<1>9. CheckIsAllFinished(o) => CheckIsAllFinished(o)'
  BY <1>2, <1>5 DEF CheckIsAllFinished, Onward, DevicesOf
<1>10. Fresh(o)' /\ Entered(o)'
  BY <1>1, <1>2, <1>3, <1>4 DEF Fresh, SamePhase, Entered
<1>11. RefsFor(o)'
  <2>1. CreatorRef(o)' = CreatorRef(o)
    BY <1>4, CreatorKept
  <2>2. MapRef(o) = 1 /\ MapRef(o)' = 0
    BY <1>1, <1>3, <1>4, MapNow, MapNext DEF Entered, SameMap
  <2>3. CloseRef(o)' = CloseRef(o)
    BY <1>3, CloseNow, CloseNext
  <2>4. ContextRefs(o)' = ContextRefs(o)
    BY <1>3, ContextsKept DEF SameTargets
  <2>5. /\ op[o].refs \in Int /\ op[o].pending \in Int /\ CreatorRef(o) \in Int /\ MapRef(o) \in Int
        /\ ContextRefs(o) \in Nat /\ CloseRef(o) \in Int
    BY <1>2, CreatorNow, MapNow, ContextsNow, CloseNow DEF OpRecord
  <2>6. /\ op[o].refs = CreatorRef(o) + MapRef(o) + ContextRefs(o) + CloseRef(o) + op[o].pending
        /\ op'[o].refs = op[o].refs - 1 /\ op'[o].pending = op[o].pending
    BY <1>1, <1>2, <1>3 DEF RefsFor
  <2>7. op'[o].refs = CreatorRef(o)' + MapRef(o)' + ContextRefs(o)' + CloseRef(o)' + op'[o].pending
    BY <2>1, <2>2, <2>3, <2>4, <2>5, <2>6, SMT
  <2>8. QED
    BY <2>7 DEF RefsFor
<1>12. Kept(o)' /\ Done(o)'
  BY <1>1, <1>2, <1>3, <1>4, <1>9 DEF Kept, SamePhase, Done
<1>13. Clean(o)'
  BY <1>3 DEF Clean
<1>14. Found(o)'
  BY <1>2 DEF Found
<1>15. Gate(o)'
  BY <1>1, <1>2, <1>3, <1>4 DEF Gate, SamePhase
<1>16. Callbacks(o)'
  BY <1>1, <1>2, <1>3, <1>4, <1>5 DEF Callbacks, Onward, IsAutoSync, Kind, Events
<1>17. Signals(o)' /\ Cut(o)'
  BY <1>1, <1>2, <1>3, <1>4, <1>5 DEF Signals, SamePhase, Cut, Onward
<1>18. OpInv(o)'
  BY <1>10, <1>11, <1>12, <1>13, <1>14, <1>15, <1>16, <1>17, ZenonT(30) DEF OpInv
<1>19. QED
  BY <1>5, <1>6, <1>7, <1>8, <1>18, OneOp

LEMMA KillRemovedStep ==
    ASSUME Counting, Inv, NEW o \in Ops, KillRemoved(o)
    PROVE  Inv'
  BY KilledByStopStep, KilledByFinishStep

LEMMA StopTakesOutStep ==
    ASSUME Counting, Inv, NEW o \in Ops, o \in syncOperationMap, StopSyncRemove(o)
    PROVE  Inv'
<1>1. /\ Base /\ DeviceInv /\ Fresh(o) /\ Entered(o) /\ RefsFor(o) /\ Kept(o) /\ Done(o) /\ Clean(o)
      /\ Found(o) /\ Gate(o) /\ Callbacks(o) /\ Signals(o) /\ Cut(o)
  BY DEF Inv, OpInv
<1>2. op \in [Ops -> OpRecord] /\ op' \in [Ops -> OpRecord]
  BY <1>1 DEF Base, StopSyncRemove
<1>3. /\ op' = op /\ stopCalled' /\ o \in syncOperationMap /\ o \notin syncOperationMap'
      /\ rem'[o] = "release" /\ collected' = collected /\ SameCall(o) /\ SameTargets(o)
      /\ SameFin(o)
  BY <1>1 DEF StopSyncRemove, Base, SameCall, SameTargets, SameFin, SameBusy, stopVars, sizeVars,
     syncerVars, contextVars
<1>4. SamePhase(o) /\ todo'[o] = todo[o]
  BY <1>3, PhaseKept DEF SameCall
<1>5. Onward
  BY DEF StopSyncRemove, Onward, stopVars, sizeVars, syncerVars, contextVars
<1>6. \A x \in Ops : x # o => Same(x)
  BY <1>1, <1>2 DEF StopSyncRemove, Base, Same, SameCall, SameMap, SameTargets, SameFin, SameBusy,
     stopVars, sizeVars, syncerVars, contextVars
<1>7. Base'
  <2>1. rem' \in [Ops -> {"no", "release", "kill"}] /\ syncOperationMap' \subseteq Ops /\ stopping' \subseteq Ops
    BY <1>1 DEF StopSyncRemove, Base
  <2>2. QED
    BY <1>1, <1>2, <1>3, <2>1 DEF StopSyncRemove, Base, sizeVars, syncerVars, contextVars
<1>8. DeviceInv'
  BY <1>1 DEF StopSyncRemove, DeviceInv, contextVars
<1>9. CheckIsAllFinished(o) => CheckIsAllFinished(o)'
  BY <1>2, <1>3, <1>5 DEF CheckIsAllFinished, Onward, DevicesOf
<1>10. Fresh(o)' /\ Entered(o)'
  BY <1>1, <1>2, <1>3, <1>4 DEF Fresh, SamePhase, SameTargets, SameFin, SameBusy, Entered
<1>11. RefsFor(o)'
  <2>1. CreatorRef(o)' = CreatorRef(o)
    BY <1>4, CreatorKept
  <2>2. MapRef(o)' = MapRef(o)
    BY <1>3, MapNow, MapNext
  <2>3. CloseRef(o)' = CloseRef(o)
    BY <1>3, CloseNow, CloseNext
  <2>4. ContextRefs(o)' = ContextRefs(o)
    BY <1>3, ContextsKept DEF SameTargets
  <2>5. QED
    BY <1>1, <1>2, <1>3, <2>1, <2>2, <2>3, <2>4 DEF RefsFor
<1>12. Kept(o)' /\ Done(o)'
  BY <1>1, <1>2, <1>3, <1>4, <1>9 DEF Kept, SamePhase, Done
<1>13. Clean(o)' /\ Found(o)'
  BY <1>1, <1>2, <1>3, <1>4, <1>5, TargetsFrame
<1>14. Gate(o)'
  BY <1>1, <1>2, <1>3, <1>4 DEF Gate, SamePhase, SameFin, SameBusy
<1>15. Callbacks(o)'
  BY <1>1, <1>2, <1>3, <1>4, <1>5 DEF Callbacks, Onward, IsAutoSync, Kind, Events, SameFin
<1>16. Signals(o)' /\ Cut(o)'
  BY <1>1, <1>2, <1>3, <1>4, <1>5 DEF Signals, SamePhase, Cut, Onward
<1>17. OpInv(o)'
  BY <1>10, <1>11, <1>12, <1>13, <1>14, <1>15, <1>16, ZenonT(30) DEF OpInv
<1>18. QED
  BY <1>5, <1>6, <1>7, <1>8, <1>17, OneOp

LEMMA StopFindsNothingStep ==
    ASSUME Inv, NEW o \in Ops, o \notin syncOperationMap, StopSyncRemove(o)
    PROVE  Inv'
<1>1. Base /\ DeviceInv
  BY DEF Inv
<1>2. Base'
  BY <1>1 DEF StopSyncRemove, Base, stopVars, sizeVars, syncerVars, contextVars
<1>3. DeviceInv'
  BY <1>1 DEF StopSyncRemove, DeviceInv, stopVars, sizeVars, syncerVars, contextVars
<1>4. Onward
  BY DEF StopSyncRemove, Onward, stopVars, sizeVars, syncerVars, contextVars
<1>5. \A x \in Ops : Same(x)
  BY <1>1 DEF StopSyncRemove, Same, SameCall, SameMap, SameTargets, SameFin, SameBusy, stopVars,
     sizeVars, syncerVars, contextVars
<1>6. QED
  BY <1>2, <1>3, <1>4, <1>5, AllSame

LEMMA StopSyncRemoveStep ==
    ASSUME Counting, Inv, NEW o \in Ops, StopSyncRemove(o)
    PROVE  Inv'
  BY StopTakesOutStep, StopFindsNothingStep

-----------------------------------------------------------------------------
(* The contexts of the devices.                                            *)
LEMMA MovedTargets ==
    ASSUME NEW x \in Ops, OpInv(x), op'[x] = op[x], SameCall(x), SameMap(x), SameFin(x), Onward,
           \A d \in Devices :
              /\ current'[d] = x <=> current[d] = x
              /\ x \in Targets(queue'[d]) => x \in Targets(queue[d])
              /\ x \in popped'[d] => x \in popped[d] \/ x \in Targets(queue[d])
              /\ x \in popped[d] \/ x \in Targets(queue[d]) =>
                    x \in popped'[d] \/ x \in Targets(queue'[d]) \/ d \in killedContext
    PROVE  OpInv(x)'
<1>1. /\ Fresh(x) /\ Entered(x) /\ RefsFor(x) /\ Kept(x) /\ Done(x) /\ Clean(x)
      /\ Found(x) /\ Gate(x) /\ Callbacks(x) /\ Signals(x) /\ Cut(x)
  BY DEF OpInv
<1>2. /\ SamePhase(x) /\ todo'[x] = todo[x] /\ DevicesOf' = DevicesOf /\ Events' = Events
      /\ IsAutoSync(x)' <=> IsAutoSync(x)
  BY PhaseKept DEF SameCall, Onward, DevicesOf, Events, IsAutoSync, Kind
<1>3. Fresh(x)' /\ Entered(x)'
  BY <1>1, <1>2 DEF Fresh, Entered, SamePhase, SameMap, SameFin, SameBusy
<1>4. RefsFor(x)'
  <2>1. /\ CreatorRef(x)' = CreatorRef(x) /\ MapRef(x)' = MapRef(x) /\ CloseRef(x)' = CloseRef(x)
        /\ ContextRefs(x)' = ContextRefs(x)
    BY <1>2, CreatorKept, MapKept, ContextsKept
  <2>2. QED
    BY <1>1, <2>1 DEF RefsFor
<1>5. CheckIsAllFinished(x)' <=> CheckIsAllFinished(x)
  BY <1>2 DEF CheckIsAllFinished
<1>6. Kept(x)' /\ Done(x)' /\ Clean(x)'
  BY <1>1, <1>2, <1>5 DEF Kept, Done, Clean, SamePhase, SameMap
<1>7. Found(x)'
  BY <1>1, <1>2 DEF Found, SamePhase, Onward
<1>8. Gate(x)' /\ Callbacks(x)'
  BY <1>1, <1>2 DEF Gate, Callbacks, SamePhase, SameFin, SameBusy
<1>9. Signals(x)' /\ Cut(x)'
  BY <1>1, <1>2 DEF Signals, Cut, SamePhase, SameMap, Onward
<1>10. QED
  BY <1>1, <1>3, <1>4, <1>6, <1>7, <1>8, <1>9 DEF OpInv

LEMMA FinishedRecord ==
    ASSUME NEW o \in Ops, op \in [Ops -> OpRecord], op' = [op EXCEPT ![o].finished = TRUE]
    PROVE  /\ op' \in [Ops -> OpRecord] /\ (\A x \in Ops : x # o => op'[x] = op[x])
           /\ /\ op'[o].refs = op[o].refs /\ op'[o].killed = op[o].killed /\ op'[o].finished = TRUE
           /\ op'[o].status = op[o].status /\ op'[o].semaphore = op[o].semaphore
           /\ op'[o].pending = op[o].pending /\ op'[o].calls = op[o].calls
<1>1. op' = [op EXCEPT ![o] = [op[o] EXCEPT !.finished = TRUE]]
  BY DEF OpRecord
<1>2. op' \in [Ops -> OpRecord]
  BY <1>1, ZenonT(30) DEF OpRecord
<1>3. /\ /\ op'[o].refs = op[o].refs /\ op'[o].killed = op[o].killed /\ op'[o].finished = TRUE
      /\ op'[o].status = op[o].status /\ op'[o].semaphore = op[o].semaphore
      /\ op'[o].pending = op[o].pending /\ op'[o].calls = op[o].calls
  BY <1>1 DEF OpRecord
<1>4. QED
  BY <1>2, <1>3

LEMMA MoveToNextTargetStep ==
    ASSUME Counting, Inv, NEW d \in Devices, NEW o \in Ops, o = Head(queue[d]), MoveToNextTarget(d)
    PROVE  Inv'
<1>1. /\ Base /\ DeviceInv /\ Fresh(o) /\ Entered(o) /\ RefsFor(o) /\ Kept(o) /\ Done(o) /\ Clean(o)
      /\ Found(o) /\ Gate(o) /\ Callbacks(o) /\ Signals(o) /\ Cut(o)
  BY DEF Inv, OpInv
<1>q. /\ queue' \in [Devices -> Seq(Ops)] /\ NoRepeat(queue'[d])
      /\ Targets(queue'[d]) = Targets(queue[d]) \ {o} /\ (\A e \in Devices : e # d => queue'[e] = queue[e])
      /\ ~op[o].killed /\ Created(o)
  <2>1. /\ queue \in [Devices -> Seq(Ops)] /\ NoRepeat(queue[d]) /\ queue[d] # <<>>
        /\ queue' = [queue EXCEPT ![d] = Tail(queue[d])]
    BY <1>1 DEF MoveToNextTarget, Base, DeviceInv
  <2>2. /\ o \in Targets(queue[d]) /\ Tail(queue[d]) \in Seq(Ops) /\ NoRepeat(Tail(queue[d]))
        /\ Targets(Tail(queue[d])) = Targets(queue[d]) \ {o}
    BY <2>1, TailQueue
  <2>3. ~op[o].killed /\ Created(o)
    BY <1>1, <2>2 DEF Clean, Fresh
  <2>4. QED
    BY <2>1, <2>2, <2>3
<1>m. /\ current[d] = None /\ current' = [current EXCEPT ![d] = o]
      /\ UNCHANGED <<scenario, pc, todo, fin, rem, syncOperationMap, syncIdList, stopVars,
                     sizeVars, syncerVars, popped, busy, killedContext>>
  BY <1>q DEF MoveToNextTarget
<1>2. /\ op \in [Ops -> OpRecord] /\ op' \in [Ops -> OpRecord] /\ (\A x \in Ops : x # o => op'[x] = op[x])
      /\ op'[o].refs = op[o].refs + 1 /\ op'[o].killed = op[o].killed
      /\ op'[o].finished = op[o].finished /\ op'[o].status = op[o].status
      /\ op'[o].semaphore = op[o].semaphore /\ op'[o].pending = op[o].pending
      /\ op'[o].calls = op[o].calls
  <2>1. op \in [Ops -> OpRecord] /\ op' = [op EXCEPT ![o].refs = @ + 1]
    BY <1>1, <1>q DEF Base, MoveToNextTarget, Taken
  <2>2. op' \in [Ops -> OpRecord]
    BY <2>1, SMT DEF OpRecord
  <2>3. /\ op'[o].refs = op[o].refs + 1 /\ op'[o].killed = op[o].killed
        /\ op'[o].finished = op[o].finished /\ op'[o].status = op[o].status
        /\ op'[o].semaphore = op[o].semaphore /\ op'[o].pending = op[o].pending
        /\ op'[o].calls = op[o].calls
    BY <2>1, ZenonT(30) DEF OpRecord
  <2>4. QED
    BY <2>1, <2>2, <2>3
<1>n. None \notin Ops
  BY SyncerAssumption DEF SyncerAssumption
<1>3. /\ ~op[o].killed /\ Created(o) /\ current[d] = None /\ current'[d] = o
      /\ (\A e \in Devices : e # d => current'[e] = current[e] /\ queue'[e] = queue[e])
      /\ (Targets(queue'[d]) = Targets(queue[d]) \ {o}) /\ popped' = popped /\ SameCall(o)
      /\ SameMap(o) /\ SameFin(o)
  BY <1>1, <1>q, <1>m DEF Base, SameCall, SameMap, SameFin, SameBusy, stopVars, sizeVars,
     syncerVars, contextVars
<1>4. SamePhase(o) /\ todo'[o] = todo[o]
  BY <1>3, PhaseKept DEF SameCall
<1>5. Onward
  BY DEF MoveToNextTarget, Onward, stopVars, sizeVars, syncerVars, contextVars
<1>6. \A x \in Ops : x # o => Same(x)
  <2>1. ASSUME NEW x \in Ops, x # o PROVE SameTargets(x)
    <3>1. ASSUME NEW e \in Devices
          PROVE  /\ current'[e] = x <=> current[e] = x
                 /\ x \in Targets(queue'[e]) <=> x \in Targets(queue[e])
                 /\ x \in popped'[e] <=> x \in popped[e]
      <4>1. CASE e = d
        BY <1>3, <1>n, <2>1, <4>1
      <4>2. CASE e # d
        BY <1>3, <4>2
      <4>3. QED
        BY <4>1, <4>2
    <3>2. QED
      BY <3>1 DEF SameTargets
  <2>2. QED
    BY <1>2, <1>m, <2>1 DEF Same, SameCall, SameMap, SameFin, SameBusy, stopVars, sizeVars,
       syncerVars, contextVars
<1>7. Base'
  BY <1>1, <1>2, <1>q, <1>m DEF Base, stopVars, sizeVars, syncerVars, contextVars
<1>8. DeviceInv'
  BY <1>1, <1>q, <1>m DEF DeviceInv, Base
<1>9. CheckIsAllFinished(o) => CheckIsAllFinished(o)'
  BY <1>2, <1>5 DEF CheckIsAllFinished, Onward, DevicesOf
<1>10. Fresh(o)'
  BY <1>3, <1>4 DEF Fresh, SamePhase
<1>11. Entered(o)'
  BY <1>1, <1>2, <1>3, <1>4 DEF Entered, SamePhase, SameMap
<1>12. RefsFor(o)'
  <2>1. CreatorRef(o)' = CreatorRef(o)
    BY <1>4, CreatorKept
  <2>2. MapRef(o)' = MapRef(o)
    BY <1>3, MapKept
  <2>3. CloseRef(o)' = CloseRef(o)
    BY <1>3, MapKept
  <2>4. ContextRefs(o)' = ContextRefs(o) + 1
    <3> DEFINE S == {e \in Devices : current[e] = o}
               T == {e \in Devices : current'[e] = o}
    <3>1. T = S \union {d} /\ d \notin S
      BY <1>1, <1>3, <1>n
    <3>2. IsFiniteSet(S)
      <4>1. S \subseteq Devices
        OBVIOUS
      <4>2. QED
        BY <4>1, SyncerAssumption DEF Counting, SyncerAssumption
    <3> HIDE DEF S, T
    <3>3. Cardinality(S) \in Nat /\ Cardinality(T) = Cardinality(S) + 1
      BY <3>1, <3>2, GainOne
    <3>4. ContextRefs(o) = Cardinality(S) /\ ContextRefs(o)' = Cardinality(T)
      BY DEF ContextRefs, S, T
    <3>5. QED
      BY <3>3, <3>4, SMT
  <2>5. /\ op[o].refs \in Int /\ op[o].pending \in Int /\ CreatorRef(o) \in Int /\ MapRef(o) \in Int
        /\ ContextRefs(o) \in Nat /\ CloseRef(o) \in Int
    BY <1>2, CreatorNow, MapNow, ContextsNow, CloseNow DEF OpRecord
  <2>6. /\ op[o].refs = CreatorRef(o) + MapRef(o) + ContextRefs(o) + CloseRef(o) + op[o].pending
        /\ op'[o].refs = op[o].refs + 1 /\ op'[o].pending = op[o].pending
    BY <1>1, <1>2, <1>3 DEF RefsFor
  <2>7. op'[o].refs = CreatorRef(o)' + MapRef(o)' + ContextRefs(o)' + CloseRef(o)' + op'[o].pending
    BY <2>1, <2>2, <2>3, <2>4, <2>5, <2>6, SMT
  <2>8. QED
    BY <2>7 DEF RefsFor
<1>13. Kept(o)' /\ Done(o)'
  BY <1>1, <1>2, <1>3, <1>4, <1>9 DEF Kept, SamePhase, SameMap, Done
<1>14. Clean(o)'
  BY <1>1, <1>2, <1>3, <1>4 DEF Clean
<1>15. Found(o)'
  BY <1>1, <1>2, <1>3, <1>4, <1>5 DEF Found, Onward, DevicesOf, SamePhase
<1>16. Gate(o)'
  BY <1>1, <1>2, <1>3, <1>4 DEF Gate, SamePhase, SameFin, SameBusy
<1>17. Callbacks(o)'
  BY <1>1, <1>2, <1>3, <1>4, <1>5 DEF Callbacks, Onward, IsAutoSync, Kind, Events, SameFin
<1>18. Signals(o)' /\ Cut(o)'
  BY <1>1, <1>2, <1>3, <1>4, <1>5 DEF Signals, SamePhase, SameMap, Cut, Onward
<1>19. OpInv(o)'
  BY <1>10, <1>11, <1>12, <1>13, <1>14, <1>15, <1>16, <1>17, <1>18, ZenonT(30) DEF OpInv
<1>20. QED
  BY <1>5, <1>6, <1>7, <1>8, <1>19, OneOp

LEMMA SetOperationStatusStep ==
    ASSUME Counting, Inv, NEW d \in Devices, NEW s \in {"OK", "FAILED"}, NEW o \in Ops, o = current[d], SetOperationStatus(d, s)
    PROVE  Inv'
<1>1. /\ Base /\ DeviceInv /\ Fresh(o) /\ Entered(o) /\ RefsFor(o) /\ Kept(o) /\ Done(o) /\ Clean(o)
      /\ Found(o) /\ Gate(o) /\ Callbacks(o) /\ Signals(o) /\ Cut(o)
  BY DEF Inv, OpInv
<1>2. /\ op \in [Ops -> OpRecord] /\ op' \in [Ops -> OpRecord] /\ (\A x \in Ops : x # o => op'[x] = op[x])
      /\ op'[o].refs = op[o].refs /\ op'[o].killed = op[o].killed
      /\ op'[o].finished = op[o].finished /\ op'[o].semaphore = op[o].semaphore
      /\ op'[o].pending = op[o].pending /\ op'[o].calls = op[o].calls
      /\ (\A e \in Devices : op[o].status[e] # "WAITING" => op'[o].status[e] = op[o].status[e])
  <2>1. op \in [Ops -> OpRecord] /\ op' = [op EXCEPT ![o] = WithStatus(@, {d}, s)]
    BY <1>1 DEF Base, SetOperationStatus
  <2>2. op'[o] = WithStatus(op[o], {d}, s) /\ op[o] \in OpRecord
    BY <2>1
  <2>3. {d} \in SUBSET Devices /\ s \in Finals
    BY DEF Finals
  <2>4. StatusSet(op[o], op'[o], {d})
    BY <2>2, <2>3, StatusField
  <2>5. op' \in [Ops -> OpRecord]
    BY <2>1, <2>2, <2>4 DEF StatusSet
  <2>6. QED
    BY <2>1, <2>4, <2>5 DEF StatusSet
<1>n. None \notin Ops
  BY SyncerAssumption DEF SyncerAssumption
<1>t. <<"task", d>> \in Threads
  BY DEF Threads
<1>3. /\ Created(o) /\ fin' = fin /\ triggering' = triggering /\ busy'[<<"task", d>>] = o
      /\ (\A t \in Threads : t # <<"task", d>> => busy'[t] = busy[t]) /\ SameCall(o) /\ SameMap(o)
      /\ SameTargets(o)
  BY <1>1, <1>t DEF SetOperationStatus, Base, Fresh, SameCall, SameMap, SameTargets, stopVars,
     sizeVars, syncerVars, contextVars
<1>4. SamePhase(o) /\ todo'[o] = todo[o]
  BY <1>3, PhaseKept DEF SameCall
<1>5. Onward
  BY DEF SetOperationStatus, Onward, stopVars, sizeVars, syncerVars, contextVars
<1>6. \A x \in Ops : x # o => Same(x)
  <2>t. busy[<<"task", d>>] = None
    BY <1>1 DEF SetOperationStatus
  <2>1. ASSUME NEW x \in Ops, x # o PROVE SameBusy(x)
    <3>1. ASSUME NEW t \in Threads PROVE busy'[t] = x <=> busy[t] = x
      <4>1. CASE t = <<"task", d>>
        BY <1>3, <1>n, <2>t, <2>1, <4>1
      <4>2. CASE t # <<"task", d>>
        BY <1>3, <4>2
      <4>3. QED
        BY <4>1, <4>2
    <3>2. QED
      BY <3>1 DEF SameBusy
  <2>2. QED
    BY <1>2, <2>1 DEF SetOperationStatus, Base, Same, SameCall, SameMap, SameTargets, SameFin,
       stopVars, sizeVars, syncerVars, contextVars
<1>7. Base'
  BY <1>1, <1>2 DEF SetOperationStatus, Base, stopVars, sizeVars, syncerVars, contextVars
<1>8. DeviceInv'
  BY <1>1, <1>t DEF SetOperationStatus, Base, DeviceInv, Threads
<1>9. CheckIsAllFinished(o) => CheckIsAllFinished(o)'
  BY <1>1, <1>2, <1>5, TargetDevices, ZenonT(30) DEF CheckIsAllFinished, Onward, DevicesOf
<1>10. Fresh(o)'
  BY <1>3, <1>4 DEF Fresh, SamePhase
<1>11. Entered(o)'
  BY <1>1, <1>2, <1>3, <1>4 DEF Entered, SamePhase, SameMap
<1>12. RefsFor(o)'
  <2>1. CreatorRef(o)' = CreatorRef(o)
    BY <1>4, CreatorKept
  <2>2. MapRef(o)' = MapRef(o)
    BY <1>3, MapKept
  <2>3. CloseRef(o)' = CloseRef(o)
    BY <1>3, MapKept
  <2>4. ContextRefs(o)' = ContextRefs(o)
    BY <1>3, ContextsKept DEF SameTargets
  <2>5. QED
    BY <1>1, <1>2, <1>3, <2>1, <2>2, <2>3, <2>4 DEF RefsFor
<1>13. Kept(o)' /\ Done(o)'
  BY <1>1, <1>2, <1>3, <1>4, <1>9 DEF Kept, SamePhase, SameMap, Done
<1>14. Clean(o)'
  BY <1>1, <1>2, <1>3, <1>4 DEF Clean, SameTargets
<1>15. Found(o)'
  <2>1. /\ Found(o) /\ SamePhase(o) /\ todo'[o] = todo[o] /\ SameTargets(o) /\ Onward
        /\ op'[o].killed = op[o].killed
        /\ \A e \in Devices : op[o].status[e] # "WAITING" => op'[o].status[e] = op[o].status[e]
    BY <1>1, <1>2, <1>3, <1>4, <1>5
  <2>2. QED
    BY <2>1 DEF Found, SameTargets, SamePhase, Onward, DevicesOf
<1>16. Gate(o)'
  <2>1. /\ Gate(o) /\ SamePhase(o) /\ fin' = fin /\ triggering' = triggering /\ op'[o].finished = op[o].finished
        /\ busy'[<<"task", d>>] = o /\ \A t \in Threads : t # <<"task", d>> => busy'[t] = busy[t]
    BY <1>1, <1>2, <1>3, <1>4
  <2>2. QED
    BY <2>1 DEF Gate, SamePhase
<1>17. Callbacks(o)'
  BY <1>1, <1>2, <1>3, <1>4, <1>5 DEF Callbacks, Onward, IsAutoSync, Kind, Events
<1>18. Signals(o)' /\ Cut(o)'
  BY <1>1, <1>2, <1>3, <1>4, <1>5 DEF Signals, SamePhase, SameMap, Cut, Onward
<1>19. OpInv(o)'
  BY <1>10, <1>11, <1>12, <1>13, <1>14, <1>15, <1>16, <1>17, <1>18, ZenonT(30) DEF OpInv
<1>20. QED
  BY <1>5, <1>6, <1>7, <1>8, <1>19, OneOp

LEMMA FinishHereStep ==
    ASSUME Counting, Inv, NEW t \in Threads, NEW o \in Ops, o = busy[t], CheckIsAllFinished(o), MayFinish(o), FinishIfAll(t)
    PROVE  Inv'
<1>1. /\ Base /\ DeviceInv /\ Fresh(o) /\ Entered(o) /\ RefsFor(o) /\ Kept(o) /\ Done(o) /\ Clean(o)
      /\ Found(o) /\ Gate(o) /\ Callbacks(o) /\ Signals(o) /\ Cut(o)
  BY DEF Inv, OpInv
<1>2. /\ op \in [Ops -> OpRecord] /\ op' \in [Ops -> OpRecord] /\ (\A x \in Ops : x # o => op'[x] = op[x])
      /\ op'[o].refs = op[o].refs /\ op'[o].killed = op[o].killed /\ op'[o].finished = TRUE
      /\ op'[o].status = op[o].status /\ op'[o].semaphore = op[o].semaphore
      /\ op'[o].pending = op[o].pending /\ op'[o].calls = op[o].calls
  <2>1. op \in [Ops -> OpRecord] /\ op' = [op EXCEPT ![o].finished = TRUE]
    BY <1>1 DEF Base, FinishIfAll, EnterFinished
  <2>2. QED
    BY <2>1, FinishedRecord
<1>f. /\ fin' \in [Ops -> [by : Threads \union {Caller, Closer, Nobody},
                     at : {"no", "call", "remove", "removing"}]]
      /\ fin'[o].by = t /\ fin'[o].at = "call" /\ \A x \in Ops : x # o => fin'[x] = fin[x]
  <2>1. /\ fin \in [Ops -> [by : Threads \union {Caller, Closer, Nobody},
                          at : {"no", "call", "remove", "removing"}]]
        /\ fin' = [fin EXCEPT ![o] = [by |-> t, at |-> "call"]]
    BY <1>1 DEF FinishIfAll, EnterFinished, Base
  <2>2. t \in Threads \union {Caller, Closer, Nobody}
    OBVIOUS
  <2>3. QED
    BY <2>1, <2>2
<1>3. /\ Created(o) /\ ~op[o].killed /\ ~op[o].finished /\ CheckIsAllFinished(o) /\ fin'[o].by = t
      /\ fin'[o].at = "call" /\ busy'[t] = o /\ SameBusy(o) /\ SameCall(o) /\ SameMap(o)
      /\ SameTargets(o)
  BY <1>1, <1>f DEF FinishIfAll, MayFinish, Fresh, SameCall, SameMap, SameTargets, SameBusy,
     stopVars, sizeVars, syncerVars, contextVars
<1>4. SamePhase(o) /\ todo'[o] = todo[o]
  BY <1>3, PhaseKept DEF SameCall
<1>5. Onward
  BY DEF FinishIfAll, Onward, stopVars, sizeVars, syncerVars, contextVars
<1>6. \A x \in Ops : x # o => Same(x)
  BY <1>1, <1>2, <1>f DEF FinishIfAll, Same, SameCall, SameMap, SameTargets, SameFin, SameBusy,
     stopVars, sizeVars, syncerVars, contextVars
<1>7. Base'
  BY <1>1, <1>2, <1>f DEF FinishIfAll, Base, stopVars, sizeVars, syncerVars, contextVars
<1>8. DeviceInv'
  BY <1>1 DEF FinishIfAll, DeviceInv, contextVars
<1>9. CheckIsAllFinished(o) => CheckIsAllFinished(o)'
  BY <1>2, <1>5, ZenonT(30) DEF CheckIsAllFinished, Onward, DevicesOf
<1>10. Fresh(o)' /\ Entered(o)'
  BY <1>1, <1>2, <1>3, <1>4 DEF Fresh, SamePhase, SameMap, SameTargets, SameBusy, Entered
<1>11. RefsFor(o)'
  <2>1. CreatorRef(o)' = CreatorRef(o)
    BY <1>4, CreatorKept
  <2>2. MapRef(o)' = MapRef(o)
    BY <1>3, MapKept
  <2>3. CloseRef(o)' = CloseRef(o)
    BY <1>3, MapKept
  <2>4. ContextRefs(o)' = ContextRefs(o)
    BY <1>3, ContextsKept DEF SameTargets
  <2>5. QED
    BY <1>1, <1>2, <1>3, <2>1, <2>2, <2>3, <2>4 DEF RefsFor
<1>12. Kept(o)' /\ Done(o)'
  BY <1>1, <1>2, <1>3, <1>4, <1>9 DEF Kept, SamePhase, SameMap, Done
<1>13. Clean(o)' /\ Found(o)'
  BY <1>1, <1>2, <1>3, <1>4, <1>5, TargetsFrame
<1>14. Gate(o)'
  BY <1>1, <1>2, <1>3, <1>4 DEF Gate, SamePhase, SameBusy
<1>15. Callbacks(o)'
  BY <1>1, <1>2, <1>3, <1>4, <1>5 DEF Callbacks, Onward, IsAutoSync, Kind, Events
<1>16. Signals(o)' /\ Cut(o)'
  BY <1>1, <1>2, <1>3, <1>4, <1>5 DEF Signals, SamePhase, SameMap, Cut, Onward
<1>17. OpInv(o)'
  BY <1>10, <1>11, <1>12, <1>13, <1>14, <1>15, <1>16, ZenonT(30) DEF OpInv
<1>18. QED
  BY <1>5, <1>6, <1>7, <1>8, <1>17, OneOp

LEMMA NotFinishedYetStep ==
    ASSUME Counting, Inv, NEW t \in Threads, NEW o \in Ops, o = busy[t], ~(CheckIsAllFinished(o) /\ MayFinish(o)), FinishIfAll(t)
    PROVE  Inv'
<1>1. /\ Base /\ DeviceInv /\ Fresh(o) /\ Entered(o) /\ RefsFor(o) /\ Kept(o) /\ Done(o) /\ Clean(o)
      /\ Found(o) /\ Gate(o) /\ Callbacks(o) /\ Signals(o) /\ Cut(o)
  BY DEF Inv, OpInv
<1>2. op \in [Ops -> OpRecord] /\ op' \in [Ops -> OpRecord]
  BY <1>1 DEF FinishIfAll, Base
<1>n. None \notin Ops
  BY SyncerAssumption DEF SyncerAssumption
<1>3. /\ op' = op /\ Created(o) /\ fin' = fin /\ fin[o].by # t /\ triggering' = triggering
      /\ busy'[t] = None /\ (\A u \in Threads : u # t => busy'[u] = busy[u]) /\ SameCall(o)
      /\ SameMap(o) /\ SameTargets(o)
  BY <1>1 DEF FinishIfAll, Base, Fresh, SameCall, SameMap, SameTargets, stopVars, sizeVars,
     syncerVars, contextVars
<1>4. SamePhase(o) /\ todo'[o] = todo[o]
  BY <1>3, PhaseKept DEF SameCall
<1>5. Onward
  BY DEF FinishIfAll, Onward, stopVars, sizeVars, syncerVars, contextVars
<1>6. \A x \in Ops : x # o => Same(x)
  BY <1>1, <1>2, <1>n DEF FinishIfAll, Base, Same, SameCall, SameMap, SameTargets, SameFin,
     SameBusy, stopVars, sizeVars, syncerVars, contextVars
<1>7. Base'
  BY <1>1, <1>2, ZenonT(30) DEF FinishIfAll, Base, stopVars, sizeVars, syncerVars, contextVars
<1>8. DeviceInv'
  <2>1. current' = current /\ queue' = queue
    BY DEF FinishIfAll
  <2>2. \A d \in Devices : <<"task", d>> \in Threads
    BY DEF Threads
  <2>3. QED
    BY <1>1, <1>3, <2>1, <2>2 DEF DeviceInv
<1>9. CheckIsAllFinished(o) => CheckIsAllFinished(o)'
  BY <1>2, <1>3, <1>5 DEF CheckIsAllFinished, Onward, DevicesOf
<1>10. Fresh(o)'
  BY <1>3, <1>4 DEF Fresh, SamePhase
<1>11. Entered(o)'
  BY <1>1, <1>2, <1>3, <1>4 DEF Entered, SamePhase, SameMap
<1>12. RefsFor(o)'
  <2>1. CreatorRef(o)' = CreatorRef(o)
    BY <1>4, CreatorKept
  <2>2. MapRef(o)' = MapRef(o)
    BY <1>3, MapKept
  <2>3. CloseRef(o)' = CloseRef(o)
    BY <1>3, MapKept
  <2>4. ContextRefs(o)' = ContextRefs(o)
    BY <1>3, ContextsKept DEF SameTargets
  <2>5. QED
    BY <1>1, <1>2, <1>3, <2>1, <2>2, <2>3, <2>4 DEF RefsFor
<1>13. Kept(o)' /\ Done(o)'
  BY <1>1, <1>2, <1>3, <1>4, <1>9 DEF Kept, SamePhase, SameMap, Done
<1>14. Clean(o)' /\ Found(o)'
  BY <1>1, <1>2, <1>3, <1>4, <1>5, TargetsFrame
<1>15. Gate(o)'
  BY <1>1, <1>2, <1>3, <1>4 DEF Gate, SamePhase
<1>16. Callbacks(o)'
  BY <1>1, <1>2, <1>3, <1>4, <1>5 DEF Callbacks, Onward, IsAutoSync, Kind, Events
<1>17. Signals(o)' /\ Cut(o)'
  BY <1>1, <1>2, <1>3, <1>4, <1>5 DEF Signals, SamePhase, SameMap, Cut, Onward
<1>18. OpInv(o)'
  BY <1>10, <1>11, <1>12, <1>13, <1>14, <1>15, <1>16, <1>17, ZenonT(30) DEF OpInv
<1>19. QED
  BY <1>5, <1>6, <1>7, <1>8, <1>18, OneOp

LEMMA FinishIfAllStep ==
    ASSUME Counting, Inv, NEW t \in Threads, FinishIfAll(t)
    PROVE  Inv'
<1>1. busy[t] \in Ops
  BY DEF Inv, Base, FinishIfAll
<1>2. QED
  BY <1>1, FinishHereStep, NotFinishedYetStep

LEMMA ClearSyncOperationStep ==
    ASSUME Counting, Inv, NEW d \in Devices, NEW o \in Ops, o = current[d], ClearSyncOperation(d)
    PROVE  Inv'
<1>1. /\ Base /\ DeviceInv /\ Fresh(o) /\ Entered(o) /\ RefsFor(o) /\ Kept(o) /\ Done(o) /\ Clean(o)
      /\ Found(o) /\ Gate(o) /\ Callbacks(o) /\ Signals(o) /\ Cut(o)
  BY DEF Inv, OpInv
<1>2. /\ op \in [Ops -> OpRecord] /\ op' \in [Ops -> OpRecord] /\ (\A x \in Ops : x # o => op'[x] = op[x])
      /\ op'[o].refs = op[o].refs - 1 /\ op'[o].killed = op[o].killed
      /\ op'[o].finished = op[o].finished /\ op'[o].status = op[o].status
      /\ op'[o].semaphore = op[o].semaphore /\ op'[o].pending = op[o].pending
      /\ op'[o].calls = op[o].calls
  <2>1. op \in [Ops -> OpRecord] /\ op' = [op EXCEPT ![o].refs = @ - 1]
    BY <1>1 DEF Base, ClearSyncOperation, DecRef
  <2>2. op' \in [Ops -> OpRecord]
    BY <2>1, SMT DEF OpRecord
  <2>3. /\ op'[o].refs = op[o].refs - 1 /\ op'[o].killed = op[o].killed
        /\ op'[o].finished = op[o].finished /\ op'[o].status = op[o].status
        /\ op'[o].semaphore = op[o].semaphore /\ op'[o].pending = op[o].pending
        /\ op'[o].calls = op[o].calls
    BY <2>1, ZenonT(30) DEF OpRecord
  <2>4. QED
    BY <2>1, <2>2, <2>3
<1>n. None \notin Ops
  BY SyncerAssumption DEF SyncerAssumption
<1>3. /\ current[d] = o /\ current'[d] = None
      /\ (\A e \in Devices : e # d => current'[e] = current[e]) /\ queue' = queue
      /\ popped' = popped /\ TaskOver(o, d) /\ killedContext' = killedContext /\ SameCall(o)
      /\ SameMap(o) /\ SameFin(o)
  BY <1>1 DEF ClearSyncOperation, Base, SameCall, SameMap, SameFin, SameBusy, stopVars, sizeVars,
     syncerVars, contextVars
<1>4. SamePhase(o) /\ todo'[o] = todo[o]
  BY <1>3, PhaseKept DEF SameCall
<1>5. Onward
  BY DEF ClearSyncOperation, Onward, stopVars, sizeVars, syncerVars, contextVars
<1>6. \A x \in Ops : x # o => Same(x)
  BY <1>1, <1>2, <1>n DEF ClearSyncOperation, Base, Same, SameCall, SameMap, SameTargets, SameFin,
     SameBusy, stopVars, sizeVars, syncerVars, contextVars
<1>7. Base'
  BY <1>1, <1>2 DEF ClearSyncOperation, Base, stopVars, sizeVars, syncerVars, contextVars
<1>8. DeviceInv'
  BY <1>1 DEF ClearSyncOperation, Base, DeviceInv
<1>9. CheckIsAllFinished(o) => CheckIsAllFinished(o)'
  BY <1>2, <1>5 DEF CheckIsAllFinished, Onward, DevicesOf
<1>10. Fresh(o)'
  BY <1>1, <1>3, <1>4 DEF Fresh, SamePhase
<1>11. Entered(o)'
  BY <1>1, <1>2, <1>3, <1>4 DEF Entered, SamePhase, SameMap
<1>12. RefsFor(o)'
  <2>1. CreatorRef(o)' = CreatorRef(o)
    BY <1>4, CreatorKept
  <2>2. MapRef(o)' = MapRef(o)
    BY <1>3, MapKept
  <2>3. CloseRef(o)' = CloseRef(o)
    BY <1>3, MapKept
  <2>4. ContextRefs(o)' = ContextRefs(o) - 1
    <3> DEFINE S == {e \in Devices : current'[e] = o}
               T == {e \in Devices : current[e] = o}
    <3>1. T = S \union {d} /\ d \notin S
      BY <1>1, <1>3, <1>n
    <3>2. IsFiniteSet(S)
      <4>1. S \subseteq Devices
        OBVIOUS
      <4>2. QED
        BY <4>1, SyncerAssumption DEF Counting, SyncerAssumption
    <3> HIDE DEF S, T
    <3>3. Cardinality(S) \in Nat /\ Cardinality(T) = Cardinality(S) + 1
      BY <3>1, <3>2, GainOne
    <3>4. ContextRefs(o) = Cardinality(T) /\ ContextRefs(o)' = Cardinality(S)
      BY DEF ContextRefs, S, T
    <3>5. QED
      BY <3>3, <3>4, SMT
  <2>5. /\ op[o].refs \in Int /\ op[o].pending \in Int /\ CreatorRef(o) \in Int /\ MapRef(o) \in Int
        /\ ContextRefs(o) \in Nat /\ CloseRef(o) \in Int
    BY <1>2, CreatorNow, MapNow, ContextsNow, CloseNow DEF OpRecord
  <2>6. /\ op[o].refs = CreatorRef(o) + MapRef(o) + ContextRefs(o) + CloseRef(o) + op[o].pending
        /\ op'[o].refs = op[o].refs - 1 /\ op'[o].pending = op[o].pending
    BY <1>1, <1>2, <1>3 DEF RefsFor
  <2>7. op'[o].refs = CreatorRef(o)' + MapRef(o)' + ContextRefs(o)' + CloseRef(o)' + op'[o].pending
    BY <2>1, <2>2, <2>3, <2>4, <2>5, <2>6, SMT
  <2>8. QED
    BY <2>7 DEF RefsFor
<1>13. Kept(o)' /\ Done(o)'
  BY <1>1, <1>2, <1>3, <1>4, <1>9 DEF Kept, SamePhase, SameMap, Done
<1>14. Clean(o)'
  BY <1>1, <1>2, <1>3, <1>4 DEF Clean
<1>15. Found(o)'
  BY <1>1, <1>2, <1>3, <1>4, <1>5 DEF Found, TaskOver, MayFinish, Done, CheckIsAllFinished,
     Onward, DevicesOf, SamePhase
<1>16. Gate(o)'
  BY <1>1, <1>2, <1>3, <1>4 DEF Gate, SamePhase, SameFin, SameBusy
<1>17. Callbacks(o)'
  BY <1>1, <1>2, <1>3, <1>4, <1>5 DEF Callbacks, Onward, IsAutoSync, Kind, Events, SameFin
<1>18. Signals(o)' /\ Cut(o)'
  BY <1>1, <1>2, <1>3, <1>4, <1>5 DEF Signals, SamePhase, SameMap, Cut, Onward
<1>19. OpInv(o)'
  BY <1>10, <1>11, <1>12, <1>13, <1>14, <1>15, <1>16, <1>17, <1>18, ZenonT(30) DEF OpInv
<1>20. QED
  BY <1>5, <1>6, <1>7, <1>8, <1>19, OneOp

LEMMA ClearAllSyncTaskStep ==
    ASSUME Inv, NEW d \in Devices, ClearAllSyncTask(d)
    PROVE  Inv'
<1>1. Base /\ DeviceInv /\ \A x \in Ops : OpInv(x)
  BY DEF Inv
<1>q. /\ queue' \in [Devices -> Seq(Ops)] /\ NoRepeat(queue'[d]) /\ Targets(queue'[d]) = {}
      /\ Targets(queue[d]) \subseteq Ops /\ \A e \in Devices : e # d => queue'[e] = queue[e]
  <2>1. queue \in [Devices -> Seq(Ops)] /\ queue' = [queue EXCEPT ![d] = <<>>]
    BY <1>1 DEF ClearAllSyncTask, Base
  <2>2. QED
    BY <2>1, EmptyQueue, InQueue
<1>2. Base'
  BY <1>1, <1>q DEF ClearAllSyncTask, Base, stopVars, sizeVars, syncerVars, contextVars
<1>3. DeviceInv'
  BY <1>1, <1>q DEF ClearAllSyncTask, DeviceInv
<1>4. Onward
  BY DEF ClearAllSyncTask, Onward, stopVars, sizeVars, syncerVars, contextVars
<1>5. ASSUME NEW x \in Ops PROVE OpInv(x)'
  <2>1. op'[x] = op[x] /\ SameCall(x) /\ SameMap(x) /\ SameFin(x)
    BY DEF ClearAllSyncTask, SameCall, SameMap, SameFin, SameBusy, stopVars, sizeVars, syncerVars,
       contextVars
  <2>2. ASSUME NEW e \in Devices
        PROVE  /\ current'[e] = x <=> current[e] = x
               /\ x \in Targets(queue'[e]) => x \in Targets(queue[e])
               /\ x \in popped'[e] => x \in popped[e] \/ x \in Targets(queue[e])
               /\ x \in popped[e] \/ x \in Targets(queue[e]) =>
                     x \in popped'[e] \/ x \in Targets(queue'[e]) \/ e \in killedContext
    BY <1>1, <1>q DEF ClearAllSyncTask, Base
  <2>3. QED
    BY <1>1, <1>4, <2>1, <2>2, MovedTargets
<1>6. QED
  BY <1>2, <1>3, <1>5 DEF Inv

LEMMA ClearSyncTargetStep ==
    ASSUME Inv, NEW d \in Devices, ClearSyncTarget(d)
    PROVE  Inv'
<1>1. Base /\ DeviceInv /\ \A x \in Ops : OpInv(x)
  BY DEF Inv
<1>q. /\ queue' \in [Devices -> Seq(Ops)] /\ NoRepeat(queue'[d]) /\ Targets(queue'[d]) = {}
      /\ Targets(queue[d]) \subseteq Ops /\ \A e \in Devices : e # d => queue'[e] = queue[e]
  <2>1. queue \in [Devices -> Seq(Ops)] /\ queue' = [queue EXCEPT ![d] = <<>>]
    BY <1>1 DEF ClearSyncTarget, Base
  <2>2. QED
    BY <2>1, EmptyQueue, InQueue
<1>2. Base'
  BY <1>1, <1>q DEF ClearSyncTarget, Base, stopVars, sizeVars, syncerVars, contextVars
<1>3. DeviceInv'
  BY <1>1, <1>q DEF ClearSyncTarget, DeviceInv
<1>4. Onward
  BY DEF ClearSyncTarget, Onward, stopVars, sizeVars, syncerVars, contextVars
<1>5. ASSUME NEW x \in Ops PROVE OpInv(x)'
  <2>1. op'[x] = op[x] /\ SameCall(x) /\ SameMap(x) /\ SameFin(x)
    BY DEF ClearSyncTarget, SameCall, SameMap, SameFin, SameBusy, stopVars, sizeVars, syncerVars,
       contextVars
  <2>2. ASSUME NEW e \in Devices
        PROVE  /\ current'[e] = x <=> current[e] = x
               /\ x \in Targets(queue'[e]) => x \in Targets(queue[e])
               /\ x \in popped'[e] => x \in popped[e] \/ x \in Targets(queue[e])
               /\ x \in popped[e] \/ x \in Targets(queue[e]) =>
                     x \in popped'[e] \/ x \in Targets(queue'[e]) \/ e \in killedContext
    BY <1>1, <1>q DEF ClearSyncTarget, Base
  <2>3. QED
    BY <1>1, <1>4, <2>1, <2>2, MovedTargets
<1>6. QED
  BY <1>2, <1>3, <1>5 DEF Inv

LEMMA PoppedTargetStep ==
    ASSUME Counting, Inv, NEW d \in Devices, NEW o \in Ops, NEW s \in {"OK", "FAILED"}, op' = [op EXCEPT ![o] = WithStatus(@, {d}, s)], ClearPopped(d, o)
    PROVE  Inv'
<1>1. /\ Base /\ DeviceInv /\ Fresh(o) /\ Entered(o) /\ RefsFor(o) /\ Kept(o) /\ Done(o) /\ Clean(o)
      /\ Found(o) /\ Gate(o) /\ Callbacks(o) /\ Signals(o) /\ Cut(o)
  BY DEF Inv, OpInv
<1>2. /\ op \in [Ops -> OpRecord] /\ op' \in [Ops -> OpRecord] /\ (\A x \in Ops : x # o => op'[x] = op[x])
      /\ op'[o].refs = op[o].refs /\ op'[o].killed = op[o].killed
      /\ op'[o].finished = op[o].finished /\ op'[o].semaphore = op[o].semaphore
      /\ op'[o].pending = op[o].pending /\ op'[o].calls = op[o].calls
      /\ (\A e \in Devices : op[o].status[e] # "WAITING" => op'[o].status[e] = op[o].status[e])
      /\ op[o].killed \/ op[o].finished \/ (\A e \in {d} : op'[o].status[e] # "WAITING")
  <2>1. op \in [Ops -> OpRecord] /\ op' = [op EXCEPT ![o] = WithStatus(@, {d}, s)]
    BY <1>1 DEF Base
  <2>2. op'[o] = WithStatus(op[o], {d}, s) /\ op[o] \in OpRecord
    BY <2>1
  <2>3. {d} \in SUBSET Devices /\ s \in Finals
    BY DEF Finals
  <2>4. StatusSet(op[o], op'[o], {d})
    BY <2>2, <2>3, StatusField
  <2>5. op' \in [Ops -> OpRecord]
    BY <2>1, <2>2, <2>4 DEF StatusSet
  <2>6. QED
    BY <2>1, <2>4, <2>5 DEF StatusSet
<1>n. None \notin Ops
  BY SyncerAssumption DEF SyncerAssumption
<1>t. <<"offline", d>> \in Threads
  BY DEF Threads
<1>3. /\ Created(o) /\ fin' = fin /\ triggering' = triggering /\ busy'[<<"offline", d>>] = o
      /\ (\A t \in Threads : t # <<"offline", d>> => busy'[t] = busy[t])
      /\ queue' = queue /\ current' = current
      /\ (\A e \in Devices : e # d => (o \in popped'[e] <=> o \in popped[e]))
      /\ SameCall(o) /\ SameMap(o)
  BY <1>1, <1>t, ZenonT(30) DEF ClearPopped, Base, Fresh, SameCall, SameMap, stopVars, sizeVars, syncerVars,
     contextVars
<1>4. SamePhase(o) /\ todo'[o] = todo[o]
  BY <1>3, PhaseKept DEF SameCall
<1>5. Onward
  BY DEF ClearPopped, Onward, stopVars, sizeVars, syncerVars, contextVars
<1>6. \A x \in Ops : x # o => Same(x)
  <2>t. busy[<<"offline", d>>] = None
    BY <1>1 DEF ClearPopped
  <2>1. ASSUME NEW x \in Ops, x # o PROVE SameBusy(x)
    <3>1. ASSUME NEW t \in Threads PROVE busy'[t] = x <=> busy[t] = x
      <4>1. CASE t = <<"offline", d>>
        BY <1>3, <1>n, <2>t, <2>1, <4>1
      <4>2. CASE t # <<"offline", d>>
        BY <1>3, <4>2
      <4>3. QED
        BY <4>1, <4>2
    <3>2. QED
      BY <3>1 DEF SameBusy
  <2>2. QED
    BY <1>1, <1>2, <2>1, ZenonT(30) DEF ClearPopped, Base, Same, SameCall, SameMap, SameTargets, SameFin,
       stopVars, sizeVars, syncerVars, contextVars
<1>7. Base'
  BY <1>1, <1>2 DEF ClearPopped, Base, stopVars, sizeVars, syncerVars, contextVars
<1>8. DeviceInv'
  BY <1>1, <1>t, ZenonT(30) DEF ClearPopped, Base, DeviceInv, Threads
<1>9. CheckIsAllFinished(o) => CheckIsAllFinished(o)'
  BY <1>1, <1>2, <1>5, TargetDevices DEF CheckIsAllFinished, Onward, DevicesOf
<1>10. Fresh(o)'
  BY <1>3, <1>4 DEF Fresh, SamePhase
<1>11. Entered(o)'
  BY <1>1, <1>2, <1>3, <1>4 DEF Entered, SamePhase, SameMap
<1>12. RefsFor(o)'
  <2>1. CreatorRef(o)' = CreatorRef(o)
    BY <1>4, CreatorKept
  <2>2. MapRef(o)' = MapRef(o)
    BY <1>3, MapKept
  <2>3. CloseRef(o)' = CloseRef(o)
    BY <1>3, MapKept
  <2>4. ContextRefs(o)' = ContextRefs(o)
    BY <1>3, ContextsKept DEF SameTargets
  <2>5. QED
    BY <1>1, <1>2, <1>3, <2>1, <2>2, <2>3, <2>4 DEF RefsFor
<1>13. Kept(o)' /\ Done(o)'
  BY <1>1, <1>2, <1>3, <1>4, <1>9 DEF Kept, SamePhase, SameMap, Done
<1>14. Clean(o)'
  BY <1>1, <1>2, <1>3, <1>4 DEF Clean
<1>15. Found(o)'
  <2>1. /\ Found(o) /\ Done(o) /\ SamePhase(o) /\ todo'[o] = todo[o] /\ Onward /\ op'[o].killed = op[o].killed
        /\ queue' = queue /\ current' = current
        /\ (\A e \in Devices : e # d => (o \in popped'[e] <=> o \in popped[e]))
        /\ \A e \in Devices : op[o].status[e] # "WAITING" => op'[o].status[e] = op[o].status[e]
        /\ op[o].killed \/ op[o].finished \/ op'[o].status[d] # "WAITING"
    BY <1>1, <1>2, <1>3, <1>4, <1>5
  <2>2. QED
    BY <2>1 DEF Found, Done, CheckIsAllFinished, SamePhase, Onward, DevicesOf
<1>16. Gate(o)'
  <2>1. /\ Gate(o) /\ SamePhase(o) /\ fin' = fin /\ triggering' = triggering /\ op'[o].finished = op[o].finished
        /\ busy'[<<"offline", d>>] = o /\ \A t \in Threads : t # <<"offline", d>> => busy'[t] = busy[t]
    BY <1>1, <1>2, <1>3, <1>4
  <2>2. QED
    BY <2>1 DEF Gate, SamePhase
<1>17. Callbacks(o)'
  BY <1>1, <1>2, <1>3, <1>4, <1>5 DEF Callbacks, Onward, IsAutoSync, Kind, Events
<1>18. Signals(o)' /\ Cut(o)'
  BY <1>1, <1>2, <1>3, <1>4, <1>5, ZenonT(30) DEF Signals, SamePhase, SameMap, Cut, Onward
<1>19. OpInv(o)'
  BY <1>10, <1>11, <1>12, <1>13, <1>14, <1>15, <1>16, <1>17, <1>18, ZenonT(30) DEF OpInv
<1>20. QED
  BY <1>5, <1>6, <1>7, <1>8, <1>19, OneOp

LEMMA ClearPoppedStep ==
    ASSUME Counting, Inv, NEW d \in Devices, NEW o \in Ops, ClearPopped(d, o)
    PROVE  Inv'
<1>1. \E s \in {"OK", "FAILED"} : op' = [op EXCEPT ![o] = WithStatus(@, {d}, s)]
  BY DEF ClearPopped
<1>2. QED
  BY <1>1, PoppedTargetStep

-----------------------------------------------------------------------------
(* Close.                                                                  *)
CollectedAs(r, q) ==
    /\ q \in OpRecord /\ q.refs = r.refs + 1 /\ q.killed = r.killed /\ q.finished = r.finished
    /\ q.semaphore = r.semaphore /\ q.pending = r.pending /\ q.calls = r.calls
    /\ \A d \in Devices : r.status[d] # "WAITING" => q.status[d] = r.status[d]

LEMMA OneMoreReference ==
    ASSUME NEW w \in OpRecord
    PROVE  /\ [w EXCEPT !.refs = @ + 1] \in OpRecord
           /\ [w EXCEPT !.refs = @ + 1].refs = w.refs + 1
           /\ [w EXCEPT !.refs = @ + 1].killed = w.killed
           /\ [w EXCEPT !.refs = @ + 1].finished = w.finished
           /\ [w EXCEPT !.refs = @ + 1].status = w.status
           /\ [w EXCEPT !.refs = @ + 1].semaphore = w.semaphore
           /\ [w EXCEPT !.refs = @ + 1].pending = w.pending
           /\ [w EXCEPT !.refs = @ + 1].calls = w.calls
  BY SMT DEF OpRecord

LEMMA CollectedRecord ==
    ASSUME NEW r \in OpRecord, NEW ds \in SUBSET Devices, NEW s \in Finals
    PROVE  CollectedAs(r, [WithStatus(r, ds, s) EXCEPT !.refs = @ + 1])
<1>1. StatusSet(r, WithStatus(r, ds, s), ds)
  BY StatusField
<1>2. WithStatus(r, ds, s) \in OpRecord
  BY <1>1 DEF StatusSet
<1>3. QED
  BY <1>1, <1>2, OneMoreReference DEF StatusSet, CollectedAs

LEMMA CollectedOps ==
    ASSUME Base, CollectOperations
    PROVE  /\ op' \in [Ops -> OpRecord]
           /\ \A x \in Ops : x \notin Collected => op'[x] = op[x]
           /\ \A x \in Collected : \E s \in Finals :
                 op'[x] = [WithStatus(op[x], DevicesOf[x], s) EXCEPT !.refs = @ + 1]
<1>1. /\ op' = [x \in Ops |-> op'[x]] /\ Collected \subseteq Ops
      /\ \A x \in Ops : x \notin Collected => op'[x] = op[x]
  BY DEF CollectOperations, Collected, Base
<1>2. ASSUME NEW x \in Collected
      PROVE  \E s \in Finals : op'[x] = [WithStatus(op[x], DevicesOf[x], s) EXCEPT !.refs = @ + 1]
  <2>1. x \in Ops
    BY <1>1
  <2>2. op'[x] = [WithStatus(op[x], DevicesOf[x], IF "user" \in Events THEN "USER_CHANGED" ELSE "FAILED")
                  EXCEPT !.refs = @ + 1]
    BY <1>2, <2>1 DEF CollectOperations
  <2>3. CASE "user" \in Events
    <3>1. op'[x] = [WithStatus(op[x], DevicesOf[x], "USER_CHANGED") EXCEPT !.refs = @ + 1]
      BY <2>2, <2>3
    <3>2. QED
      BY <3>1 DEF Finals
  <2>4. CASE "user" \notin Events
    <3>1. op'[x] = [WithStatus(op[x], DevicesOf[x], "FAILED") EXCEPT !.refs = @ + 1]
      BY <2>2, <2>4
    <3>2. QED
      BY <3>1 DEF Finals
  <2>5. QED
    BY <2>3, <2>4
<1>3. ASSUME NEW x \in Ops PROVE op'[x] \in OpRecord
  <2>1. op[x] \in OpRecord /\ DevicesOf[x] \in SUBSET Devices
    BY TargetDevices DEF Base
  <2>2. CASE x \in Collected
    <3>1. PICK s \in Finals : op'[x] = [WithStatus(op[x], DevicesOf[x], s) EXCEPT !.refs = @ + 1]
      BY <1>2, <2>2
    <3>2. CollectedAs(op[x], op'[x])
      BY <2>1, <3>1, CollectedRecord, ZenonT(30)
    <3>3. QED
      BY <3>2 DEF CollectedAs
  <2>3. QED
    BY <1>1, <2>1, <2>2
<1>4. QED
  BY <1>1, <1>2, <1>3

LEMMA CollectStep ==
    ASSUME Counting, Inv, NEW o \in Ops, o \in Collected, CollectOperations
    PROVE  OpInv(o)'
<1>1. /\ Base /\ DeviceInv /\ Fresh(o) /\ Entered(o) /\ RefsFor(o) /\ Kept(o) /\ Done(o) /\ Clean(o)
      /\ Found(o) /\ Gate(o) /\ Callbacks(o) /\ Signals(o) /\ Cut(o)
  BY DEF Inv, OpInv
<1>2. op \in [Ops -> OpRecord] /\ op' \in [Ops -> OpRecord]
  BY <1>1, CollectedOps DEF Base
<1>r. /\ op'[o].refs = op[o].refs + 1 /\ op'[o].killed = op[o].killed
      /\ op'[o].finished = op[o].finished /\ op'[o].semaphore = op[o].semaphore
      /\ op'[o].pending = op[o].pending /\ op'[o].calls = op[o].calls
      /\ (\A e \in Devices : op[o].status[e] # "WAITING" => op'[o].status[e] = op[o].status[e])
  <2>1. PICK s \in Finals : op'[o] = [WithStatus(op[o], DevicesOf[o], s) EXCEPT !.refs = @ + 1]
    BY <1>1, CollectedOps
  <2>2. op[o] \in OpRecord /\ DevicesOf[o] \in SUBSET Devices
    BY <1>1, TargetDevices DEF Base
  <2>3. CollectedAs(op[o], op'[o])
    BY <2>1, <2>2, CollectedRecord, ZenonT(30)
  <2>4. QED
    BY <2>3 DEF CollectedAs
<1>3. /\ op'[o].refs = op[o].refs + 1 /\ op'[o].killed = op[o].killed
      /\ op'[o].finished = op[o].finished /\ op'[o].semaphore = op[o].semaphore
      /\ op'[o].pending = op[o].pending /\ op'[o].calls = op[o].calls
      /\ (\A e \in Devices : op[o].status[e] # "WAITING" => op'[o].status[e] = op[o].status[e])
      /\ Created(o) /\ o \in syncOperationMap' /\ o \in syncOperationMap /\ rem'[o] = rem[o]
      /\ o \notin collected /\ o \in collected' /\ SameCall(o) /\ SameTargets(o) /\ SameFin(o)
  BY <1>1, <1>r DEF CollectOperations, Collected, Base, Entered, SameCall, SameTargets, SameFin,
     SameBusy, stopVars, sizeVars, syncerVars, contextVars
<1>4. SamePhase(o) /\ todo'[o] = todo[o]
  BY <1>3, PhaseKept DEF SameCall
<1>5. Onward
  BY DEF CollectOperations, Onward, stopVars, sizeVars, syncerVars, contextVars
<1>9. CheckIsAllFinished(o) => CheckIsAllFinished(o)'
  BY <1>1, <1>3, <1>5, TargetDevices DEF CheckIsAllFinished, Onward, DevicesOf
<1>10. Fresh(o)'
  BY <1>3, <1>4 DEF Fresh, SamePhase
<1>11. Entered(o)'
  BY <1>1, <1>2, <1>3, <1>4 DEF Entered, SamePhase
<1>12. RefsFor(o)'
  <2>1. CreatorRef(o)' = CreatorRef(o)
    BY <1>4, CreatorKept
  <2>2. MapRef(o)' = MapRef(o)
    BY <1>3, MapNow, MapNext
  <2>3. CloseRef(o) = 0 /\ CloseRef(o)' = 1
    BY <1>1, <1>3, <1>4, CloseNow, CloseNext DEF Fresh, SameMap
  <2>4. ContextRefs(o)' = ContextRefs(o)
    BY <1>3, ContextsKept DEF SameTargets
  <2>5. /\ op[o].refs \in Int /\ op[o].pending \in Int /\ CreatorRef(o) \in Int /\ MapRef(o) \in Int
        /\ ContextRefs(o) \in Nat /\ CloseRef(o) \in Int
    BY <1>2, CreatorNow, MapNow, ContextsNow, CloseNow DEF OpRecord
  <2>6. /\ op[o].refs = CreatorRef(o) + MapRef(o) + ContextRefs(o) + CloseRef(o) + op[o].pending
        /\ op'[o].refs = op[o].refs + 1 /\ op'[o].pending = op[o].pending
    BY <1>1, <1>2, <1>3 DEF RefsFor
  <2>7. op'[o].refs = CreatorRef(o)' + MapRef(o)' + ContextRefs(o)' + CloseRef(o)' + op'[o].pending
    BY <2>1, <2>2, <2>3, <2>4, <2>5, <2>6, SMT
  <2>8. QED
    BY <2>7 DEF RefsFor
<1>13. Kept(o)' /\ Done(o)'
  BY <1>1, <1>2, <1>3, <1>4, <1>9 DEF Kept, SamePhase, Done
<1>14. Clean(o)'
  BY <1>1, <1>2, <1>3, <1>4 DEF Clean, SameTargets
<1>15. Found(o)'
  <2>1. /\ Found(o) /\ SamePhase(o) /\ todo'[o] = todo[o] /\ SameTargets(o) /\ Onward
        /\ op'[o].killed = op[o].killed
        /\ \A e \in Devices : op[o].status[e] # "WAITING" => op'[o].status[e] = op[o].status[e]
    BY <1>1, <1>3, <1>4, <1>5
  <2>2. QED
    BY <2>1 DEF Found, SameTargets, SamePhase, Onward, DevicesOf
<1>16. Gate(o)'
  BY <1>1, <1>2, <1>3, <1>4 DEF Gate, SamePhase, SameFin, SameBusy
<1>17. Callbacks(o)'
  BY <1>1, <1>2, <1>3, <1>4, <1>5 DEF Callbacks, Onward, IsAutoSync, Kind, Events, SameFin
<1>18. Signals(o)' /\ Cut(o)'
  BY <1>1, <1>2, <1>3, <1>4, <1>5 DEF Signals, SamePhase, Cut, Onward
<1>19. QED
  BY <1>10, <1>11, <1>12, <1>13, <1>14, <1>15, <1>16, <1>17, <1>18, ZenonT(30) DEF OpInv

LEMMA CollectOperationsStep ==
    ASSUME Counting, Inv, CollectOperations
    PROVE  Inv'
<1>1. Base /\ DeviceInv /\ \A x \in Ops : OpInv(x)
  BY DEF Inv
<1>2. /\ op' \in [Ops -> OpRecord] /\ \A x \in Ops : x \notin Collected => op'[x] = op[x]
  BY <1>1, CollectedOps
<1>3. Base'
  BY <1>1, <1>2 DEF CollectOperations, Collected, Base, stopVars, sizeVars, syncerVars, contextVars
<1>4. DeviceInv'
  BY <1>1 DEF CollectOperations, DeviceInv, stopVars, sizeVars, syncerVars, contextVars
<1>5. Onward
  BY DEF CollectOperations, Onward, stopVars, sizeVars, syncerVars, contextVars
<1>6. ASSUME NEW x \in Ops, x \notin Collected PROVE OpInv(x)'
  <2>1. Same(x)
    BY <1>1, <1>2, <1>6, ZenonT(30) DEF CollectOperations, Base, Same, SameCall, SameMap, SameTargets,
       SameFin, SameBusy, stopVars, sizeVars, syncerVars, contextVars
  <2>2. QED
    BY <1>1, <1>5, <2>1, Frame
<1>7. QED
  BY <1>3, <1>4, <1>6, CollectStep DEF Inv

LEMMA CloseFinishesStep ==
    ASSUME Counting, Inv, NEW o \in Ops, CheckIsAllFinished(o), MayFinish(o), TriggerSyncFinished(o)
    PROVE  Inv'
<1>1. /\ Base /\ DeviceInv /\ Fresh(o) /\ Entered(o) /\ RefsFor(o) /\ Kept(o) /\ Done(o) /\ Clean(o)
      /\ Found(o) /\ Gate(o) /\ Callbacks(o) /\ Signals(o) /\ Cut(o)
  BY DEF Inv, OpInv
<1>2. /\ op \in [Ops -> OpRecord] /\ op' \in [Ops -> OpRecord] /\ (\A x \in Ops : x # o => op'[x] = op[x])
      /\ op'[o].refs = op[o].refs /\ op'[o].killed = op[o].killed /\ op'[o].finished = TRUE
      /\ op'[o].status = op[o].status /\ op'[o].semaphore = op[o].semaphore
      /\ op'[o].pending = op[o].pending /\ op'[o].calls = op[o].calls
  <2>1. op \in [Ops -> OpRecord] /\ op' = [op EXCEPT ![o].finished = TRUE]
    BY <1>1 DEF Base, TriggerSyncFinished, EnterFinished
  <2>2. op' = [op EXCEPT ![o] = [op[o] EXCEPT !.finished = TRUE]]
    BY <2>1 DEF OpRecord
  <2>3. op' \in [Ops -> OpRecord]
    BY <2>1, <2>2 DEF OpRecord
  <2>4. /\ op'[o].refs = op[o].refs /\ op'[o].killed = op[o].killed /\ op'[o].finished = TRUE
        /\ op'[o].status = op[o].status /\ op'[o].semaphore = op[o].semaphore
        /\ op'[o].pending = op[o].pending /\ op'[o].calls = op[o].calls
    BY <2>1, <2>2 DEF OpRecord
  <2>5. QED
    BY <2>1, <2>2, <2>3, <2>4
<1>f. /\ fin' \in [Ops -> [by : Threads \union {Caller, Closer, Nobody},
                     at : {"no", "call", "remove", "removing"}]]
      /\ fin'[o].by = Closer /\ fin'[o].at = "call" /\ \A x \in Ops : x # o => fin'[x] = fin[x]
  <2>1. /\ fin \in [Ops -> [by : Threads \union {Caller, Closer, Nobody},
                          at : {"no", "call", "remove", "removing"}]]
        /\ fin' = [fin EXCEPT ![o] = [by |-> Closer, at |-> "call"]]
    BY <1>1 DEF TriggerSyncFinished, EnterFinished, Base
  <2>2. Closer \in Threads \union {Caller, Closer, Nobody}
    OBVIOUS
  <2>3. QED
    BY <2>1, <2>2
<1>3. /\ Created(o) /\ ~op[o].killed /\ ~op[o].finished /\ CheckIsAllFinished(o)
      /\ fin'[o].by = Closer /\ fin'[o].at = "call" /\ triggering' = o /\ SameBusy(o)
      /\ SameCall(o) /\ SameMap(o) /\ SameTargets(o)
  BY <1>1, <1>f DEF TriggerSyncFinished, MayFinish, Fresh, SameCall, SameMap, SameTargets,
     SameBusy, stopVars, sizeVars, syncerVars, contextVars
<1>4. SamePhase(o) /\ todo'[o] = todo[o]
  BY <1>3, PhaseKept DEF SameCall
<1>5. Onward
  BY DEF TriggerSyncFinished, Onward, stopVars, sizeVars, syncerVars, contextVars
<1>6. \A x \in Ops : x # o => Same(x)
  BY <1>1, <1>2, <1>f, SyncerAssumption DEF TriggerSyncFinished, SyncerAssumption, Same, SameCall,
     SameMap, SameTargets, SameFin, SameBusy, stopVars, sizeVars, syncerVars, contextVars
<1>7. Base'
  BY <1>1, <1>2, <1>f DEF TriggerSyncFinished, Base, stopVars, sizeVars, syncerVars, contextVars
<1>8. DeviceInv'
  BY <1>1 DEF TriggerSyncFinished, DeviceInv, contextVars
<1>9. CheckIsAllFinished(o) => CheckIsAllFinished(o)'
  BY <1>2, <1>5 DEF CheckIsAllFinished, Onward, DevicesOf
<1>10. Fresh(o)' /\ Entered(o)'
  BY <1>1, <1>2, <1>3, <1>4 DEF Fresh, SamePhase, SameMap, SameTargets, SameBusy, Entered
<1>11. RefsFor(o)'
  <2>1. CreatorRef(o)' = CreatorRef(o)
    BY <1>4, CreatorKept
  <2>2. MapRef(o)' = MapRef(o)
    BY <1>3, MapKept
  <2>3. CloseRef(o)' = CloseRef(o)
    BY <1>3, MapKept
  <2>4. ContextRefs(o)' = ContextRefs(o)
    BY <1>3, ContextsKept DEF SameTargets
  <2>5. QED
    BY <1>1, <1>2, <1>3, <2>1, <2>2, <2>3, <2>4 DEF RefsFor
<1>12. Kept(o)' /\ Done(o)'
  BY <1>1, <1>2, <1>3, <1>4, <1>9 DEF Kept, SamePhase, SameMap, Done
<1>13. Clean(o)' /\ Found(o)'
  BY <1>1, <1>2, <1>3, <1>4, <1>5, TargetsFrame
<1>14. Gate(o)'
  BY <1>1, <1>2, <1>3, <1>4 DEF Gate, SamePhase, SameBusy
<1>15. Callbacks(o)'
  BY <1>1, <1>2, <1>3, <1>4, <1>5 DEF Callbacks, Onward, IsAutoSync, Kind, Events
<1>16. Signals(o)' /\ Cut(o)'
  BY <1>1, <1>2, <1>3, <1>4, <1>5 DEF Signals, SamePhase, SameMap, Cut, Onward
<1>17. OpInv(o)'
  BY <1>10, <1>11, <1>12, <1>13, <1>14, <1>15, <1>16, ZenonT(30) DEF OpInv
<1>18. QED
  BY <1>5, <1>6, <1>7, <1>8, <1>17, OneOp

LEMMA CloseFindsItStep ==
    ASSUME Inv, NEW o \in Ops, ~(CheckIsAllFinished(o) /\ MayFinish(o)), TriggerSyncFinished(o)
    PROVE  Inv'
<1>1. Base /\ DeviceInv
  BY DEF Inv
<1>2. Base'
  BY <1>1 DEF TriggerSyncFinished, Base, stopVars, sizeVars, syncerVars, contextVars
<1>3. DeviceInv'
  BY <1>1 DEF TriggerSyncFinished, DeviceInv, stopVars, sizeVars, syncerVars, contextVars
<1>4. Onward
  BY DEF TriggerSyncFinished, Onward, stopVars, sizeVars, syncerVars, contextVars
<1>5. \A x \in Ops : Same(x)
  BY <1>1, SyncerAssumption DEF TriggerSyncFinished, SyncerAssumption, Same, SameCall, SameMap,
     SameTargets, SameFin, SameBusy, stopVars, sizeVars, syncerVars, contextVars
<1>6. QED
  BY <1>2, <1>3, <1>4, <1>5, AllSame

LEMMA TriggerSyncFinishedStep ==
    ASSUME Counting, Inv, NEW o \in Ops, TriggerSyncFinished(o)
    PROVE  Inv'
  BY CloseFinishesStep, CloseFindsItStep

LEMMA ReleaseTriggeredStep ==
    ASSUME Counting, Inv, NEW o \in Ops, o = triggering, ReleaseTriggered
    PROVE  Inv'
<1>1. /\ Base /\ DeviceInv /\ Fresh(o) /\ Entered(o) /\ RefsFor(o) /\ Kept(o) /\ Done(o) /\ Clean(o)
      /\ Found(o) /\ Gate(o) /\ Callbacks(o) /\ Signals(o) /\ Cut(o)
  BY DEF Inv, OpInv
<1>2. /\ op \in [Ops -> OpRecord] /\ op' \in [Ops -> OpRecord] /\ (\A x \in Ops : x # o => op'[x] = op[x])
      /\ op'[o].refs = op[o].refs - 1 /\ op'[o].killed = op[o].killed
      /\ op'[o].finished = op[o].finished /\ op'[o].status = op[o].status
      /\ op'[o].semaphore = op[o].semaphore /\ op'[o].pending = op[o].pending
      /\ op'[o].calls = op[o].calls
  <2>1. op \in [Ops -> OpRecord] /\ op' = [op EXCEPT ![o].refs = @ - 1]
    BY <1>1 DEF Base, ReleaseTriggered, DecRef
  <2>2. op' \in [Ops -> OpRecord]
    BY <2>1, SMT DEF OpRecord
  <2>3. /\ op'[o].refs = op[o].refs - 1 /\ op'[o].killed = op[o].killed
        /\ op'[o].finished = op[o].finished /\ op'[o].status = op[o].status
        /\ op'[o].semaphore = op[o].semaphore /\ op'[o].pending = op[o].pending
        /\ op'[o].calls = op[o].calls
    BY <2>1, ZenonT(30) DEF OpRecord
  <2>4. QED
    BY <2>1, <2>2, <2>3
<1>3. /\ Created(o) /\ o \in collected /\ o \notin collected'
      /\ syncOperationMap' = syncOperationMap /\ rem' = rem /\ fin' = fin /\ fin[o].by # Closer
      /\ SameBusy(o) /\ SameCall(o) /\ SameTargets(o)
  BY <1>1 DEF ReleaseTriggered, Base, Fresh, SameCall, SameTargets, SameBusy, stopVars, sizeVars,
     syncerVars, contextVars
<1>4. SamePhase(o) /\ todo'[o] = todo[o]
  BY <1>3, PhaseKept DEF SameCall
<1>5. Onward
  BY DEF ReleaseTriggered, Onward, stopVars, sizeVars, syncerVars, contextVars
<1>6. \A x \in Ops : x # o => Same(x)
  BY <1>1, <1>2 DEF ReleaseTriggered, Base, Same, SameCall, SameMap, SameTargets, SameFin,
     SameBusy, stopVars, sizeVars, syncerVars, contextVars
<1>7. Base'
  BY <1>1, <1>2, <1>3 DEF ReleaseTriggered, Base, stopVars, sizeVars, syncerVars, contextVars
<1>8. DeviceInv'
  BY <1>1 DEF ReleaseTriggered, DeviceInv, contextVars
<1>9. CheckIsAllFinished(o) => CheckIsAllFinished(o)'
  BY <1>2, <1>5 DEF CheckIsAllFinished, Onward, DevicesOf
<1>10. Fresh(o)' /\ Entered(o)'
  BY <1>1, <1>2, <1>3, <1>4 DEF Fresh, SamePhase, SameTargets, SameBusy, Entered
<1>11. RefsFor(o)'
  <2>1. CreatorRef(o)' = CreatorRef(o)
    BY <1>4, CreatorKept
  <2>2. MapRef(o)' = MapRef(o)
    BY <1>3, MapNow, MapNext
  <2>3. CloseRef(o) = 1 /\ CloseRef(o)' = 0
    BY <1>1, <1>3, <1>4, CloseNow, CloseNext DEF Fresh, SameMap
  <2>4. ContextRefs(o)' = ContextRefs(o)
    BY <1>3, ContextsKept DEF SameTargets
  <2>5. /\ op[o].refs \in Int /\ op[o].pending \in Int /\ CreatorRef(o) \in Int /\ MapRef(o) \in Int
        /\ ContextRefs(o) \in Nat /\ CloseRef(o) \in Int
    BY <1>2, CreatorNow, MapNow, ContextsNow, CloseNow DEF OpRecord
  <2>6. /\ op[o].refs = CreatorRef(o) + MapRef(o) + ContextRefs(o) + CloseRef(o) + op[o].pending
        /\ op'[o].refs = op[o].refs - 1 /\ op'[o].pending = op[o].pending
    BY <1>1, <1>2, <1>3 DEF RefsFor
  <2>7. op'[o].refs = CreatorRef(o)' + MapRef(o)' + ContextRefs(o)' + CloseRef(o)' + op'[o].pending
    BY <2>1, <2>2, <2>3, <2>4, <2>5, <2>6, SMT
  <2>8. QED
    BY <2>7 DEF RefsFor
<1>12. Kept(o)' /\ Done(o)'
  BY <1>1, <1>2, <1>3, <1>4, <1>9 DEF Kept, SamePhase, Done
<1>13. Clean(o)' /\ Found(o)'
  BY <1>1, <1>2, <1>3, <1>4, <1>5, TargetsFrame
<1>14. Gate(o)'
  BY <1>1, <1>2, <1>3, <1>4 DEF Gate, SamePhase, SameBusy
<1>15. Callbacks(o)'
  BY <1>1, <1>2, <1>3, <1>4, <1>5 DEF Callbacks, Onward, IsAutoSync, Kind, Events
<1>16. Signals(o)' /\ Cut(o)'
  BY <1>1, <1>2, <1>3, <1>4, <1>5 DEF Signals, SamePhase, Cut, Onward
<1>17. OpInv(o)'
  BY <1>10, <1>11, <1>12, <1>13, <1>14, <1>15, <1>16, ZenonT(30) DEF OpInv
<1>18. QED
  BY <1>5, <1>6, <1>7, <1>8, <1>17, OneOp

LEMMA ClearSyncOperationsStep ==
    ASSUME Counting, Inv, NEW o \in Ops, ClearSyncOperations(o)
    PROVE  Inv'
<1>1. /\ Base /\ DeviceInv /\ Fresh(o) /\ Entered(o) /\ RefsFor(o) /\ Kept(o) /\ Done(o) /\ Clean(o)
      /\ Found(o) /\ Gate(o) /\ Callbacks(o) /\ Signals(o) /\ Cut(o)
  BY DEF Inv, OpInv
<1>2. /\ op \in [Ops -> OpRecord] /\ op' \in [Ops -> OpRecord] /\ (\A x \in Ops : x # o => op'[x] = op[x])
      /\ op'[o].refs = op[o].refs - 1 /\ op'[o].killed = TRUE /\ op'[o].finished = op[o].finished
      /\ op'[o].status = op[o].status /\ op'[o].semaphore = op[o].semaphore
      /\ op'[o].pending = op[o].pending /\ op'[o].calls = op[o].calls
  <2>1. op \in [Ops -> OpRecord] /\ op' = [op EXCEPT ![o].killed = TRUE, ![o].refs = @ - 1]
    BY <1>1 DEF Base, ClearSyncOperations, KillAndDec
  <2>2. op' \in [Ops -> OpRecord]
    BY <2>1, SMT DEF OpRecord
  <2>3. /\ op'[o].refs = op[o].refs - 1 /\ op'[o].killed = TRUE /\ op'[o].finished = op[o].finished
        /\ op'[o].status = op[o].status /\ op'[o].semaphore = op[o].semaphore
        /\ op'[o].pending = op[o].pending /\ op'[o].calls = op[o].calls
    BY <2>1 DEF OpRecord
  <2>4. QED
    BY <2>1, <2>2, <2>3
<1>q. /\ queue' \in [Devices -> Seq(Ops)]
      /\ \A d \in Devices : NoRepeat(queue'[d]) /\ Targets(queue'[d]) = Targets(queue[d]) \ {o}
  BY <1>1, PurgedQueues DEF ClearSyncOperations
<1>3. /\ Created(o) /\ ~Early(o) /\ o \in syncOperationMap /\ o \notin syncOperationMap'
      /\ rem' = rem /\ rem[o] = "no" /\ collected' = collected /\ current' = current
      /\ popped' = popped /\ ~initialized' /\ (\A d \in Devices : o \notin Targets(queue'[d]))
      /\ SameCall(o) /\ SameFin(o)
  BY <1>1, <1>q DEF ClearSyncOperations, Base, Entered, SameCall, SameFin, SameBusy, stopVars,
     sizeVars, syncerVars, contextVars
<1>4. SamePhase(o) /\ todo'[o] = todo[o]
  BY <1>3, PhaseKept DEF SameCall
<1>5. Onward
  BY DEF ClearSyncOperations, Onward, stopVars, sizeVars, syncerVars, contextVars
<1>6. \A x \in Ops : x # o => Same(x)
  <2> SUFFICES ASSUME NEW x \in Ops, x # o PROVE Same(x)
    OBVIOUS
  <2>1. op'[x] = op[x] /\ SameCall(x) /\ SameMap(x) /\ SameFin(x)
    BY <1>1, <1>2 DEF ClearSyncOperations, Base, SameCall, SameMap, SameFin, SameBusy, stopVars,
       sizeVars, syncerVars, contextVars
  <2>2. SameTargets(x)
    BY <1>1, <1>q DEF ClearSyncOperations, Base, SameTargets, stopVars, sizeVars, syncerVars,
       contextVars
  <2>3. QED
    BY <2>1, <2>2 DEF Same
<1>7. Base'
  BY <1>1, <1>2, <1>q DEF ClearSyncOperations, Base, stopVars, sizeVars, syncerVars, contextVars
<1>8. DeviceInv'
  BY <1>1, <1>q DEF ClearSyncOperations, DeviceInv
<1>9. CheckIsAllFinished(o) => CheckIsAllFinished(o)'
  BY <1>2, <1>5 DEF CheckIsAllFinished, Onward, DevicesOf
<1>10. Fresh(o)' /\ Entered(o)'
  BY <1>1, <1>2, <1>3, <1>4 DEF Fresh, SamePhase, SameFin, SameBusy, Entered
<1>11. RefsFor(o)'
  <2>1. CreatorRef(o)' = CreatorRef(o)
    BY <1>4, CreatorKept
  <2>2. MapRef(o) = 1 /\ MapRef(o)' = 0
    BY <1>1, <1>3, <1>4, MapNow, MapNext DEF Entered, SameMap
  <2>3. CloseRef(o)' = CloseRef(o)
    BY <1>3, CloseNow, CloseNext
  <2>4. ContextRefs(o)' = ContextRefs(o)
    BY <1>3, ContextsKept DEF SameTargets
  <2>5. /\ op[o].refs \in Int /\ op[o].pending \in Int /\ CreatorRef(o) \in Int /\ MapRef(o) \in Int
        /\ ContextRefs(o) \in Nat /\ CloseRef(o) \in Int
    BY <1>2, CreatorNow, MapNow, ContextsNow, CloseNow DEF OpRecord
  <2>6. /\ op[o].refs = CreatorRef(o) + MapRef(o) + ContextRefs(o) + CloseRef(o) + op[o].pending
        /\ op'[o].refs = op[o].refs - 1 /\ op'[o].pending = op[o].pending
    BY <1>1, <1>2, <1>3 DEF RefsFor
  <2>7. op'[o].refs = CreatorRef(o)' + MapRef(o)' + ContextRefs(o)' + CloseRef(o)' + op'[o].pending
    BY <2>1, <2>2, <2>3, <2>4, <2>5, <2>6, SMT
  <2>8. QED
    BY <2>7 DEF RefsFor
<1>12. Kept(o)' /\ Done(o)'
  BY <1>1, <1>2, <1>3, <1>4, <1>9 DEF Kept, SamePhase, Done
<1>13. Clean(o)'
  BY <1>3 DEF Clean
<1>14. Found(o)'
  BY <1>2 DEF Found
<1>15. Gate(o)'
  BY <1>1, <1>2, <1>3, <1>4 DEF Gate, SamePhase, SameFin, SameBusy
<1>16. Callbacks(o)'
  BY <1>1, <1>2, <1>3, <1>4, <1>5 DEF Callbacks, Onward, IsAutoSync, Kind, Events, SameFin
<1>17. Signals(o)' /\ Cut(o)'
  BY <1>1, <1>2, <1>3, <1>4, <1>5, ZenonT(30) DEF Signals, SamePhase, Cut, Onward
<1>18. OpInv(o)'
  BY <1>10, <1>11, <1>12, <1>13, <1>14, <1>15, <1>16, <1>17, ZenonT(30) DEF OpInv
<1>19. QED
  BY <1>5, <1>6, <1>7, <1>8, <1>18, OneOp

LEMMA StopSyncStep ==
    ASSUME Inv, StopSync
    PROVE  Inv'
<1>1. Base /\ DeviceInv
  BY DEF Inv
<1>2. Base'
  BY <1>1 DEF StopSync, Base, stopVars, sizeVars, syncerVars, contextVars
<1>3. DeviceInv'
  BY <1>1 DEF StopSync, DeviceInv, stopVars, sizeVars, syncerVars, contextVars
<1>4. Onward
  BY DEF StopSync, Onward, stopVars, sizeVars, syncerVars, contextVars
<1>5. \A x \in Ops : Same(x)
  BY <1>1 DEF StopSync, Same, SameCall, SameMap, SameTargets, SameFin, SameBusy, stopVars,
     sizeVars, syncerVars, contextVars
<1>6. QED
  BY <1>2, <1>3, <1>4, <1>5, AllSame

LEMMA DisableManualSyncStep ==
    ASSUME Inv, DisableManualSync
    PROVE  Inv'
<1>1. Base /\ DeviceInv
  BY DEF Inv
<1>2. Base'
  BY <1>1 DEF DisableManualSync, Base, stopVars, sizeVars, syncerVars, contextVars
<1>3. DeviceInv'
  BY <1>1 DEF DisableManualSync, DeviceInv, stopVars, sizeVars, syncerVars, contextVars
<1>4. Onward
  BY DEF DisableManualSync, Onward, stopVars, sizeVars, syncerVars, contextVars
<1>5. \A x \in Ops : Same(x)
  BY <1>1 DEF DisableManualSync, Same, SameCall, SameMap, SameTargets, SameFin, SameBusy,
     stopVars, sizeVars, syncerVars, contextVars
<1>6. QED
  BY <1>2, <1>3, <1>4, <1>5, AllSame

LEMMA EnableManualSyncStep ==
    ASSUME Inv, EnableManualSync
    PROVE  Inv'
<1>1. Base /\ DeviceInv
  BY DEF Inv
<1>2. Base'
  BY <1>1 DEF EnableManualSync, Base, stopVars, sizeVars, syncerVars, contextVars
<1>3. DeviceInv'
  BY <1>1 DEF EnableManualSync, DeviceInv, stopVars, sizeVars, syncerVars, contextVars
<1>4. Onward
  BY DEF EnableManualSync, Onward, stopVars, sizeVars, syncerVars, contextVars
<1>5. \A x \in Ops : Same(x)
  BY <1>1 DEF EnableManualSync, Same, SameCall, SameMap, SameTargets, SameFin, SameBusy, stopVars,
     sizeVars, syncerVars, contextVars
<1>6. QED
  BY <1>2, <1>3, <1>4, <1>5, AllSame

LEMMA AllClearedStep ==
    ASSUME Inv, AllCleared
    PROVE  Inv'
<1>1. Base /\ DeviceInv
  BY DEF Inv
<1>2. Base'
  BY <1>1 DEF AllCleared, Base, stopVars, sizeVars, syncerVars, contextVars
<1>3. DeviceInv'
  BY <1>1 DEF AllCleared, DeviceInv, stopVars, sizeVars, syncerVars, contextVars
<1>4. Onward
  BY DEF AllCleared, Onward, stopVars, sizeVars, syncerVars, contextVars
<1>5. \A x \in Ops : Same(x)
  BY <1>1 DEF AllCleared, Same, SameCall, SameMap, SameTargets, SameFin, SameBusy, stopVars,
     sizeVars, syncerVars, contextVars
<1>6. QED
  BY <1>2, <1>3, <1>4, <1>5, AllSame

LEMMA ClosedStep ==
    ASSUME Inv, Closed
    PROVE  Inv'
<1>1. Base /\ DeviceInv
  BY DEF Inv
<1>2. Base'
  BY <1>1 DEF Closed, Base, stopVars, sizeVars, syncerVars, contextVars
<1>3. DeviceInv'
  BY <1>1 DEF Closed, DeviceInv, stopVars, sizeVars, syncerVars, contextVars
<1>4. Onward
  BY DEF Closed, Onward, stopVars, sizeVars, syncerVars, contextVars
<1>5. \A x \in Ops : Same(x)
  BY <1>1 DEF Closed, Same, SameCall, SameMap, SameTargets, SameFin, SameBusy, stopVars, sizeVars,
     syncerVars, contextVars
<1>6. QED
  BY <1>2, <1>3, <1>4, <1>5, AllSame

LEMMA CloseCalledStep ==
    ASSUME Inv, Close
    PROVE  Inv'
<1>1. Base /\ DeviceInv
  BY DEF Inv
<1>2. Base'
  BY <1>1 DEF Close, Base, stopVars, sizeVars, syncerVars, contextVars
<1>3. DeviceInv'
  BY <1>1 DEF Close, DeviceInv, stopVars, sizeVars, syncerVars, contextVars
<1>4. Onward
  BY DEF Close, Onward, stopVars, sizeVars, syncerVars, contextVars
<1>5. \A x \in Ops : Same(x)
  BY <1>1 DEF Close, Same, SameCall, SameMap, SameTargets, SameFin, SameBusy, stopVars, sizeVars,
     syncerVars, contextVars
<1>6. QED
  BY <1>2, <1>3, <1>4, <1>5, AllSame

LEMMA KillContextStep ==
    ASSUME Inv, NEW d \in Devices, KillContext(d)
    PROVE  Inv'
<1>1. Base /\ DeviceInv
  BY DEF Inv
<1>2. Base'
  BY <1>1 DEF KillContext, Base, stopVars, sizeVars, syncerVars, contextVars
<1>3. DeviceInv'
  BY <1>1 DEF KillContext, DeviceInv, stopVars, sizeVars, syncerVars, contextVars
<1>4. Onward
  BY DEF KillContext, Onward, stopVars, sizeVars, syncerVars, contextVars
<1>5. \A x \in Ops : Same(x)
  BY <1>1 DEF KillContext, Same, SameCall, SameMap, SameTargets, SameFin, SameBusy, stopVars,
     sizeVars, syncerVars, contextVars
<1>6. QED
  BY <1>2, <1>3, <1>4, <1>5, AllSame

-----------------------------------------------------------------------------
(* Every step.                                                             *)
LEMMA CallerStepInv ==
    ASSUME Counting, Inv, NEW o \in Ops, CallerStep(o)
    PROVE  Inv'
  BY AddQueuedManualSyncSizeStep, PrepareSyncStep, AllAddedStep, AddSyncOperForContextStep,
     AddSyncOperationStep, PushSyncIdStep, FinishOrWaitStep, ReturnFinishedStep,
     WaitIfNeedStep DEF CallerStep

LEMMA FinishStepInv ==
    ASSUME Counting, Inv, NEW o \in Ops, FinishStep(o)
    PROVE  Inv'
  BY UserCallbackStep, OnSyncFinishedStep, ReleaseRemovedStep, KillRemovedStep DEF FinishStep

LEMMA ContextStepInv ==
    ASSUME Counting, Inv, NEW d \in Devices, ContextStep(d)
    PROVE  Inv'
<1>1. CASE MoveToNextTarget(d)
  <2>1. queue[d] \in Seq(Ops) /\ queue[d] # <<>>
    BY <1>1 DEF Inv, Base, MoveToNextTarget
  <2>2. Head(queue[d]) \in Ops
    BY <2>1, SMT
  <2>3. QED
    BY <1>1, <2>2, MoveToNextTargetStep
<1>2. CASE ClearSyncOperation(d)
  <2>1. current[d] \in Ops
    BY <1>2 DEF Inv, Base, ClearSyncOperation
  <2>2. QED
    BY <1>2, <2>1, ClearSyncOperationStep
<1>3. ASSUME NEW s \in {"OK", "FAILED"}, SetOperationStatus(d, s) PROVE Inv'
  <2>1. current[d] \in Ops
    BY <1>3 DEF Inv, Base, SetOperationStatus
  <2>2. QED
    BY <1>3, <2>1, SetOperationStatusStep
<1>4. QED
  BY <1>1, <1>2, <1>3, ClearPoppedStep, ClearSyncTargetStep DEF ContextStep

LEMMA CloseStepInv ==
    ASSUME Counting, Inv, CloseStep
    PROVE  Inv'
<1>1. CASE ReleaseTriggered
  <2>1. triggering \in Ops
    BY <1>1 DEF Inv, Base, ReleaseTriggered
  <2>2. QED
    BY <1>1, <2>1, ReleaseTriggeredStep
<1>2. QED
  BY <1>1, CollectOperationsStep, AllClearedStep, ClosedStep, TriggerSyncFinishedStep,
     ClearSyncOperationsStep, KillContextStep DEF CloseStep

LEMMA InvNext ==
    ASSUME Counting, Inv, [Next]_vars
    PROVE  Inv'
<1>1. CASE Running
  BY <1>1, CallerStepInv, FinishStepInv, QueuedCallbackStep, StopSyncRemoveStep, ContextStepInv,
     FinishIfAllStep, CloseStepInv DEF Running
<1>2. CASE Calling
  BY <1>2, SyncParamCheckStep, ClearAllSyncTaskStep, StopSyncStep, DisableManualSyncStep,
     EnableManualSyncStep, CloseCalledStep DEF Calling
<1>3. CASE UNCHANGED vars
  <2>1. Base /\ DeviceInv
    BY DEF Inv
  <2>2. Base'
    BY <1>3, <2>1 DEF vars, Base, stopVars, sizeVars, syncerVars, contextVars
  <2>3. DeviceInv'
    BY <1>3, <2>1 DEF vars, DeviceInv, contextVars
  <2>4. Onward
    BY <1>3 DEF vars, Onward, stopVars, sizeVars, syncerVars, contextVars
  <2>5. \A x \in Ops : Same(x)
    BY <1>3 DEF vars, Same, SameCall, SameMap, SameTargets, SameFin, SameBusy, stopVars, sizeVars,
       syncerVars, contextVars
  <2>6. QED
    BY <2>2, <2>3, <2>4, <2>5, AllSame
<1>4. QED
  BY <1>1, <1>2, <1>3 DEF Next

-----------------------------------------------------------------------------
(* The queued manual syncs.                                                *)
LEMMA Finite ==
    ASSUME Counting
    PROVE  /\ IsFiniteSet(Waiting) /\ IsFiniteSet(Waiting') /\ IsFiniteSet(Admitted) /\ IsFiniteSet(Admitted')
           /\ Cardinality(Waiting) \in Nat /\ Cardinality(Waiting') \in Nat
           /\ Cardinality(Admitted) \in Nat /\ Cardinality(Admitted') \in Nat
<1>1. Waiting \subseteq Ops /\ Waiting' \subseteq Ops /\ Admitted \subseteq Ops /\ Admitted' \subseteq Ops
  BY DEF Waiting, Admitted
<1>2. IsFiniteSet(Ops)
  BY SyncerAssumption DEF SyncerAssumption
<1>3. IsFiniteSet(Waiting) /\ IsFiniteSet(Waiting') /\ IsFiniteSet(Admitted) /\ IsFiniteSet(Admitted')
  BY <1>1, <1>2 DEF Counting
<1>4. QED
  BY <1>3 DEF Counting

LEMMA SizeFrame ==
    ASSUME Counting, Base, SizeInv, queuedManualSyncSize' = queuedManualSyncSize,
           manualSyncEnable' = manualSyncEnable,
           Waiting' \subseteq Waiting, Admitted \subseteq Admitted'
    PROVE  SizeInv'
<1>1. queuedManualSyncSize \in Int
  BY DEF Base
<1>2. Cardinality(Waiting') <= Cardinality(Waiting) /\ Cardinality(Admitted) <= Cardinality(Admitted')
  BY Finite DEF Counting
<1>3. /\ Cardinality(Waiting) \in Nat /\ Cardinality(Waiting') \in Nat
      /\ Cardinality(Admitted) \in Nat /\ Cardinality(Admitted') \in Nat
  BY Finite
<1>4. Cardinality(Waiting) <= queuedManualSyncSize /\ queuedManualSyncSize <= Cardinality(Admitted)
  BY DEF SizeInv
<1>5. Cardinality(Waiting') <= queuedManualSyncSize /\ queuedManualSyncSize <= Cardinality(Admitted')
  BY <1>1, <1>2, <1>3, <1>4, SMT
<1>6. ~manualSyncEnable' => Waiting' = {}
  BY DEF SizeInv
<1>7. QED
  BY <1>5, <1>6 DEF SizeInv

(* What most steps leave alone.                                            *)
SizeSame == UNCHANGED <<scenario, pc, rem, syncOperationMap, queuedManualSyncSize, manualSyncEnable>>

LEMMA SameSize ==
    ASSUME Counting, Base, SizeInv, SizeSame
    PROVE  SizeInv'
<1>1. Waiting' = Waiting /\ Admitted' = Admitted
  BY DEF SizeSame, Waiting, Admitted, IsQueued, Kind
<1>2. QED
  BY <1>1, SizeFrame DEF SizeSame

LEMMA SyncParamCheckSize ==
    ASSUME Counting, Inv, SizeInv, NEW o \in Ops, SyncParamCheck(o)
    PROVE  SizeInv'
<1>1. Base /\ Entered(o) /\ Clean(o)
  BY DEF Inv, OpInv
<1>2. \A x \in Ops : x \in Waiting' => x \in Waiting
  BY <1>1 DEF SyncParamCheck, Waiting, IsQueued, Kind, Base, Entered
<1>3. \A x \in Ops : x \in Admitted => x \in Admitted'
  BY <1>1 DEF SyncParamCheck, Admitted, Base
<1>4. queuedManualSyncSize' = queuedManualSyncSize /\ manualSyncEnable' = manualSyncEnable
  BY DEF SyncParamCheck, sizeVars
<1>5. Waiting' \subseteq Waiting /\ Admitted \subseteq Admitted'
  BY <1>2, <1>3 DEF Waiting, Admitted
<1>6. QED
  BY <1>1, <1>4, <1>5, SizeFrame

LEMMA PrepareSyncSize ==
    ASSUME Counting, Inv, SizeInv, NEW o \in Ops, PrepareSync(o)
    PROVE  SizeInv'
<1>1. Base /\ Entered(o) /\ Clean(o)
  BY DEF Inv, OpInv
<1>2. \A x \in Ops : x \in Waiting' => x \in Waiting
  BY <1>1 DEF PrepareSync, Waiting, IsQueued, Kind, Base, Entered
<1>3. \A x \in Ops : x \in Admitted => x \in Admitted'
  BY <1>1 DEF PrepareSync, Admitted, Base
<1>4. queuedManualSyncSize' = queuedManualSyncSize /\ manualSyncEnable' = manualSyncEnable
  BY DEF PrepareSync, sizeVars
<1>5. Waiting' \subseteq Waiting /\ Admitted \subseteq Admitted'
  BY <1>2, <1>3 DEF Waiting, Admitted
<1>6. QED
  BY <1>1, <1>4, <1>5, SizeFrame

LEMMA AllAddedSize ==
    ASSUME Counting, Inv, SizeInv, NEW o \in Ops, AllAdded(o)
    PROVE  SizeInv'
<1>1. Base /\ Entered(o) /\ Clean(o)
  BY DEF Inv, OpInv
<1>2. \A x \in Ops : x \in Waiting' => x \in Waiting
  BY <1>1 DEF AllAdded, Waiting, IsQueued, Kind, Base, Entered
<1>3. \A x \in Ops : x \in Admitted => x \in Admitted'
  BY <1>1 DEF AllAdded, Admitted, Base
<1>4. queuedManualSyncSize' = queuedManualSyncSize /\ manualSyncEnable' = manualSyncEnable
  BY DEF AllAdded, sizeVars
<1>5. Waiting' \subseteq Waiting /\ Admitted \subseteq Admitted'
  BY <1>2, <1>3 DEF Waiting, Admitted
<1>6. QED
  BY <1>1, <1>4, <1>5, SizeFrame

LEMMA AddSyncOperationSize ==
    ASSUME Counting, Inv, SizeInv, NEW o \in Ops, AddSyncOperation(o)
    PROVE  SizeInv'
<1>1. Base /\ Entered(o) /\ Clean(o)
  BY DEF Inv, OpInv
<1>2. \A x \in Ops : x \in Waiting' => x \in Waiting
  BY <1>1 DEF AddSyncOperation, Waiting, IsQueued, Kind, Base, Entered
<1>3. \A x \in Ops : x \in Admitted => x \in Admitted'
  BY <1>1 DEF AddSyncOperation, Admitted, Base
<1>4. queuedManualSyncSize' = queuedManualSyncSize /\ manualSyncEnable' = manualSyncEnable
  BY DEF AddSyncOperation, sizeVars
<1>5. Waiting' \subseteq Waiting /\ Admitted \subseteq Admitted'
  BY <1>2, <1>3 DEF Waiting, Admitted
<1>6. QED
  BY <1>1, <1>4, <1>5, SizeFrame

LEMMA PushSyncIdSize ==
    ASSUME Counting, Inv, SizeInv, NEW o \in Ops, PushSyncId(o)
    PROVE  SizeInv'
<1>1. Base /\ Entered(o) /\ Clean(o)
  BY DEF Inv, OpInv
<1>2. \A x \in Ops : x \in Waiting' => x \in Waiting
  BY <1>1 DEF PushSyncId, Waiting, IsQueued, Kind, Base, Entered
<1>3. \A x \in Ops : x \in Admitted => x \in Admitted'
  BY <1>1 DEF PushSyncId, Admitted, Base
<1>4. queuedManualSyncSize' = queuedManualSyncSize /\ manualSyncEnable' = manualSyncEnable
  BY DEF PushSyncId, sizeVars
<1>5. Waiting' \subseteq Waiting /\ Admitted \subseteq Admitted'
  BY <1>2, <1>3 DEF Waiting, Admitted
<1>6. QED
  BY <1>1, <1>4, <1>5, SizeFrame

LEMMA FinishOrWaitSize ==
    ASSUME Counting, Inv, SizeInv, NEW o \in Ops, FinishOrWait(o)
    PROVE  SizeInv'
<1>1. Base /\ Entered(o) /\ Clean(o)
  BY DEF Inv, OpInv
<1>2. \A x \in Ops : x \in Waiting' => x \in Waiting
  BY <1>1 DEF FinishOrWait, Waiting, IsQueued, Kind, Base, Entered
<1>3. \A x \in Ops : x \in Admitted => x \in Admitted'
  BY <1>1 DEF FinishOrWait, Admitted, Base
<1>4. queuedManualSyncSize' = queuedManualSyncSize /\ manualSyncEnable' = manualSyncEnable
  BY DEF FinishOrWait, sizeVars
<1>5. Waiting' \subseteq Waiting /\ Admitted \subseteq Admitted'
  BY <1>2, <1>3 DEF Waiting, Admitted
<1>6. QED
  BY <1>1, <1>4, <1>5, SizeFrame

LEMMA ReturnFinishedSize ==
    ASSUME Counting, Inv, SizeInv, NEW o \in Ops, ReturnFinished(o)
    PROVE  SizeInv'
<1>1. Base /\ Entered(o) /\ Clean(o)
  BY DEF Inv, OpInv
<1>2. \A x \in Ops : x \in Waiting' => x \in Waiting
  BY <1>1 DEF ReturnFinished, Waiting, IsQueued, Kind, Base, Entered
<1>3. \A x \in Ops : x \in Admitted => x \in Admitted'
  BY <1>1 DEF ReturnFinished, Admitted, Base
<1>4. queuedManualSyncSize' = queuedManualSyncSize /\ manualSyncEnable' = manualSyncEnable
  BY DEF ReturnFinished, sizeVars
<1>5. Waiting' \subseteq Waiting /\ Admitted \subseteq Admitted'
  BY <1>2, <1>3 DEF Waiting, Admitted
<1>6. QED
  BY <1>1, <1>4, <1>5, SizeFrame

LEMMA WaitIfNeedSize ==
    ASSUME Counting, Inv, SizeInv, NEW o \in Ops, WaitIfNeed(o)
    PROVE  SizeInv'
<1>1. Base /\ Entered(o) /\ Clean(o)
  BY DEF Inv, OpInv
<1>2. \A x \in Ops : x \in Waiting' => x \in Waiting
  BY <1>1 DEF WaitIfNeed, Waiting, IsQueued, Kind, Base, Entered
<1>3. \A x \in Ops : x \in Admitted => x \in Admitted'
  BY <1>1 DEF WaitIfNeed, Admitted, Base
<1>4. queuedManualSyncSize' = queuedManualSyncSize /\ manualSyncEnable' = manualSyncEnable
  BY DEF WaitIfNeed, sizeVars
<1>5. Waiting' \subseteq Waiting /\ Admitted \subseteq Admitted'
  BY <1>2, <1>3 DEF Waiting, Admitted
<1>6. QED
  BY <1>1, <1>4, <1>5, SizeFrame

LEMMA OnSyncFinishedSize ==
    ASSUME Counting, Inv, SizeInv, NEW o \in Ops, OnSyncFinished(o)
    PROVE  SizeInv'
<1>1. Base /\ Entered(o) /\ Clean(o)
  BY DEF Inv, OpInv
<1>2. \A x \in Ops : x \in Waiting' => x \in Waiting
  BY <1>1, ZenonT(30) DEF OnSyncFinished, Waiting, IsQueued, Kind, Base, Entered
<1>3. \A x \in Ops : x \in Admitted => x \in Admitted'
  BY <1>1 DEF OnSyncFinished, Admitted, Base
<1>4. queuedManualSyncSize' = queuedManualSyncSize /\ manualSyncEnable' = manualSyncEnable
  BY DEF OnSyncFinished, sizeVars
<1>5. Waiting' \subseteq Waiting /\ Admitted \subseteq Admitted'
  BY <1>2, <1>3 DEF Waiting, Admitted
<1>6. QED
  BY <1>1, <1>4, <1>5, SizeFrame

LEMMA StopSyncRemoveSize ==
    ASSUME Counting, Inv, SizeInv, NEW o \in Ops, StopSyncRemove(o)
    PROVE  SizeInv'
<1>1. Base /\ Entered(o) /\ Clean(o)
  BY DEF Inv, OpInv
<1>2. \A x \in Ops : x \in Waiting' => x \in Waiting
  BY <1>1, ZenonT(30) DEF StopSyncRemove, Waiting, IsQueued, Kind, Base, Entered
<1>3. \A x \in Ops : x \in Admitted => x \in Admitted'
  BY <1>1 DEF StopSyncRemove, Admitted, Base
<1>4. queuedManualSyncSize' = queuedManualSyncSize /\ manualSyncEnable' = manualSyncEnable
  BY DEF StopSyncRemove, sizeVars
<1>5. Waiting' \subseteq Waiting /\ Admitted \subseteq Admitted'
  BY <1>2, <1>3 DEF Waiting, Admitted
<1>6. QED
  BY <1>1, <1>4, <1>5, SizeFrame

LEMMA KillRemovedSize ==
    ASSUME Counting, Inv, SizeInv, NEW o \in Ops, KillRemoved(o)
    PROVE  SizeInv'
<1>1. Base /\ Entered(o) /\ Clean(o)
  BY DEF Inv, OpInv
<1>2. \A x \in Ops : x \in Waiting' => x \in Waiting
  BY <1>1 DEF KillRemoved, Waiting, IsQueued, Kind, Base, Entered
<1>3. \A x \in Ops : x \in Admitted => x \in Admitted'
  BY <1>1 DEF KillRemoved, Admitted, Base
<1>4. queuedManualSyncSize' = queuedManualSyncSize /\ manualSyncEnable' = manualSyncEnable
  BY DEF KillRemoved, sizeVars
<1>5. Waiting' \subseteq Waiting /\ Admitted \subseteq Admitted'
  BY <1>2, <1>3 DEF Waiting, Admitted
<1>6. QED
  BY <1>1, <1>4, <1>5, SizeFrame

LEMMA ClearSyncOperationsSize ==
    ASSUME Counting, Inv, SizeInv, NEW o \in Ops, ClearSyncOperations(o)
    PROVE  SizeInv'
<1>1. Base /\ Entered(o) /\ Clean(o)
  BY DEF Inv, OpInv
<1>2. \A x \in Ops : x \in Waiting' => x \in Waiting
  BY <1>1 DEF ClearSyncOperations, Waiting, IsQueued, Kind, Base, Entered
<1>3. \A x \in Ops : x \in Admitted => x \in Admitted'
  BY <1>1 DEF ClearSyncOperations, Admitted, Base
<1>4. queuedManualSyncSize' = queuedManualSyncSize /\ manualSyncEnable' = manualSyncEnable
  BY DEF ClearSyncOperations, sizeVars
<1>5. Waiting' \subseteq Waiting /\ Admitted \subseteq Admitted'
  BY <1>2, <1>3 DEF Waiting, Admitted
<1>6. QED
  BY <1>1, <1>4, <1>5, SizeFrame

LEMMA AddQueuedManualSyncSizeSize ==
    ASSUME Counting, Inv, SizeInv, NEW o \in Ops, AddQueuedManualSyncSize(o)
    PROVE  SizeInv'
<1>1. Base /\ Entered(o) /\ pc[o] = "checked" /\ manualSyncEnable' = manualSyncEnable
  BY DEF Inv, OpInv, AddQueuedManualSyncSize
<1>2. o \notin syncOperationMap /\ rem[o] = "no"
  BY <1>1 DEF Entered, Created
<1>3. o \notin Waiting /\ o \notin Admitted
  BY <1>1, <1>2 DEF Waiting, Admitted
<1>4. CASE ~MayQueue(o)
  <2>1. \A x \in Ops : x \in Waiting' => x \in Waiting
    BY <1>1, <1>2, <1>4 DEF AddQueuedManualSyncSize, Waiting, IsQueued, Kind, Base
  <2>2. \A x \in Ops : x \in Admitted => x \in Admitted'
    BY <1>1, <1>4 DEF AddQueuedManualSyncSize, Admitted, Base
  <2>3. queuedManualSyncSize' = queuedManualSyncSize
    BY <1>4 DEF AddQueuedManualSyncSize
  <2>4. Waiting' \subseteq Waiting /\ Admitted \subseteq Admitted'
    BY <2>1, <2>2 DEF Waiting, Admitted
  <2>5. QED
    BY <1>1, <2>3, <2>4, SizeFrame
<1>5. CASE MayQueue(o)
  <2>1. Admitted' = Admitted \union {o}
    BY <1>1, <1>5, ZenonT(30) DEF AddQueuedManualSyncSize, Admitted, Base
  <2>2. /\ queuedManualSyncSize \in Int /\ Cardinality(Waiting) \in Nat /\ Cardinality(Admitted) \in Nat
        /\ Cardinality(Waiting) <= queuedManualSyncSize /\ queuedManualSyncSize <= Cardinality(Admitted)
    BY <1>1, Finite DEF Base, SizeInv
  <2>3. Cardinality(Admitted') = Cardinality(Admitted) + 1
    BY <1>3, <2>1, Finite, GainOne
  <2>4. CASE ~IsQueued(o)
    <3>1. \A x \in Ops : x \in Waiting' <=> x \in Waiting
      BY <1>1, <1>5, <2>4, ZenonT(30) DEF AddQueuedManualSyncSize, Waiting, IsQueued, Kind, Base
    <3>2. Waiting' = Waiting
      BY <3>1 DEF Waiting
    <3>3. queuedManualSyncSize' = queuedManualSyncSize + 0
      BY <1>5, <2>4 DEF AddQueuedManualSyncSize
    <3>4. Cardinality(Waiting') <= queuedManualSyncSize' /\ queuedManualSyncSize' <= Cardinality(Admitted')
      <4>1. Cardinality(Waiting') = Cardinality(Waiting)
        BY <3>2
      <4>2. QED
        BY <2>2, <2>3, <3>3, <4>1, SMT
    <3>5. QED
      BY <1>1, <3>2, <3>4 DEF SizeInv
  <2>5. CASE IsQueued(o)
    <3>1. \A x \in Ops : x \in Waiting' <=> x \in Waiting \/ x = o
      BY <1>1, <1>5, <2>5, ZenonT(30) DEF AddQueuedManualSyncSize, Waiting, IsQueued, Kind, Base
    <3>2. Waiting' = Waiting \union {o}
      BY <3>1 DEF Waiting
    <3>3. queuedManualSyncSize' = queuedManualSyncSize + 1 /\ manualSyncEnable
      BY <1>5, <2>5 DEF AddQueuedManualSyncSize, MayQueue
    <3>4. Cardinality(Waiting') = Cardinality(Waiting) + 1
      BY <1>3, <3>2, Finite, GainOne
    <3>5. Cardinality(Waiting') <= queuedManualSyncSize' /\ queuedManualSyncSize' <= Cardinality(Admitted')
      BY <2>2, <2>3, <3>3, <3>4, SMT
    <3>6. QED
      BY <1>1, <3>3, <3>5 DEF SizeInv
  <2>6. QED
    BY <2>4, <2>5
<1>6. QED
  BY <1>4, <1>5

LEMMA ReleaseRemovedSize ==
    ASSUME Counting, Inv, SizeInv, NEW o \in Ops, ReleaseRemoved(o)
    PROVE  SizeInv'
<1>1. Base /\ Entered(o) /\ rem[o] = "release" /\ manualSyncEnable' = manualSyncEnable
  BY DEF Inv, OpInv, ReleaseRemoved
<1>2. pc[o] \notin {"counted", "adding", "inserting"} /\ o \notin syncOperationMap
  BY <1>1 DEF Entered, Created, Early
<1>3. Waiting' = Waiting \ {o}
  <2>1. \A x \in Ops : x \in Waiting' <=> x \in Waiting /\ x # o
    BY <1>1, <1>2 DEF ReleaseRemoved, Waiting, IsQueued, Kind, Base
  <2>2. QED
    BY <2>1 DEF Waiting
<1>4. Admitted' = Admitted
  BY DEF ReleaseRemoved, Admitted
<1>5. /\ queuedManualSyncSize \in Int /\ Cardinality(Waiting) \in Nat /\ Cardinality(Admitted) \in Nat
      /\ Cardinality(Waiting) <= queuedManualSyncSize /\ queuedManualSyncSize <= Cardinality(Admitted)
  BY <1>1, Finite DEF Base, SizeInv
<1>6. CASE ~IsQueued(o)
  <2>1. queuedManualSyncSize' = queuedManualSyncSize
    BY <1>6 DEF ReleaseRemoved, SubQueuedSyncSize
  <2>2. QED
    BY <1>1, <1>3, <1>4, <2>1, SizeFrame
<1>7. CASE IsQueued(o)
  <2>1. o \in Waiting
    BY <1>1, <1>7 DEF Waiting
  <2>2. Cardinality(Waiting') \in Nat /\ Cardinality(Waiting) = Cardinality(Waiting') + 1
    BY <1>3, <2>1, Finite, LoseOne
  <2>3. queuedManualSyncSize > 0
    BY <1>5, <2>2, SMT
  <2>4. queuedManualSyncSize' = queuedManualSyncSize - 1
    BY <1>7, <2>3 DEF ReleaseRemoved, SubQueuedSyncSize
  <2>5. Cardinality(Waiting') <= queuedManualSyncSize' /\ queuedManualSyncSize' <= Cardinality(Admitted)
    BY <1>5, <2>2, <2>4, SMT
  <2>6. manualSyncEnable
    BY <2>1 DEF SizeInv
  <2>7. QED
    BY <1>1, <1>4, <2>5, <2>6 DEF SizeInv
<1>8. QED
  BY <1>6, <1>7

LEMMA DisableManualSyncSize ==
    ASSUME Counting, Inv, SizeInv, DisableManualSync
    PROVE  SizeInv'
<1>1. Waiting' = Waiting /\ Admitted' = Admitted /\ queuedManualSyncSize' = queuedManualSyncSize /\ queuedManualSyncSize = 0
  BY DEF DisableManualSync, MayDisable, Waiting, Admitted, IsQueued, Kind
<1>2. Cardinality(Waiting) <= queuedManualSyncSize
  BY DEF SizeInv
<1>3. ASSUME NEW x \in Waiting PROVE FALSE
  <2>1. Cardinality(Waiting \ {x}) \in Nat /\ Cardinality(Waiting) = Cardinality(Waiting \ {x}) + 1
    BY <1>3, Finite, LoseOne
  <2>2. QED
    BY <1>1, <1>2, <2>1, SMT
<1>4. Waiting = {}
  BY <1>3
<1>5. QED
  BY <1>1, <1>4 DEF SizeInv

LEMMA EnableManualSyncSize ==
    ASSUME SizeInv, EnableManualSync
    PROVE  SizeInv'
<1>1. Waiting' = Waiting /\ Admitted' = Admitted /\ queuedManualSyncSize' = queuedManualSyncSize /\ manualSyncEnable'
  BY DEF EnableManualSync, Waiting, Admitted, IsQueued, Kind
<1>2. QED
  BY <1>1 DEF SizeInv

LEMMA SizeNext ==
    ASSUME Counting, Inv, SizeInv, [Next]_vars
    PROVE  SizeInv'
<1>1. Base
  BY DEF Inv
<1>2. ASSUME NEW o \in Ops, CallerStep(o) PROVE SizeInv'
  <2>1. ASSUME NEW d \in Devices, AddSyncOperForContext(o, d) PROVE SizeSame
    BY <2>1 DEF AddSyncOperForContext, SizeSame, sizeVars
  <2>2. QED
    BY <1>1, <1>2, <2>1, SameSize, AddQueuedManualSyncSizeSize, PrepareSyncSize, AllAddedSize,
       AddSyncOperationSize, PushSyncIdSize, FinishOrWaitSize, ReturnFinishedSize,
       WaitIfNeedSize, ZenonT(30) DEF CallerStep
<1>3. ASSUME NEW o \in Ops, FinishStep(o) \/ QueuedCallback(o) \/ StopSyncRemove(o) PROVE SizeInv'
  <2>1. UserCallback(o) \/ QueuedCallback(o) => SizeSame
    BY DEF UserCallback, QueuedCallback, SizeSame, sizeVars
  <2>2. QED
    BY <1>1, <1>3, <2>1, SameSize, OnSyncFinishedSize, ReleaseRemovedSize, KillRemovedSize,
       StopSyncRemoveSize DEF FinishStep
<1>4. ASSUME NEW d \in Devices, ContextStep(d) \/ ClearAllSyncTask(d) \/ KillContext(d) PROVE SizeInv'
  <2>1. MoveToNextTarget(d) \/ ClearSyncOperation(d) \/ ClearSyncTarget(d) \/ ClearAllSyncTask(d) \/ KillContext(d) => SizeSame
    BY DEF MoveToNextTarget, ClearSyncOperation, ClearSyncTarget, ClearAllSyncTask, KillContext,
       SizeSame, sizeVars
  <2>2. (\E s \in {"OK", "FAILED"} : SetOperationStatus(d, s)) \/ (\E o \in Ops : ClearPopped(d, o)) => SizeSame
    BY DEF SetOperationStatus, ClearPopped, SizeSame, sizeVars
  <2>3. QED
    BY <1>1, <1>4, <2>1, <2>2, SameSize DEF ContextStep
<1>5. ASSUME NEW t \in Threads, FinishIfAll(t) PROVE SizeInv'
  <2>1. SizeSame
    BY <1>5 DEF FinishIfAll, SizeSame, sizeVars
  <2>2. QED
    BY <1>1, <2>1, SameSize
<1>6. CASE CloseStep
  <2>1. CollectOperations \/ ReleaseTriggered \/ AllCleared \/ Closed => SizeSame
    BY DEF CollectOperations, ReleaseTriggered, AllCleared, Closed, SizeSame, sizeVars
  <2>2. (\E o \in Ops : TriggerSyncFinished(o)) => SizeSame
    BY DEF TriggerSyncFinished, SizeSame, sizeVars
  <2>3. QED
    BY <1>1, <1>4, <1>6, <2>1, <2>2, SameSize, ClearSyncOperationsSize DEF CloseStep
<1>7. CASE Calling
  <2>1. StopSync \/ Close => SizeSame
    BY DEF StopSync, Close, SizeSame, sizeVars
  <2>2. QED
    BY <1>1, <1>4, <1>7, <2>1, SameSize, SyncParamCheckSize, DisableManualSyncSize,
       EnableManualSyncSize DEF Calling
<1>8. CASE UNCHANGED vars
  <2>1. SizeSame
    BY <1>8 DEF vars, SizeSame, sizeVars
  <2>2. QED
    BY <1>1, <2>1, SameSize
<1>9. QED
  BY <1>2, <1>3, <1>4, <1>5, <1>6, <1>7, <1>8 DEF Next, Running

-----------------------------------------------------------------------------
(* What the invariant says of the properties.                              *)
LEMMA Holders ==
    ASSUME Counting, Inv, NEW o \in Ops
    PROVE  /\ op[o].refs \in Nat
           /\ (\/ Created(o) /\ pc[o] # "returned"
               \/ o \in syncOperationMap \/ rem[o] # "no"
               \/ (\E d \in Devices : current[d] = o) \/ o \in collected \/ op[o].pending = 1) => Alive(o)
<1>1. RefsFor(o) /\ Callbacks(o)
  BY DEF Inv, OpInv
<1>2. CreatorRef(o) \in {0, 1} /\ (Created(o) /\ pc[o] # "returned" => CreatorRef(o) = 1)
  BY DEF CreatorRef, Count
<1>3. MapRef(o) \in {0, 1} /\ (o \in syncOperationMap \/ rem[o] # "no" => MapRef(o) = 1)
  BY DEF MapRef, Count
<1>4. CloseRef(o) \in {0, 1} /\ (o \in collected => CloseRef(o) = 1)
  BY DEF CloseRef, Count
<1>5. ContextRefs(o) \in Nat
  BY ContextsNow
<1>6. ASSUME NEW d \in Devices, current[d] = o PROVE ContextRefs(o) > 0
  <2> DEFINE S == {e \in Devices : current[e] = o}
  <2>1. d \in S /\ S \subseteq Devices
    BY <1>6
  <2>2. IsFiniteSet(S)
    BY <2>1, SyncerAssumption DEF Counting, SyncerAssumption
  <2>3. ContextRefs(o) = Cardinality(S)
    BY DEF ContextRefs
  <2> HIDE DEF S
  <2>4. Cardinality(S \ {d}) \in Nat /\ Cardinality(S) = Cardinality(S \ {d}) + 1
    BY <2>1, <2>2, LoseOne
  <2>5. QED
    BY <2>3, <2>4, SMT
<1>7. op[o].pending \in {0, 1} /\ op[o].refs = CreatorRef(o) + MapRef(o) + ContextRefs(o) + CloseRef(o) + op[o].pending
  BY <1>1 DEF RefsFor, Callbacks
<1>8. /\ op[o].refs \in Nat
      /\ (\/ CreatorRef(o) = 1 \/ MapRef(o) = 1 \/ ContextRefs(o) > 0 \/ CloseRef(o) = 1
          \/ op[o].pending = 1) => op[o].refs > 0
  <2>1. CreatorRef(o) \in {0, 1} /\ MapRef(o) \in {0, 1} /\ CloseRef(o) \in {0, 1}
    BY <1>2, <1>3, <1>4
  <2>2. QED
    BY <1>5, <1>7, <2>1, SMT
<1>9. QED
  BY <1>2, <1>3, <1>4, <1>6, <1>8 DEF Alive

(* Whoever is created and not killed is held.                              *)
LEMMA NotKilledIsAlive ==
    ASSUME Counting, Inv, NEW o \in Ops, Created(o), ~op[o].killed
    PROVE  Alive(o)
<1>1. Kept(o)
  BY DEF Inv, OpInv
<1>2. Early(o) \/ Ending(o) => pc[o] # "returned"
  BY DEF Early, Ending
<1>3. QED
  BY <1>1, <1>2, Holders DEF Kept

LEMMA InvRefsExact ==
    ASSUME Inv
    PROVE  RefsExact
  BY DEF Inv, OpInv, RefsFor, RefsExact, CreatorRef, MapRef, ContextRefs, CloseRef

LEMMA InvTypeOK ==
    ASSUME Counting, Inv, SizeInv
    PROVE  TypeOK
<1>1. Base /\ \A o \in Ops : Callbacks(o) /\ Signals(o)
  BY DEF Inv, OpInv
<1>2. op \in [Ops -> [refs : Nat, killed : BOOLEAN, finished : BOOLEAN,
                      status : [Devices -> Finals \union {"WAITING"}],
                      semaphore : {0, 1}, pending : {0, 1}, calls : {0, 1}]]
  <2>1. ASSUME NEW o \in Ops
        PROVE  op[o] \in [refs : Nat, killed : BOOLEAN, finished : BOOLEAN,
                          status : [Devices -> Finals \union {"WAITING"}],
                          semaphore : {0, 1}, pending : {0, 1}, calls : {0, 1}]
    <3>1. op[o] \in OpRecord
      BY <1>1 DEF Base
    <3>2. /\ op[o].refs \in Nat /\ op[o].semaphore \in {0, 1}
          /\ op[o].pending \in {0, 1} /\ op[o].calls \in {0, 1}
      BY <1>1, Holders DEF Callbacks, Signals
    <3>3. QED
      BY <3>1, <3>2 DEF OpRecord
  <2>2. QED
    BY <1>1, <2>1 DEF Base
<1>3. queuedManualSyncSize \in 0 .. Cardinality(Ops)
  <2>1. Admitted \subseteq Ops /\ IsFiniteSet(Ops)
    BY SyncerAssumption DEF Admitted, SyncerAssumption
  <2>2. Cardinality(Admitted) <= Cardinality(Ops) /\ Cardinality(Ops) \in Nat
    BY <2>1 DEF Counting
  <2>3. /\ Cardinality(Waiting) \in Nat /\ Cardinality(Admitted) \in Nat
        /\ Cardinality(Waiting) <= queuedManualSyncSize /\ queuedManualSyncSize <= Cardinality(Admitted)
        /\ queuedManualSyncSize \in Int
    BY <1>1, Finite DEF SizeInv, Base
  <2>4. QED
    BY <2>2, <2>3, SMT
<1>4. QED
  BY <1>1, <1>2, <1>3 DEF Base, TypeOK

LEMMA InvQueuedIsAlive ==
    ASSUME Counting, Inv, SizeInv
    PROVE  QueuedIsAlive
<1>1. Base /\ DeviceInv /\ \A o \in Ops : Fresh(o) /\ Clean(o) /\ Found(o)
  BY DEF Inv, OpInv
<1>2. ASSUME NEW d \in Devices, NEW o \in Targets(queue[d]) PROVE Alive(o)
  <2>1. queue[d] \in Seq(Ops)
    BY <1>1 DEF Base
  <2>2. o \in Ops
    BY <1>2, <2>1, InQueue
  <2>3. Created(o) /\ ~op[o].killed
    BY <1>1, <1>2, <2>2 DEF Fresh, Clean
  <2>4. QED
    BY <2>2, <2>3, NotKilledIsAlive
<1>3. ASSUME NEW d \in Devices, busy[<<"task", d>>] # None PROVE Alive(busy[<<"task", d>>])
  <2>1. current[d] \in Ops /\ busy[<<"task", d>>] = current[d]
    BY <1>1, <1>3 DEF Base, DeviceInv
  <2>2. QED
    BY <2>1, Holders
<1>4. \A d \in Devices : \A o \in Targets(queue[d]) \union {busy[<<"task", d>>]} : o # None => Alive(o)
  BY <1>2, <1>3
<1>5. ASSUME NEW o \in Ops, NEW d \in DevicesOf[o], Created(o), ~op[o].killed, op[o].status[d] = "WAITING"
      PROVE  \/ d \in todo[o] \/ o \in Targets(queue[d]) \/ current[d] = o
             \/ o \in popped[d] \/ d \in killedContext
  <2>1. d \in Devices
    BY <1>1, <1>5, TargetDevices
  <2>2. QED
    BY <1>1, <1>5, <2>1 DEF Found
<1>6. QED
  BY <1>4, <1>5, InvTypeOK DEF QueuedIsAlive

LEMMA InvReportedOnce ==
    ASSUME Counting, Inv
    PROVE  ReportedOnce
<1> SUFFICES ASSUME NEW o \in Ops, Created(o), ~Alive(o), ~UseAfterFree, ~IsAutoSync(o),
                    "schedule" \notin Events
             PROVE  op[o].calls = 1 \/ (~op[o].finished /\ (stopCalled \/ ~initialized))
  BY DEF ReportedOnce
<1>1. Base /\ DeviceInv /\ Gate(o) /\ Callbacks(o) /\ Cut(o)
  BY DEF Inv, OpInv
<1>2. op[o].killed
  BY NotKilledIsAlive
<1>3. CASE ~op[o].finished
  BY <1>1, <1>2, <1>3 DEF Cut
<1>4. CASE op[o].finished
  <2>1. fin[o].at # "call"
    <3>1. ASSUME fin[o].by \in Threads, busy[fin[o].by] = o PROVE FALSE
      <4>1. PICK d \in Devices : fin[o].by = <<"task", d>> \/ fin[o].by = <<"offline", d>>
        BY <3>1, SMT DEF Threads
      <4>2. CASE fin[o].by = <<"task", d>>
        <5>1. current[d] = o
          BY <1>1, <3>1, <4>2, SyncerAssumption DEF DeviceInv, SyncerAssumption
        <5>2. QED
          BY <5>1, Holders
      <4>3. CASE fin[o].by = <<"offline", d>>
        BY <3>1, <4>3 DEF UseAfterFree
      <4>4. QED
        BY <4>1, <4>2, <4>3
    <3>2. ASSUME pc[o] = "finishing" PROVE FALSE
      BY <3>2, Holders
    <3>3. ASSUME triggering = o PROVE FALSE
      <4>1. o \in collected
        BY <1>1, <3>3, SyncerAssumption DEF Base, SyncerAssumption
      <4>2. QED
        BY <4>1, Holders
    <3>4. QED
      BY <1>1, <3>1, <3>2, <3>3 DEF Gate
  <2>2. op[o].pending # 1
    BY Holders
  <2>3. QED
    BY <1>1, <1>4, <2>1, <2>2 DEF Callbacks
<1>5. QED
  BY <1>3, <1>4

LEMMA InvDisabledIsQuiet ==
    ASSUME SizeInv
    PROVE  DisabledIsQuiet
  BY DEF SizeInv, Waiting, DisabledIsQuiet

-----------------------------------------------------------------------------
LEMMA InitInv ==
    ASSUME Counting, Init
    PROVE  Inv /\ SizeInv
<1>1. op \in [Ops -> OpRecord]
  BY SMT DEF Init, NoOperation, OpRecord, Finals
<1>2. /\ queue \in [Devices -> Seq(Ops)]
      /\ \A d \in Devices : NoRepeat(queue[d]) /\ Targets(queue[d]) = {}
  BY EmptyQueue DEF Init
<1>3. Base
  <2>1. queuedManualSyncSize \in Int
    BY SMT DEF Init
  <2>2. QED
    BY <1>1, <1>2, <2>1 DEF Init, Base
<1>4. DeviceInv
  BY <1>2 DEF Init, DeviceInv, Threads
<1>5. ASSUME NEW o \in Ops PROVE OpInv(o)
  <2>1. /\ op[o].refs = 0 /\ op[o].killed = FALSE /\ op[o].finished = FALSE
        /\ op[o].semaphore = 0 /\ op[o].pending = 0 /\ op[o].calls = 0
        /\ pc[o] = "idle" /\ rem[o] = "no" /\ fin[o].at = "no" /\ todo[o] = {}
        /\ syncOperationMap = {} /\ collected = {} /\ None \notin Ops
        /\ \A d \in Devices : current[d] = None /\ popped[d] = {}
        /\ \A t \in Threads : busy[t] = None
    BY SyncerAssumption DEF Init, NoOperation, SyncerAssumption
  <2>2. ~Created(o) /\ ~Early(o) /\ ~Ending(o)
    BY <2>1 DEF Created, Early, Ending
  <2>3. Fresh(o) /\ Entered(o) /\ Kept(o) /\ Done(o)
    BY <1>2, <2>1, <2>2 DEF Fresh, Entered, Kept, Done
  <2>4. Clean(o) /\ Found(o) /\ Gate(o)
    BY <1>2, <2>1, <2>2 DEF Clean, Found, Gate
  <2>5. Callbacks(o) /\ Signals(o) /\ Cut(o)
    BY <2>1, <2>2 DEF Callbacks, Signals, Cut
  <2>6. RefsFor(o)
    <3>1. CreatorRef(o) = 0 /\ MapRef(o) = 0 /\ CloseRef(o) = 0
      BY <2>1, <2>2 DEF CreatorRef, MapRef, CloseRef, Count
    <3>2. ContextRefs(o) = 0
      <4>1. {d \in Devices : current[d] = o} = {}
        BY <2>1
      <4>2. QED
        BY <4>1 DEF ContextRefs, Counting
    <3>3. op[o].refs = CreatorRef(o) + MapRef(o) + ContextRefs(o) + CloseRef(o) + op[o].pending
      BY <2>1, <3>1, <3>2, SMT
    <3>4. QED
      BY <3>3 DEF RefsFor
  <2>7. QED
    BY <2>3, <2>4, <2>5, <2>6 DEF OpInv
<1>6. SizeInv
  <2>1. Waiting = {} /\ Admitted = {}
    BY DEF Init, Waiting, Admitted
  <2>2. Cardinality(Waiting) = 0 /\ Cardinality(Admitted) = 0 /\ queuedManualSyncSize = 0
    BY <2>1 DEF Counting, Init
  <2>3. Cardinality(Waiting) <= queuedManualSyncSize /\ queuedManualSyncSize <= Cardinality(Admitted)
    BY <2>2, SMT
  <2>4. QED
    BY <2>1, <2>3 DEF SizeInv
<1>7. QED
  BY <1>3, <1>4, <1>5, <1>6 DEF Inv
-----------------------------------------------------------------------------
(* The theorems.  The facts about counting come from the library.          *)
INSTANCE FiniteSetTheorems

LEMMA LibraryCounts == Counting
<1>1. Cardinality({}) = 0
  BY FS_EmptySet, Zenon
<1>2. \A S : IsFiniteSet(S) => Cardinality(S) \in Nat
  BY FS_CardinalityType, Zenon
<1>3. \A S, T : IsFiniteSet(S) /\ T \subseteq S => IsFiniteSet(T) /\ Cardinality(T) <= Cardinality(S)
  BY FS_Subset, Zenon
<1>4. \A S, x : IsFiniteSet(S) /\ x \notin S =>
          IsFiniteSet(S \union {x}) /\ Cardinality(S \union {x}) = Cardinality(S) + 1
  BY FS_AddElement, Zenon
<1>5. QED
  BY <1>1, <1>2, <1>3, <1>4, Zenon DEF Counting

(* The invariant holds in every state that Sync, StopSync, Close and the    *)
(* device tasks can reach.                                                 *)
THEOREM Invariance == Spec => [](Inv /\ SizeInv)
<1>1. Init => Inv /\ SizeInv
  BY LibraryCounts, InitInv, Zenon
<1>2. Inv /\ SizeInv /\ [Next]_vars => Inv' /\ SizeInv'
  BY LibraryCounts, InvNext, SizeNext, Zenon
<1>3. QED
  BY <1>1, <1>2, PTL DEF Spec

(* The reference count of a SyncOperation is the number of its holders,    *)
(* for any operations, devices and limits and whatever happens.            *)
THEOREM RefsTheorem == Spec => []RefsExact
<1>1. Inv => RefsExact
  BY InvRefsExact, Zenon
<1>2. QED
  BY <1>1, Invariance, PTL

(* The targets in the queue of a context point to operations that are not  *)
(* freed, the operation a device task is inside of is not freed, and no    *)
(* target is lost.                                                         *)
THEOREM AliveTheorem == Spec => []QueuedIsAlive
<1>1. Inv /\ SizeInv => QueuedIsAlive
  BY LibraryCounts, InvQueuedIsAlive, Zenon
<1>2. QED
  BY <1>1, Invariance, PTL

(* An operation that is freed was reported once, or it was stopped or      *)
(* closed before it was finished.                                          *)
THEOREM ReportTheorem == Spec => []ReportedOnce
<1>1. Inv => ReportedOnce
  BY LibraryCounts, InvReportedOnce, Zenon
<1>2. QED
  BY <1>1, Invariance, PTL

(* While manual sync is disabled no manual sync that DisableManualSync     *)
(* would have to wait for is on its way.                                   *)
THEOREM DisabledTheorem == Spec => []DisabledIsQuiet
<1>1. SizeInv => DisabledIsQuiet
  BY InvDisabledIsQuiet, Zenon
<1>2. QED
  BY <1>1, Invariance, PTL
=============================================================================
