------------------------ MODULE SingleVerStoreProofs ------------------------
(* For every number of keys, connections and peers, every clock and every packet:
   a local write is never dropped for its timestamp, rows written here become
   visible in the order of their timestamps, protected rows are changed by
   connections only, and the observers are told what a transaction amounts to.

   The inductive invariant says where time stands: no row is later than the last
   time GetTime returned; a peer's rows are not later than the time of its last
   packet, and its next packet has a later time, which leaves room to raise a row
   by one; and a connection about to write, which holds the write handle since it
   read the time, has a time later than everything in the tables.  A second one
   (NInv), which needs the first, says what the notification data of an open
   transaction know of each key: the row and the local record as they were before
   the transaction, and what they are in its image of the tables. *)
EXTENDS SingleVerStore, TLAPS

-----------------------------------------------------------------------------
LEMMA Distinct == Here \notin Procs /\ Conns \intersect Peers = {} /\ Keys # {}
  BY StoreAssumption, Zenon DEF StoreAssumption

(* What SaveSyncDataItem does to a row. *)

\* A local item is stored as it is, or the row stays.
LEMMA LocalSave ==
    ASSUME NEW item \in Item, NEW row \in Row, NEW policy, item.local, item.status # "miss", item.status # "none"
    PROVE  LET s == SaveSyncDataItem(item, row, Here, TRUE, policy)
           IN /\ s \in Row
              /\ s = row \/ (s.w = item.w /\ s.ts = item.ts /\ s.dev = Here /\ s.local)
<1>1. Judged(item, row, Here, TRUE) = item  BY Zenon DEF Judged, IsForced
<1>2. SavedRow(item, row, Here) \in Row
  BY Zenon DEF SavedRow, GetOriginDevName, Item, Row
<1>3. SavedRow(item, row, Here).w = item.w /\ SavedRow(item, row, Here).ts = item.ts
      /\ SavedRow(item, row, Here).dev = Here /\ SavedRow(item, row, Here).local
  BY Zenon DEF SavedRow
<1>. QED  BY <1>1, <1>2, <1>3, Zenon DEF SaveSyncDataItem

\* A received item is stored with its stamp or one above the row of the same device,
\* erases the row, or leaves it.
PeerSaved(s, item, row, b, policy) ==
    /\ s \in Row
    /\ \/ s = row
       \/ s = NoRow
       \/ s.dev = b /\ ~s.local /\ (s.w = item.w \/ (row.dev = b /\ s.w = row.w + 1))
    /\ policy = "deny" /\ s # row =>
          /\ ~(Exists(row) /\ row.orig = Here)
          /\ s = NoRow \/ s.orig # Here

LEMMA PeerSave ==
    ASSUME NEW item \in Item, NEW row \in Row, NEW b \in Peers, NEW permit, NEW policy, ~item.local, item.status # "none"
    PROVE  PeerSaved(SaveSyncDataItem(item, row, b, permit, policy), item, row, b, policy)
<1> DEFINE j == Judged(item, row, b, permit)
           s == SaveSyncDataItem(item, row, b, permit, policy)
<1>1. /\ j \in Item /\ ~j.local /\ j.orig = item.orig /\ j.status = item.status
      /\ j.w = item.w \/ (row.dev = b /\ j.w = row.w + 1)
  <2>1. CASE IsForced(item, row, b, permit)
    <3>1. j = [item EXCEPT !.w = row.w + 1, !.ts = row.ts]  BY <2>1, Zenon DEF Judged, Bumped
    <3>2. row.w + 1 \in Stamps /\ row.ts \in Stamps  BY DEF Row, Stamps
    <3> HIDE DEF j
    <3>3. j = [status |-> item.status, value |-> item.value, ts |-> row.ts, w |-> row.w + 1, dev |-> item.dev,
               orig |-> item.orig, local |-> item.local]
      BY <3>1, Zenon DEF Item
    <3>4. j \in Item  BY <3>2, <3>3, Zenon DEF Item
    <3>. QED  BY <3>3, <3>4, <2>1, Zenon DEF IsForced
  <2>2. CASE ~IsForced(item, row, b, permit)
    BY <2>2, Zenon DEF Judged
  <2>. QED  BY <2>1, <2>2, Zenon
<1>2. NoRow \in Row  BY Zenon DEF NoRow, Row, Stamps
<1>3. SavedRow(j, row, b) = NoRow \/ (SavedRow(j, row, b) \in Row /\ SavedRow(j, row, b).dev = b
          /\ ~SavedRow(j, row, b).local /\ SavedRow(j, row, b).w = j.w /\ SavedRow(j, row, b).orig = item.orig)
  BY <1>1, Zenon DEF SavedRow, GetOriginDevName, Item, Row
<1>4. s = row \/ (s = SavedRow(j, row, b) /\ IsSaved(item, row, b, permit, policy))
  BY Zenon DEF SaveSyncDataItem
<1>5. IsSaved(item, row, b, permit, policy) /\ policy = "deny" =>
          ~(Exists(row) /\ row.orig = Here) /\ item.orig # Here
  BY Zenon DEF IsSaved, IsNeedIgnoredData
<1> HIDE DEF j, s
<1>6. s \in Row  BY <1>2, <1>3, <1>4, Zenon
<1>7. s = row \/ s = NoRow \/ (s.dev = b /\ ~s.local /\ (s.w = item.w \/ (row.dev = b /\ s.w = row.w + 1)))
  BY <1>1, <1>3, <1>4, Zenon
<1>8. policy = "deny" /\ s # row => ~(Exists(row) /\ row.orig = Here) /\ (s = NoRow \/ s.orig # Here)
  BY <1>3, <1>4, <1>5, Zenon
<1>9. PeerSaved(s, item, row, b, policy)  BY <1>6, <1>7, <1>8, Zenon DEF PeerSaved
<1>. QED  BY <1>9, Zenon DEF s

-----------------------------------------------------------------------------
(* The inductive invariant. *)
Operation == [kind : Kinds, key : Keys, item : Item, move : BOOLEAN, update : BOOLEAN, ask : BOOLEAN,
              auto : BOOLEAN]
Places == {"idle", "open", "batch", "trans", "save", "commit", "rollback", "notify"}
Holding == {"open", "batch", "save", "commit", "rollback"}

Types ==
    /\ scenario \in Scenarios
    /\ db \in Database /\ work \in Database
    /\ owner \in Conns \union {Here}
    /\ pc \in [Procs -> Places]
    /\ op \in [Procs -> Operation]
    /\ stamp \in [Procs -> Stamps] /\ last \in Stamps
    /\ saved \in [Peers -> Stamps]
    /\ done \in [writes : Nat, packets : Nat, removes : Nat]

Handle ==
    /\ \A c \in Conns : owner = c <=> pc[c] \in Holding
    /\ owner = Here => work = db

\* A row of an image of the tables is in the past: of the last time t, and of the times of the last packets.
RowBefore(row, t, packets, policy) ==
    /\ row.w <= t
    /\ row.local => row.ts <= t
    /\ \A b \in Peers : row.dev = b => row.w <= packets[b] /\ (policy = "deny" => row.orig # Here)

RowPast(row) == RowBefore(row, last, saved, scenario.policy)

Past(tables) == \A k \in Keys : RowPast(tables.sync[k]) /\ tables.local[k].ts <= last

\* The packet of a peer has a time of its own.
Packet ==
    \A b \in Peers :
        /\ saved[b] <= last
        /\ pc[b] \in {"trans", "save"} => stamp[b] > saved[b] /\ ~op[b].item.local /\ op[b].item.status # "none"
        /\ pc[b] = "save" => op[b].item.w <= stamp[b] /\ stamp[b] <= last

\* A connection about to write is ahead of the tables.
Ahead ==
    \A c \in Conns : pc[c] = "save" =>
        \A k \in Keys : stamp[c] > work.sync[k].w /\ (db.sync[k].local => stamp[c] > db.sync[k].ts)

\* What is written and not committed is ahead of what is committed.
Written ==
    \A j, k \in Keys :
        work.sync[k] # db.sync[k] /\ work.sync[k].local /\ db.sync[j].local => work.sync[k].ts > db.sync[j].ts

IInv == Types /\ Handle /\ Past(db) /\ Past(work) /\ Packet /\ Ahead /\ Written

\* The store starts empty.
LEMMA IInvInit == Init => IInv
<1> SUFFICES ASSUME Init PROVE IInv
  OBVIOUS
<1> USE Distinct
<1>1. NoRow \in Row /\ NoRow \in Item  BY Zenon DEF NoRow, Row, Item, Stamps
<1>2. NoOp \in Operation
  <2>1. (CHOOSE k \in Keys : TRUE) \in Keys  OBVIOUS
  <2>2. "put" \in Kinds  BY Zenon DEF Kinds, Batch
  <2>. QED  BY <1>1, <2>1, <2>2, Zenon DEF NoOp, Operation
<1>3. db \in Database
  BY <1>1, Zenon DEF Init, Database, NoLocal, Stamps
<1>4. \A k \in Keys : db.sync[k] = NoRow /\ db.local[k] = NoLocal
  BY Zenon DEF Init
<1>5. Types
  BY <1>2, <1>3, Zenon DEF Types, Init, Places, Stamps
<1>6. Handle
  BY Zenon DEF Handle, Init, Holding, Procs
<1>7. Past(db) /\ Past(work)
  <2>1. NoRow.w = 0 /\ ~NoRow.local /\ NoRow.dev = Here /\ NoLocal.ts = 0 /\ last = 1 /\ work = db
    BY Zenon DEF Init, NoRow, NoLocal
  <2>2. \A b \in Peers : NoRow.dev # b  BY <2>1, Zenon DEF Procs
  <2>3. NoRow.w <= last /\ NoLocal.ts <= last  BY <2>1
  <2>4. RowPast(NoRow)  BY <2>1, <2>2, <2>3, Zenon DEF RowPast, RowBefore
  <2>. QED  BY <1>4, <2>1, <2>3, <2>4, Zenon DEF Past
<1>8. Packet /\ Ahead
  BY DEF Packet, Ahead, Init, Procs
<1>9. Written
  BY <1>4, Zenon DEF Written, Init
<1>. QED  BY <1>5, <1>6, <1>7, <1>8, <1>9, Zenon DEF IInv

-----------------------------------------------------------------------------
(* Steps that leave the tables alone. *)

\* GetTime gives a time later than the last one.
LEMMA ReadsLater ==
    ASSUME NEW p \in Procs, last \in Stamps, stamp \in [Procs -> Stamps], ReadTime(p)
    PROVE  /\ stamp' \in [Procs -> Stamps] /\ stamp'[p] > last
           /\ \A q \in Procs \ {p} : stamp'[q] = stamp[q]
<1>1. PICK step \in ClockSteps : stamp' = [stamp EXCEPT ![p] = IF step <= 0 THEN last + 1 ELSE last + step]
  BY Zenon DEF ReadTime
<1>2. step \in Int  BY StoreAssumption, Zenon DEF StoreAssumption
<1>3. (IF step <= 0 THEN last + 1 ELSE last + step) \in Stamps /\ (IF step <= 0 THEN last + 1 ELSE last + step) > last
  BY <1>2 DEF Stamps
<1>. QED  BY <1>1, <1>3, Zenon

\* What is in the past stays in the past.
LEMMA BeforeLater ==
    ASSUME NEW row \in Row, NEW t \in Nat, NEW later \in Nat, t <= later, NEW packets, NEW more, NEW policy,
           \A b \in Peers : packets[b] \in Nat /\ more[b] \in Nat /\ packets[b] <= more[b],
           RowBefore(row, t, packets, policy)
    PROVE  RowBefore(row, later, more, policy)
<1>1. row.w \in Nat /\ row.ts \in Nat  BY Zenon DEF Row, Stamps
<1>2. row.w <= t /\ (row.local => row.ts <= t)  BY Zenon DEF RowBefore
<1>3. row.w <= later /\ (row.local => row.ts <= later)  BY <1>1, <1>2
<1>4. ASSUME NEW b \in Peers, row.dev = b
      PROVE  row.w <= more[b] /\ (policy = "deny" => row.orig # Here)
  <2>1. row.w <= packets[b] /\ (policy = "deny" => row.orig # Here)  BY <1>4, Zenon DEF RowBefore
  <2>2. packets[b] \in Nat /\ more[b] \in Nat /\ packets[b] <= more[b]  OBVIOUS
  <2>3. row.w <= more[b]  BY <1>1, <2>1, <2>2
  <2>. QED  BY <2>1, <2>3, Zenon
<1>. QED  BY <1>3, <1>4, Zenon DEF RowBefore

\* The same for tables
LEMMA TablesLater ==
    ASSUME NEW tables \in Database, Past(tables), Types, last' \in Nat, last <= last', scenario' = scenario,
           \A b \in Peers : saved'[b] \in Nat /\ saved[b] <= saved'[b]
    PROVE  \A k \in Keys : RowBefore(tables.sync[k], last', saved', scenario'.policy) /\ tables.local[k].ts <= last'
<1>1. last \in Nat /\ \A b \in Peers : saved[b] \in Nat  BY Zenon DEF Types, Stamps
<1> SUFFICES ASSUME NEW k \in Keys
             PROVE  RowBefore(tables.sync[k], last', saved', scenario'.policy) /\ tables.local[k].ts <= last'
  BY Zenon
<1>2. tables.sync[k] \in Row /\ tables.local[k].ts \in Nat  BY Zenon DEF Database, Stamps
<1>3. RowBefore(tables.sync[k], last, saved, scenario.policy) /\ tables.local[k].ts <= last  BY Zenon DEF Past, RowPast
<1>4. RowBefore(tables.sync[k], last', saved', scenario.policy)  BY <1>1, <1>2, <1>3, BeforeLater, Zenon
<1>5. tables.local[k].ts <= last'  BY <1>1, <1>2, <1>3
<1>. QED  BY <1>4, <1>5, Zenon

\* Tables that do not change stay in the past.
LEMMA QuietStep ==
    ASSUME IInv, UNCHANGED <<scenario, db, work, saved>>, last' \in Stamps, last' >= last,
           Types', Handle', Packet', Ahead'
    PROVE  IInv'
<1>1. Past(db)' /\ Past(work)'
  <2>1. Types /\ Past(db) /\ Past(work) /\ db \in Database /\ work \in Database  BY Zenon DEF IInv, Types
  <2>2. last \in Nat /\ last' \in Nat /\ \A b \in Peers : saved[b] \in Nat  BY <2>1, Zenon DEF Types, Stamps
  <2>3. last <= last' /\ \A b \in Peers : saved'[b] \in Nat /\ saved[b] <= saved'[b]  BY <2>2
  <2>. QED  BY <2>1, <2>2, <2>3, TablesLater, Zenon DEF Past, RowPast
<1>2. Written'  BY Zenon DEF IInv, Written
<1>. QED  BY <1>1, <1>2, Zenon DEF IInv

LEMMA NoOpType == NoOp \in Operation
<1> USE Distinct
<1>1. NoRow \in Item  BY Zenon DEF NoRow, Item, Stamps
<1>2. (CHOOSE k \in Keys : TRUE) \in Keys  OBVIOUS
<1>3. "put" \in Kinds  BY Zenon DEF Kinds, Batch
<1>. QED  BY <1>1, <1>2, <1>3, Zenon DEF NoOp, Operation

LEMMA ScenarioFacts ==
    ASSUME IInv
    PROVE  (\A k \in scenario.keys : k \in Keys) /\ (\A kind \in scenario.kinds : kind \in Kinds)
<1>1. scenario \in Scenarios  BY Zenon DEF IInv, Types
<1>2. scenario.keys \subseteq Keys /\ scenario.kinds \subseteq Kinds  BY <1>1, StoreAssumption, Zenon DEF StoreAssumption
<1>. QED  BY <1>2, Zenon

\* A connection takes the handle, or a thread has told the observers.
LEMMA StartStep ==
    ASSUME IInv, NEW c \in Conns, StartTransaction(c) \/ StartAuto(c)
    PROVE  IInv'
<1> USE Distinct
<1>1. /\ UNCHANGED <<scenario, db, work, op, stamp, last, saved, done>>
      /\ owner = Here /\ owner' = c
      /\ \E to \in {"open", "batch"} : pc' = [pc EXCEPT ![c] = to]
  BY Zenon DEF StartTransaction, StartAuto, StartTransactionInner, Goto, timeVars, histVars
<1>2. Types'  BY <1>1, Zenon DEF IInv, Types, Places, Procs
<1>3. Handle'  BY <1>1, Zenon DEF IInv, Handle, Types, Holding, Procs
<1>4. Packet'  BY <1>1, Zenon DEF IInv, Packet, Types, Procs
<1>5. Ahead'  BY <1>1, Zenon DEF IInv, Ahead, Types, Procs
<1>6. last' \in Stamps /\ last' >= last  BY <1>1 DEF IInv, Types, Stamps
<1>. QED  BY <1>1, <1>2, <1>3, <1>4, <1>5, <1>6, QuietStep, Zenon

LEMMA NotifyStep ==
    ASSUME IInv, NEW p \in Procs, CommitNotify(p)
    PROVE  IInv'
<1> USE Distinct
<1>1. /\ UNCHANGED <<scenario, db, work, owner, op, stamp, last, saved, done>>
      /\ pc[p] = "notify" /\ pc' = [pc EXCEPT ![p] = "idle"]
  BY Zenon DEF CommitNotify, Goto, timeVars, histVars, storeVars
<1>2. Types'  BY <1>1, Zenon DEF IInv, Types, Places, Procs
<1>3. Handle'  BY <1>1, Zenon DEF IInv, Handle, Types, Holding, Procs
<1>4. Packet'  BY <1>1, Zenon DEF IInv, Packet, Types, Procs
<1>5. Ahead'  BY <1>1, Zenon DEF IInv, Ahead, Types, Procs
<1>6. last' \in Stamps /\ last' >= last  BY <1>1 DEF IInv, Types, Stamps
<1>. QED  BY <1>1, <1>2, <1>3, <1>4, <1>5, <1>6, QuietStep, Zenon

\* A connection that holds the handle, or takes it, reads the time of its entry.
LEMMA EntryStep ==
    ASSUME IInv, NEW c \in Conns, NextEntry(c) \/ StartPublish(c)
    PROVE  IInv'
<1> USE Distinct
<1>0. c \in Procs  BY Zenon DEF Procs
<1>1. /\ UNCHANGED <<scenario, db, work, last, saved>>
      /\ ReadTime(c)
      /\ owner' = c /\ (owner = c \/ owner = Here)
      /\ pc' = [pc EXCEPT ![c] = "save"]
      /\ done' = [done EXCEPT !.writes = @ + 1]
  BY Zenon DEF NextEntry, StartPublish, StartTransactionInner, Goto, timeVars, histVars, storeVars, IInv, Handle, Holding
<1>2. op' \in [Procs -> Operation] /\ \A q \in Procs \ {c} : op'[q] = op[q]
  <2>1. CASE NextEntry(c)
    <3>1. PICK kind \in scenario.kinds \intersect Batch, k \in scenario.keys :
              op' = [op EXCEPT ![c] = [NoOp EXCEPT !.kind = kind, !.key = k, !.auto = (pc[c] = "batch")]]
      BY <2>1, Zenon DEF NextEntry
    <3>2. k \in Keys /\ kind \in Kinds  BY ScenarioFacts, Zenon
    <3>3. [NoOp EXCEPT !.kind = kind, !.key = k, !.auto = (pc[c] = "batch")] \in Operation
      BY <3>2, NoOpType, Zenon DEF Operation
    <3>. QED  BY <3>1, <3>3, Zenon DEF IInv, Types
  <2>2. CASE StartPublish(c)
    <3>1. PICK kind \in scenario.kinds \ Batch, k \in scenario.keys, move, update, ask \in BOOLEAN :
              op' = [op EXCEPT ![c] = [NoOp EXCEPT !.kind = kind, !.key = k, !.move = move, !.update = update,
                                                   !.ask = ask]]
      BY <2>2, ZenonT(30) DEF StartPublish
    <3>2. k \in Keys /\ kind \in Kinds  BY ScenarioFacts, Zenon
    <3>3. [NoOp EXCEPT !.kind = kind, !.key = k, !.move = move, !.update = update, !.ask = ask] \in Operation
      BY <3>2, NoOpType, Zenon DEF Operation
    <3>. QED  BY <3>1, <3>3, Zenon DEF IInv, Types
  <2>. QED  BY <2>1, <2>2, Zenon
<1>3. stamp' \in [Procs -> Stamps] /\ stamp'[c] > last /\ \A q \in Procs \ {c} : stamp'[q] = stamp[q]
  BY <1>0, <1>1, ReadsLater, Zenon DEF IInv, Types
<1>4. Types'
  <2>1. done' \in [writes : Nat, packets : Nat, removes : Nat]  BY <1>1 DEF IInv, Types
  <2>2. pc' \in [Procs -> Places] /\ owner' \in Conns \union {Here}  BY <1>1, Zenon DEF IInv, Types, Places
  <2>. QED  BY <1>1, <1>2, <1>3, <2>1, <2>2, Zenon DEF IInv, Types
<1>5. Handle'  BY <1>1, Zenon DEF IInv, Handle, Types, Holding, Procs
<1>6. Packet'
  <2> SUFFICES ASSUME NEW b \in Peers
               PROVE  /\ saved'[b] <= last'
                      /\ pc'[b] \in {"trans", "save"} =>
                            stamp'[b] > saved'[b] /\ ~op'[b].item.local /\ op'[b].item.status # "none"
                      /\ pc'[b] = "save" => op'[b].item.w <= stamp'[b] /\ stamp'[b] <= last'
    BY Zenon DEF Packet
  <2>1. b \in Procs \ {c}  BY Zenon DEF Procs
  <2>2. pc'[b] = pc[b] /\ op'[b] = op[b] /\ stamp'[b] = stamp[b]
    BY <1>1, <1>2, <1>3, <2>1, Zenon DEF IInv, Types
  <2>. QED  BY <1>1, <2>2, Zenon DEF IInv, Packet
<1>7. Ahead'
  <2> SUFFICES ASSUME NEW d \in Conns, pc'[d] = "save", NEW k \in Keys
               PROVE  stamp'[d] > work.sync[k].w /\ (db.sync[k].local => stamp'[d] > db.sync[k].ts)
    BY <1>1, Zenon DEF Ahead
  <2>1. d = c
    BY <1>1, Zenon DEF IInv, Handle, Types, Holding, Procs
  <2>2. work.sync[k].w \in Nat /\ db.sync[k].ts \in Nat /\ last \in Nat /\ stamp'[c] \in Nat
    BY <1>0, <1>3, Zenon DEF IInv, Types, Database, Row, Stamps
  <2>3. work.sync[k].w <= last /\ (db.sync[k].local => db.sync[k].ts <= last)
    BY Zenon DEF IInv, Past, RowPast, RowBefore
  <2>. QED  BY <1>3, <2>1, <2>2, <2>3
<1>8. last' \in Stamps /\ last' >= last  BY <1>1 DEF IInv, Types, Stamps
<1>. QED  BY <1>1, <1>4, <1>5, <1>6, <1>7, <1>8, QuietStep, Zenon

\* A packet comes: its items have any stamps, its time is later than the last one.
LEMMA ReceiveStep ==
    ASSUME IInv, NEW b \in Peers, Receive(b)
    PROVE  IInv'
<1> USE Distinct
<1>0. b \in Procs /\ b \notin Conns  BY Zenon DEF Procs
<1>1. /\ UNCHANGED <<scenario, db, work, owner, last, saved>>
      /\ ReadTime(b)
      /\ pc' = [pc EXCEPT ![b] = "trans"]
      /\ done' = [done EXCEPT !.packets = @ + 1]
  BY Zenon DEF Receive, Goto, histVars, storeVars
<1>2. op' \in [Procs -> Operation] /\ (\A q \in Procs \ {b} : op'[q] = op[q])
      /\ ~op'[b].item.local /\ op'[b].item.status # "none"
  <2>1. PICK k \in scenario.keys, status \in {"live", "deleted", "miss"}, w \in PeerStamps, orig \in {Here, b} :
            op' = [op EXCEPT ![b] = [NoOp EXCEPT !.key = k, !.item = PacketItem(b, status, w, orig)]]
    BY Zenon DEF Receive
  <2> DEFINE item == PacketItem(b, status, w, orig)
  <2>2. done.packets \in Nat  BY Zenon DEF IInv, Types
  <2>3. item \in Item
    <3>1. w \in Nat  BY StoreAssumption, Zenon DEF StoreAssumption
    <3> DEFINE v == IF status = "live" THEN 100 + done.packets ELSE 0
    <3>2. v \in Nat  BY <2>2
    <3>3. item = [status |-> status, value |-> v, ts |-> w, w |-> w, dev |-> b, orig |-> orig, local |-> FALSE]
      BY Zenon DEF PacketItem
    <3> HIDE DEF v, item
    <3>. QED  BY <3>1, <3>2, <3>3, Zenon DEF Item, Stamps
  <2>4. k \in Keys  BY ScenarioFacts, Zenon
  <2>5. ~item.local /\ item.status # "none"  BY Zenon DEF PacketItem
  <2> HIDE DEF item
  <2>6. [NoOp EXCEPT !.key = k, !.item = item] \in Operation  BY <2>3, <2>4, NoOpType, Zenon DEF Operation
  <2>7. [NoOp EXCEPT !.key = k, !.item = item].item = item  BY NoOpType, Zenon DEF Operation
  <2>8. op' = [op EXCEPT ![b] = [NoOp EXCEPT !.key = k, !.item = item]]  BY <2>1, Zenon DEF item
  <2>9. op \in [Procs -> Operation]  BY Zenon DEF IInv, Types
  <2>. QED  BY <1>0, <2>5, <2>6, <2>7, <2>8, <2>9, Zenon
<1>3. stamp' \in [Procs -> Stamps] /\ stamp'[b] > last /\ \A q \in Procs \ {b} : stamp'[q] = stamp[q]
  BY <1>0, <1>1, ReadsLater, Zenon DEF IInv, Types
<1>4. Types'
  <2>1. done' \in [writes : Nat, packets : Nat, removes : Nat]  BY <1>1 DEF IInv, Types
  <2>2. pc' \in [Procs -> Places]  BY <1>1, Zenon DEF IInv, Types, Places
  <2>. QED  BY <1>1, <1>2, <1>3, <2>1, <2>2, Zenon DEF IInv, Types
<1>5. Handle'  BY <1>0, <1>1, Zenon DEF IInv, Handle, Types, Procs
<1>6. Packet'
  <2> SUFFICES ASSUME NEW d \in Peers
               PROVE  /\ saved'[d] <= last'
                      /\ pc'[d] \in {"trans", "save"} =>
                            stamp'[d] > saved'[d] /\ ~op'[d].item.local /\ op'[d].item.status # "none"
                      /\ pc'[d] = "save" => op'[d].item.w <= stamp'[d] /\ stamp'[d] <= last'
    BY Zenon DEF Packet
  <2>1. CASE d = b
    <3>1. saved[b] \in Nat /\ last \in Nat /\ stamp'[b] \in Nat  BY <1>0, <1>3, Zenon DEF IInv, Types, Stamps
    <3>2. saved[b] <= last  BY Zenon DEF IInv, Packet
    <3>3. pc'[b] = "trans"  BY <1>0, <1>1, Zenon DEF IInv, Types
    <3>. QED  BY <1>1, <1>2, <1>3, <2>1, <3>1, <3>2, <3>3
  <2>2. CASE d # b
    <3>1. d \in Procs \ {b}  BY <2>2, Zenon DEF Procs
    <3>2. pc'[d] = pc[d] /\ op'[d] = op[d] /\ stamp'[d] = stamp[d]
      BY <1>1, <1>2, <1>3, <3>1, Zenon DEF IInv, Types
    <3>. QED  BY <1>1, <3>2, Zenon DEF IInv, Packet
  <2>. QED  BY <2>1, <2>2, Zenon
<1>7. Ahead'
  <2>1. \A c \in Conns : c \in Procs \ {b} /\ pc'[c] = pc[c] /\ stamp'[c] = stamp[c]
    BY <1>0, <1>1, <1>3, Zenon DEF IInv, Types, Procs
  <2>. QED  BY <1>1, <2>1, Zenon DEF IInv, Ahead
<1>8. last' \in Stamps /\ last' >= last  BY <1>1 DEF IInv, Types, Stamps
<1>. QED  BY <1>1, <1>4, <1>5, <1>6, <1>7, <1>8, QuietStep, Zenon

\* An item brought into the past is an item of the same kind.
LEMMA InPastItem ==
    ASSUME NEW item \in Item, NEW now \in Nat
    PROVE  /\ InPast(item, now) \in Item /\ InPast(item, now).w <= now
           /\ InPast(item, now).local = item.local /\ InPast(item, now).status = item.status
           /\ InPast(item, now).value = item.value
<1>1. item.ts \in Nat /\ item.w \in Nat  BY Zenon DEF Item, Stamps
<1>2. NotBeyond(item.ts, now) \in Stamps /\ NotBeyond(item.w, now) \in Stamps /\ NotBeyond(item.w, now) <= now
  BY <1>1 DEF NotBeyond, Stamps
<1>3. \A t, w \in Stamps : LET new == [item EXCEPT !.ts = t, !.w = w]
                           IN /\ new \in Item /\ new.w = w /\ new.local = item.local /\ new.status = item.status
                              /\ new.value = item.value
  BY Zenon DEF Item
<1>. QED  BY <1>2, <1>3, Zenon DEF InPast

\* The items are brought into the past of the packet's time, which becomes the last time.
LEMMA TransStep ==
    ASSUME IInv, NEW b \in Peers, TransSendDataItemToLocal(b)
    PROVE  IInv'
<1> USE Distinct
<1>0. b \in Procs /\ b \notin Conns  BY Zenon DEF Procs
<1>1. /\ UNCHANGED <<scenario, db, work, owner, stamp, saved, done>>
      /\ pc[b] = "trans" /\ pc' = [pc EXCEPT ![b] = "save"]
      /\ last' = SetLast(stamp[b])
      /\ op' = [op EXCEPT ![b].item = InPast(op[b].item, stamp[b])]
  BY Zenon DEF TransSendDataItemToLocal, Goto, histVars, storeVars
<1>2. stamp[b] \in Nat /\ last \in Nat /\ op[b] \in Operation /\ op[b].item \in Item
  BY <1>0, Zenon DEF IInv, Types, Stamps, Operation
<1>3. last' \in Stamps /\ last' >= last /\ stamp[b] <= last'
  BY <1>1, <1>2 DEF SetLast, Stamps
<1> DEFINE old == op[b].item
           new == InPast(old, stamp[b])
<1>4. new \in Item /\ new.w <= stamp[b] /\ new.local = old.local /\ new.status = old.status
  BY <1>2, InPastItem, Zenon
<1>5. op' = [op EXCEPT ![b] = [op[b] EXCEPT !.item = new]]
  BY <1>0, <1>1, Zenon
<1> HIDE DEF new
<1>6. op' \in [Procs -> Operation] /\ op'[b].item = new /\ \A q \in Procs \ {b} : op'[q] = op[q]
  <2>1. [op[b] EXCEPT !.item = new] \in Operation /\ [op[b] EXCEPT !.item = new].item = new
    BY <1>2, <1>4, Zenon DEF Operation
  <2>2. op \in [Procs -> Operation]  BY Zenon DEF IInv, Types
  <2>. QED  BY <1>0, <1>5, <2>1, <2>2, Zenon
<1>7. Types'
  <2>1. pc' \in [Procs -> Places]  BY <1>1, Zenon DEF IInv, Types, Places
  <2>. QED  BY <1>1, <1>3, <1>6, <2>1, Zenon DEF IInv, Types
<1>8. Handle'  BY <1>0, <1>1, Zenon DEF IInv, Handle, Types, Procs
<1>9. Packet'
  <2> SUFFICES ASSUME NEW d \in Peers
               PROVE  /\ saved'[d] <= last'
                      /\ pc'[d] \in {"trans", "save"} =>
                            stamp'[d] > saved'[d] /\ ~op'[d].item.local /\ op'[d].item.status # "none"
                      /\ pc'[d] = "save" => op'[d].item.w <= stamp'[d] /\ stamp'[d] <= last'
    BY Zenon DEF Packet
  <2>0. saved[d] \in Nat /\ stamp[d] \in Nat /\ last' \in Nat  BY <1>3, Zenon DEF IInv, Types, Stamps, Procs
  <2>1. CASE d = b
    <3>1. stamp[b] > saved[b] /\ ~old.local /\ old.status # "none"  BY <1>1, Zenon DEF IInv, Packet
    <3>2. pc'[b] = "save"  BY <1>0, <1>1, Zenon DEF IInv, Types
    <3>. QED  BY <1>1, <1>2, <1>3, <1>4, <1>6, <2>0, <2>1, <3>1, <3>2
  <2>2. CASE d # b
    <3>1. d \in Procs \ {b}  BY <2>2, Zenon DEF Procs
    <3>2. pc'[d] = pc[d] /\ op'[d] = op[d]
      BY <1>1, <1>6, <3>1, Zenon DEF IInv, Types
    <3>3. saved[d] <= last /\ (pc[d] = "save" => stamp[d] <= last)  BY Zenon DEF IInv, Packet
    <3>4. saved[d] <= last' /\ (pc[d] = "save" => stamp[d] <= last')  BY <1>2, <1>3, <2>0, <3>3
    <3>. QED  BY <1>1, <3>2, <3>4, Zenon DEF IInv, Packet
  <2>. QED  BY <2>1, <2>2, Zenon
<1>10. Ahead'
  <2>1. \A c \in Conns : pc'[c] = pc[c] /\ stamp'[c] = stamp[c]
    BY <1>0, <1>1, Zenon DEF IInv, Types, Procs
  <2>. QED  BY <1>1, <2>1, Zenon DEF IInv, Ahead
<1>. QED  BY <1>1, <1>3, <1>7, <1>8, <1>9, <1>10, QuietStep, Zenon

-----------------------------------------------------------------------------
(* Local writes. *)

\* A row as a connection writes it
WrittenBy(c, row) == row.w <= SetLast(stamp[c]) /\ row.ts = stamp[c] /\ row.dev = Here /\ row.local

\* What the three writing operations have in common: the frame, and the image they make
WriteFrame(c) ==
    /\ pc[c] = "save" /\ UNCHANGED <<scenario, db, owner, saved, done>>
    /\ last' = SetLast(stamp[c]) /\ EndOp(c)
    /\ \E to \in {"open", "batch", "commit", "rollback"} : pc' = [pc EXCEPT ![c] = to]

Writes(c, new) ==
    /\ new \in Database
    /\ \A k \in Keys : new.sync[k] = work.sync[k] \/ WrittenBy(c, new.sync[k])
    /\ \A k \in Keys : new.local[k].ts <= SetLast(stamp[c])

LEMMA LocalWriteStep ==
    ASSUME IInv, NEW c \in Conns, WriteFrame(c), Writes(c, work')
    PROVE  IInv'
<1> USE Distinct
<1>a. /\ pc[c] = "save" /\ UNCHANGED <<scenario, db, owner, saved, done>> /\ last' = SetLast(stamp[c]) /\ EndOp(c)
      /\ \E to \in {"open", "batch", "commit", "rollback"} : pc' = [pc EXCEPT ![c] = to]
  BY Zenon DEF WriteFrame
<1>b. /\ work' \in Database
      /\ \A k \in Keys : work'.sync[k] = work.sync[k] \/ WrittenBy(c, work'.sync[k])
      /\ \A k \in Keys : work'.local[k].ts <= last'
  BY <1>a, Zenon DEF Writes
<1>0. c \in Procs /\ owner = c  BY <1>a, Zenon DEF Procs, IInv, Handle, Holding
<1>1. stamp[c] \in Nat /\ last \in Nat  BY <1>0, Zenon DEF IInv, Types, Stamps
<1>2. last' \in Stamps /\ last' >= last /\ stamp[c] <= last'  BY <1>1, <1>a DEF SetLast, Stamps
<1>3. /\ op' \in [Procs -> Operation] /\ stamp' \in [Procs -> Stamps]
      /\ \A q \in Procs \ {c} : op'[q] = op[q] /\ stamp'[q] = stamp[q] /\ pc'[q] = pc[q]
  <2>1. op \in [Procs -> Operation] /\ stamp \in [Procs -> Stamps] /\ pc \in [Procs -> Places] /\ 0 \in Stamps
    BY Zenon DEF IInv, Types, Stamps
  <2>. QED  BY <1>0, <1>a, <2>1, NoOpType, Zenon DEF EndOp
<1>4. Types'
  <2>1. pc' \in [Procs -> Places]  BY <1>a, Zenon DEF IInv, Types, Places
  <2>2. Types  BY Zenon DEF IInv
  <2>. QED  BY <1>2, <1>3, <1>a, <1>b, <2>1, <2>2, Zenon DEF Types
<1>5. Handle'
  <2>1. \A d \in Conns : d # c => pc'[d] = pc[d]  BY <1>3, Zenon DEF Procs
  <2>2. pc'[c] \in Holding  BY <1>0, <1>a, Zenon DEF IInv, Types, Holding
  <2>3. owner' = c /\ owner' # Here  BY <1>0, <1>a, Zenon
  <2>. QED  BY <1>0, <2>1, <2>2, <2>3, Zenon DEF IInv, Handle
<1>c. Types /\ last' \in Nat /\ last <= last' /\ scenario' = scenario
      /\ \A b \in Peers : saved[b] \in Nat /\ saved'[b] \in Nat /\ saved[b] <= saved'[b]
  <2>1. Types /\ \A b \in Peers : saved[b] \in Nat  BY Zenon DEF IInv, Types, Stamps
  <2>. QED  BY <1>1, <1>2, <1>a, <2>1 DEF Stamps
<1>6. Past(db)'
  <2>1. db \in Database /\ Past(db)  BY Zenon DEF IInv, Types
  <2>. QED  BY <1>a, <1>c, <2>1, TablesLater, Zenon DEF Past, RowPast
<1>7. Past(work)'
  <2> SUFFICES ASSUME NEW k \in Keys PROVE RowBefore(work'.sync[k], last', saved', scenario'.policy)
    BY <1>b, Zenon DEF Past, RowPast
  <2>1. work \in Database /\ Past(work)  BY Zenon DEF IInv, Types
  <2>2. CASE work'.sync[k] = work.sync[k]  BY <1>c, <2>1, <2>2, TablesLater, Zenon
  <2>3. CASE WrittenBy(c, work'.sync[k])
    <3>1. work'.sync[k].w <= last' /\ work'.sync[k].ts <= last' /\ work'.sync[k].dev = Here
      BY <1>2, <1>a, <2>3, Zenon DEF WrittenBy
    <3>2. \A b \in Peers : work'.sync[k].dev # b  BY <3>1, Zenon DEF Procs
    <3>. QED  BY <3>1, <3>2, Zenon DEF RowBefore
  <2>. QED  BY <1>b, <2>2, <2>3, Zenon
<1>8. Packet'
  <2> SUFFICES ASSUME NEW d \in Peers
               PROVE  /\ saved'[d] <= last'
                      /\ pc'[d] \in {"trans", "save"} =>
                            stamp'[d] > saved'[d] /\ ~op'[d].item.local /\ op'[d].item.status # "none"
                      /\ pc'[d] = "save" => op'[d].item.w <= stamp'[d] /\ stamp'[d] <= last'
    BY Zenon DEF Packet
  <2>1. d \in Procs \ {c}  BY Zenon DEF Procs
  <2>2. saved[d] \in Nat /\ stamp[d] \in Nat  BY <2>1, Zenon DEF IInv, Types, Stamps
  <2>3. saved[d] <= last /\ (pc[d] = "save" => stamp[d] <= last)  BY Zenon DEF IInv, Packet
  <2>4. saved[d] <= last' /\ (pc[d] = "save" => stamp[d] <= last')  BY <1>1, <1>c, <2>2, <2>3
  <2>5. pc'[d] = pc[d] /\ op'[d] = op[d] /\ stamp'[d] = stamp[d] /\ saved' = saved  BY <1>3, <1>a, <2>1, Zenon
  <2>. QED  BY <2>4, <2>5, Zenon DEF IInv, Packet
<1>9. Ahead'
  <2>1. \A d \in Conns : d # c => pc[d] # "save"  BY <1>0, Zenon DEF IInv, Handle, Holding
  <2>2. \A d \in Conns : d # c => pc'[d] = pc[d]  BY <1>3, Zenon DEF Procs
  <2>3. pc'[c] # "save"
    <3>1. pc'[c] \in {"open", "batch", "commit", "rollback"}  BY <1>0, <1>a, Zenon DEF IInv, Types
    <3>. QED  BY <3>1, Zenon
  <2>. QED  BY <2>1, <2>2, <2>3, Zenon DEF Ahead
<1>10. Written'
  <2> SUFFICES ASSUME NEW j \in Keys, NEW k \in Keys, work'.sync[k] # db.sync[k], work'.sync[k].local, db.sync[j].local
               PROVE  work'.sync[k].ts > db.sync[j].ts
    BY <1>a, Zenon DEF Written
  <2>1. CASE work'.sync[k] = work.sync[k]  BY <2>1, Zenon DEF IInv, Written
  <2>2. CASE WrittenBy(c, work'.sync[k])  BY <1>a, <2>2, Zenon DEF WrittenBy, IInv, Ahead
  <2>. QED  BY <1>b, <2>1, <2>2, Zenon
<1>. QED  BY <1>4, <1>5, <1>6, <1>7, <1>8, <1>9, <1>10, Zenon DEF IInv

\* The images the writing operations make: a row and a local record of one key change.
Image(new, t, k, row, rec) ==
    /\ new \in Database
    /\ new.sync[k] = row /\ new.local[k] = rec
    /\ \A j \in Keys \ {k} : new.sync[j] = t.sync[j] /\ new.local[j] = t.local[j]

LEMMA ImageOf ==
    ASSUME NEW t \in Database, NEW k \in Keys, NEW row \in Row, NEW rec \in [value : Nat, ts : Stamps]
    PROVE  Image(With(t, k, row, rec), t, k, row, rec)
<1>1. t.sync \in [Keys -> Row] /\ t.local \in [Keys -> [value : Nat, ts : Stamps]]  BY Zenon DEF Database
<1>2. [t.sync EXCEPT ![k] = row] \in [Keys -> Row] /\ [t.local EXCEPT ![k] = rec] \in [Keys -> [value : Nat, ts : Stamps]]
  BY <1>1, Zenon
<1>3. With(t, k, row, rec) \in Database  BY <1>2, Zenon DEF Database, With
<1>. QED  BY <1>1, <1>3, Zenon DEF With, Image

\* The images of the writing operations, in the words of LocalWriteStep
LEMMA ConnFacts ==
    ASSUME IInv, NEW c \in Conns
    PROVE  /\ c \in Procs /\ stamp[c] \in Nat /\ last \in Nat /\ op[c].key \in Keys /\ work \in Database
           /\ SetLast(stamp[c]) \in Nat /\ stamp[c] <= SetLast(stamp[c]) /\ last <= SetLast(stamp[c])
           /\ \A j \in Keys : work.local[j] \in [value : Nat, ts : Stamps] /\ work.local[j].ts <= SetLast(stamp[c])
<1>1. Types /\ Past(work)  BY Zenon DEF IInv
<1>2. c \in Procs  BY Zenon DEF Procs
<1>3. stamp[c] \in Nat /\ last \in Nat /\ op[c] \in Operation /\ work \in Database  BY <1>1, <1>2, Zenon DEF Types, Stamps
<1>4. op[c].key \in Keys  BY <1>3, Zenon DEF Operation
<1>5. SetLast(stamp[c]) \in Nat /\ stamp[c] <= SetLast(stamp[c]) /\ last <= SetLast(stamp[c])  BY <1>3 DEF SetLast
<1>6. ASSUME NEW j \in Keys
      PROVE  work.local[j] \in [value : Nat, ts : Stamps] /\ work.local[j].ts <= SetLast(stamp[c])
  <2>1. work.local[j] \in [value : Nat, ts : Stamps]  BY <1>3, Zenon DEF Database
  <2>2. work.local[j].ts <= last  BY <1>1, Zenon DEF Past
  <2>3. work.local[j].ts \in Nat  BY <2>1, Zenon DEF Stamps
  <2> HIDE DEF SetLast
  <2>. QED  BY <1>3, <1>5, <2>1, <2>2, <2>3
<1>. QED  BY <1>2, <1>3, <1>4, <1>5, <1>6, Zenon

LEMMA NoLocalFacts ==
    ASSUME IInv, NEW c \in Conns
    PROVE  NoLocal \in [value : Nat, ts : Stamps] /\ NoLocal.ts <= SetLast(stamp[c])
<1>1. SetLast(stamp[c]) \in Nat  BY ConnFacts, Zenon
<1> HIDE DEF SetLast
<1>. QED  BY <1>1 DEF NoLocal, Stamps

LEMMA WriteNothing ==
    ASSUME IInv, NEW c \in Conns
    PROVE  Writes(c, work)
  BY ConnFacts, Zenon DEF Writes

LEMMA WriteRow ==
    ASSUME IInv, NEW c \in Conns, NEW k \in Keys, NEW rec \in [value : Nat, ts : Stamps], NEW item \in Item,
           item.local, item.status # "miss", item.status # "none", item.w <= SetLast(stamp[c]), item.ts = stamp[c],
           rec.ts <= SetLast(stamp[c])
    PROVE  Writes(c, With(work, k, SaveSyncDataItem(item, work.sync[k], Here, TRUE, scenario.policy), rec))
<1> DEFINE row == SaveSyncDataItem(item, work.sync[k], Here, TRUE, scenario.policy)
           new == With(work, k, row, rec)
<1>1. work \in Database /\ work.sync[k] \in Row
  <2>1. work \in Database  BY ConnFacts, Zenon
  <2>. QED  BY <2>1, Zenon DEF Database
<1>2. row \in Row /\ (row = work.sync[k] \/ (row.w = item.w /\ row.ts = item.ts /\ row.dev = Here /\ row.local))
  BY <1>1, LocalSave, Zenon
<1>3. row = work.sync[k] \/ WrittenBy(c, row)  BY <1>2, Zenon DEF WrittenBy
<1> HIDE DEF row
<1>4. Image(new, work, k, row, rec)  BY <1>1, <1>2, ImageOf, Zenon
<1> HIDE DEF new
<1>5. \A j \in Keys : new.sync[j] = work.sync[j] \/ WrittenBy(c, new.sync[j])  BY <1>3, <1>4, Zenon DEF Image
<1>6. \A j \in Keys : new.local[j].ts <= SetLast(stamp[c])  BY <1>4, ConnFacts, Zenon DEF Image
<1>7. Writes(c, new)  BY <1>4, <1>5, <1>6, Zenon DEF Writes, Image
<1>. QED  BY <1>7, Zenon DEF new, row

LEMMA WriteLocal ==
    ASSUME IInv, NEW c \in Conns, NEW k \in Keys, NEW rec \in [value : Nat, ts : Stamps], rec.ts <= SetLast(stamp[c])
    PROVE  Writes(c, With(work, k, work.sync[k], rec))
<1> DEFINE new == With(work, k, work.sync[k], rec)
<1>1. work \in Database /\ work.sync[k] \in Row
  <2>1. work \in Database  BY ConnFacts, Zenon
  <2>. QED  BY <2>1, Zenon DEF Database
<1>2. Image(new, work, k, work.sync[k], rec)  BY <1>1, ImageOf, Zenon
<1> HIDE DEF new
<1>3. \A j \in Keys : new.sync[j] = work.sync[j]  BY <1>2, Zenon DEF Image
<1>4. \A j \in Keys : new.local[j].ts <= SetLast(stamp[c])  BY <1>2, ConnFacts, Zenon DEF Image
<1>5. Writes(c, new)  BY <1>2, <1>3, <1>4, Zenon DEF Writes, Image
<1>. QED  BY <1>5, Zenon DEF new

\* What an entry of a batch does to the tables
LEMMA BatchCases ==
    ASSUME NEW c \in Conns, SaveBatchEntry(c)
    PROVE  LET k == op[c].key
           IN \/ UNCHANGED <<work, note>>
              \/ \E v \in NewValues : SaveEntry(c, k, Entry(c, "live", v, stamp[c]))
              \/ SaveEntry(c, k, Entry(c, "deleted", 0, stamp[c]))
              \/ \E v \in NewValues : PutLocal(c, k, v, stamp[c])
              \/ DeleteLocal(c, k)
<1> DEFINE k == op[c].key
<1> HIDE DEF k
<1>1. \/ UNCHANGED <<work, note>>
      \/ \E v \in NewValues : SaveEntry(c, k, Entry(c, "live", v, stamp[c]))
      \/ SaveEntry(c, k, Entry(c, "deleted", 0, stamp[c]))
      \/ \E v \in NewValues : PutLocal(c, k, v, stamp[c])
      \/ DeleteLocal(c, k)
  BY Zenon DEF SaveBatchEntry, Batch, k
<1>. QED  BY <1>1, Zenon DEF k

LEMMA SaveBatchEntryStep ==
    ASSUME IInv, NEW c \in Conns, SaveBatchEntry(c)
    PROVE  IInv'
<1> DEFINE k == op[c].key
<1>0. k \in Keys /\ stamp[c] \in Nat /\ work.local[k] \in [value : Nat, ts : Stamps]
      /\ stamp[c] <= SetLast(stamp[c]) /\ work.local[k].ts <= SetLast(stamp[c])
  BY ConnFacts, Zenon
<1>1. \A v \in NewValues : v \in Nat
  <2>1. done \in [writes : Nat, packets : Nat, removes : Nat]  BY Zenon DEF IInv, Types
  <2>. QED  BY <2>1 DEF NewValues
<1>2. WriteFrame(c)  BY Zenon DEF SaveBatchEntry, histVars, WriteFrame
<1>3. Writes(c, work')
  <2>1. CASE work' = work  BY <2>1, WriteNothing, Zenon
  <2>2. ASSUME NEW v \in NewValues, SaveEntry(c, k, Entry(c, "live", v, stamp[c])) PROVE Writes(c, work')
    <3> DEFINE item == Entry(c, "live", v, stamp[c])
    <3>1. item \in Item /\ item.local /\ item.status = "live" /\ item.w = stamp[c] /\ item.ts = stamp[c]
      BY <1>0, <1>1, Zenon DEF Entry, Item, Stamps
    <3>2. work' = With(work, k, SaveSyncDataItem(item, work.sync[k], Here, TRUE, scenario.policy), work.local[k])
      BY <2>2, Zenon DEF SaveEntry
    <3>3. item.status # "miss" /\ item.status # "none"  BY <3>1, Zenon
    <3> HIDE DEF item
    <3>. QED  BY <1>0, <3>1, <3>2, <3>3, WriteRow, Zenon
  <2>3. CASE SaveEntry(c, k, Entry(c, "deleted", 0, stamp[c]))
    <3> DEFINE item == Entry(c, "deleted", 0, stamp[c])
    <3>1. item \in Item /\ item.local /\ item.status = "deleted" /\ item.w = stamp[c] /\ item.ts = stamp[c]
      BY <1>0, Zenon DEF Entry, Item, Stamps
    <3>2. work' = With(work, k, SaveSyncDataItem(item, work.sync[k], Here, TRUE, scenario.policy), work.local[k])
      BY <2>3, Zenon DEF SaveEntry
    <3>3. item.status # "miss" /\ item.status # "none"  BY <3>1, Zenon
    <3> HIDE DEF item
    <3>. QED  BY <1>0, <3>1, <3>2, <3>3, WriteRow, Zenon
  <2>4. ASSUME NEW v \in NewValues, PutLocal(c, k, v, stamp[c]) PROVE Writes(c, work')
    <3> DEFINE rec == [value |-> v, ts |-> stamp[c]]
    <3>1. rec \in [value : Nat, ts : Stamps] /\ rec.ts = stamp[c]
      BY <1>0, <1>1, Zenon DEF Stamps
    <3>2. work' = With(work, k, work.sync[k], rec)  BY <2>4, Zenon DEF PutLocal
    <3> HIDE DEF rec
    <3>. QED  BY <1>0, <3>1, <3>2, WriteLocal, Zenon
  <2>5. CASE DeleteLocal(c, k) /\ work' # work
    <3>1. NoLocal \in [value : Nat, ts : Stamps] /\ NoLocal.ts <= SetLast(stamp[c])  BY NoLocalFacts, Zenon
    <3>2. work' = With(work, k, work.sync[k], NoLocal)  BY <2>5, Zenon DEF DeleteLocal
    <3>. QED  BY <1>0, <3>1, <3>2, WriteLocal, Zenon
  <2>. QED  BY <2>1, <2>2, <2>3, <2>4, <2>5, BatchCases, Zenon
<1>. QED  BY <1>2, <1>3, LocalWriteStep, Zenon

LEMMA PublishLocalStep ==
    ASSUME IInv, NEW c \in Conns, PublishLocal(c)
    PROVE  IInv'
<1> DEFINE o == op[c]  k == o.key  mine == work.local[k]  row == work.sync[k]
           w == IF Exists(row) /\ o.update THEN stamp[c] ELSE mine.ts
           item == Entry(c, "live", mine.value, w)
           rec == IF o.move THEN NoLocal ELSE mine
<1>0. k \in Keys /\ stamp[c] \in Nat /\ mine \in [value : Nat, ts : Stamps]
      /\ stamp[c] <= SetLast(stamp[c]) /\ mine.ts <= SetLast(stamp[c])
  BY ConnFacts, Zenon
<1>1. WriteFrame(c)  BY Zenon DEF PublishLocal, histVars, WriteFrame
<1>2. work' = work \/ work' = With(work, k, SaveSyncDataItem(item, row, Here, TRUE, scenario.policy), rec)
  BY Zenon DEF PublishLocal
<1>3. CASE work' = work
  BY <1>1, <1>3, WriteNothing, LocalWriteStep, Zenon
<1>4. CASE work' = With(work, k, SaveSyncDataItem(item, row, Here, TRUE, scenario.policy), rec)
  <2>1. w \in Stamps /\ w <= SetLast(stamp[c])
    <3>1. mine.ts \in Stamps  BY <1>0, Zenon
    <3> HIDE DEF mine
    <3>. QED  BY <1>0, <3>1, Zenon DEF Stamps
  <2> HIDE DEF w
  <2>2. mine.value \in Nat  BY <1>0, Zenon
  <2>3. item \in Item /\ item.local /\ item.status = "live" /\ item.w = w /\ item.ts = stamp[c]
    <3> HIDE DEF mine
    <3>. QED  BY <1>0, <2>1, <2>2, Zenon DEF Entry, Item, Stamps
  <2>4. item.status # "miss" /\ item.status # "none"  BY <2>3, Zenon
  <2>5. rec \in [value : Nat, ts : Stamps] /\ rec.ts <= SetLast(stamp[c])
    <3>1. NoLocal \in [value : Nat, ts : Stamps] /\ NoLocal.ts <= SetLast(stamp[c])  BY NoLocalFacts, Zenon
    <3>. QED  BY <1>0, <3>1, Zenon
  <2> HIDE DEF item, rec
  <2>6. Writes(c, work')  BY <1>0, <1>4, <2>1, <2>3, <2>4, <2>5, WriteRow, Zenon
  <2>. QED  BY <1>1, <2>6, LocalWriteStep, Zenon
<1>. QED  BY <1>2, <1>3, <1>4, Zenon

LEMMA UnpublishToLocalStep ==
    ASSUME IInv, NEW c \in Conns, UnpublishToLocal(c)
    PROVE  IInv'
<1> DEFINE o == op[c]  k == o.key  mine == work.local[k]  row == work.sync[k]
           ts == IF o.update THEN stamp[c] ELSE row.w
           deletion == Entry(c, "deleted", 0, stamp[c])
           kept == IF ~PublicWins(o) THEN mine
                   ELSE IF Live(row) THEN [value |-> row.value, ts |-> ts] ELSE NoLocal
<1>0. k \in Keys /\ stamp[c] \in Nat /\ last \in Nat /\ mine \in [value : Nat, ts : Stamps] /\ SetLast(stamp[c]) \in Nat
      /\ stamp[c] <= SetLast(stamp[c]) /\ last <= SetLast(stamp[c]) /\ mine.ts <= SetLast(stamp[c])
  BY ConnFacts, Zenon
<1>1. WriteFrame(c)  BY Zenon DEF UnpublishToLocal, histVars, WriteFrame
<1>2. \/ work' = work
      \/ work' = With(work, k, SaveSyncDataItem(deletion, row, Here, TRUE, scenario.policy), kept)
      \/ work' = With(work, k, row, kept)
  BY Zenon DEF UnpublishToLocal
<1>3. row.w \in Nat /\ row.value \in Nat /\ row.w <= SetLast(stamp[c])
  <2>1. work \in Database  BY ConnFacts, Zenon
  <2>2. row \in Row  BY <1>0, <2>1, Zenon DEF Database
  <2>3. row.w <= last  BY <1>0, Zenon DEF IInv, Past, RowPast, RowBefore
  <2>4. row.w \in Nat /\ row.value \in Nat  BY <2>2, Zenon DEF Row, Stamps
  <2> HIDE DEF row, SetLast
  <2>. QED  BY <1>0, <2>3, <2>4
<1>4. kept \in [value : Nat, ts : Stamps] /\ kept.ts <= SetLast(stamp[c])
  <2>1. ts \in Stamps /\ ts <= SetLast(stamp[c])  BY <1>0, <1>3, Zenon DEF Stamps
  <2> HIDE DEF ts
  <2> DEFINE rec == [value |-> row.value, ts |-> ts]
  <2>2. rec \in [value : Nat, ts : Stamps] /\ rec.ts = ts
    <3> HIDE DEF row
    <3>. QED  BY <1>3, <2>1, Zenon
  <2>3. NoLocal \in [value : Nat, ts : Stamps] /\ NoLocal.ts <= SetLast(stamp[c])  BY NoLocalFacts, Zenon
  <2>4. kept = mine \/ kept = rec \/ kept = NoLocal  BY Zenon
  <2> HIDE DEF kept, rec, mine
  <2>. QED  BY <1>0, <2>1, <2>2, <2>3, <2>4, Zenon
<1> HIDE DEF kept
<1>5. CASE work' = work
  BY <1>1, <1>5, WriteNothing, LocalWriteStep, Zenon
<1>6. CASE work' = With(work, k, SaveSyncDataItem(deletion, row, Here, TRUE, scenario.policy), kept)
  <2>1. deletion \in Item /\ deletion.local /\ deletion.status = "deleted" /\ deletion.w = stamp[c] /\ deletion.ts = stamp[c]
    BY <1>0, Zenon DEF Entry, Item, Stamps
  <2>2. deletion.status # "miss" /\ deletion.status # "none"  BY <2>1, Zenon
  <2> HIDE DEF deletion
  <2>3. Writes(c, work')  BY <1>0, <1>4, <1>6, <2>1, <2>2, WriteRow, Zenon
  <2>. QED  BY <1>1, <2>3, LocalWriteStep, Zenon
<1>7. CASE work' = With(work, k, row, kept)
  <2>1. Writes(c, work')  BY <1>0, <1>4, <1>7, WriteLocal, Zenon
  <2>. QED  BY <1>1, <2>1, LocalWriteStep, Zenon
<1>. QED  BY <1>2, <1>5, <1>6, <1>7, Zenon

-----------------------------------------------------------------------------
(* The handle is given back. *)
LEMMA EndStep ==
    ASSUME IInv, NEW c \in Conns, CommitInner(c) \/ RollbackInner(c)
    PROVE  IInv'
<1> USE Distinct
<1>1. /\ UNCHANGED <<scenario, op, stamp, last, saved, done>>
      /\ pc[c] \in Holding /\ owner' = Here /\ work' = db'
      /\ db' = db \/ db' = work
      /\ \E to \in {"notify", "idle"} : pc' = [pc EXCEPT ![c] = to]
  BY Zenon DEF CommitInner, RollbackInner, timeVars, histVars, Holding
<1>2. owner = c /\ c \in Procs  BY <1>1, Zenon DEF IInv, Handle, Procs
<1>3. db' \in Database  BY <1>1, Zenon DEF IInv, Types
<1>4. Types'  BY <1>1, <1>3, Zenon DEF IInv, Types, Places
<1>5. \A d \in Conns : pc'[d] \notin Holding  BY <1>1, <1>2, Zenon DEF IInv, Types, Handle, Holding, Procs
<1>6. Handle'  BY <1>1, <1>5, Zenon DEF Handle, Procs
<1>7. Past(db)' /\ Past(work)'
  <2>1. \A k \in Keys : RowPast(db.sync[k]) /\ RowPast(work.sync[k]) /\ db.local[k].ts <= last /\ work.local[k].ts <= last
    BY Zenon DEF IInv, Past
  <2>2. UNCHANGED <<scenario, last, saved>> /\ work' = db' /\ (db' = db \/ db' = work)  BY <1>1, Zenon
  <2>. QED  BY <2>1, <2>2, Zenon DEF Past, RowPast
<1>8. Packet'
  <2>1. \A b \in Peers : pc'[b] = pc[b]  BY <1>1, <1>2, Zenon DEF IInv, Types, Procs
  <2>. QED  BY <1>1, <2>1, Zenon DEF IInv, Packet
<1>9. Ahead'  BY <1>5, Zenon DEF Ahead, Holding
<1>10. Written'  BY <1>1, Zenon DEF Written
<1>. QED  BY <1>4, <1>6, <1>7, <1>8, <1>9, <1>10, Zenon DEF IInv

-----------------------------------------------------------------------------
(* Data of other devices. *)
LEMMA NoRowPast == ASSUME last \in Nat PROVE NoRow \in Row /\ RowPast(NoRow)
<1>1. NoRow \in Row /\ NoRow.w = 0 /\ ~NoRow.local /\ NoRow.dev = Here  BY Zenon DEF NoRow, Row, Stamps
<1>2. \A b \in Peers : NoRow.dev # b  BY <1>1, StoreAssumption, Zenon DEF StoreAssumption, Procs
<1>3. NoRow.w <= last  BY <1>1
<1>. QED  BY <1>1, <1>2, <1>3, Zenon DEF RowPast, RowBefore

\* A packet is saved: the rows of its device may be raised, up to the packet's time.
LEMMA SaveSyncItemsStep ==
    ASSUME IInv, NEW b \in Peers, SaveSyncItems(b)
    PROVE  IInv'
<1> USE Distinct
<1> DEFINE k == op[b].key  item == op[b].item  row == db.sync[k]
           new == SaveSyncDataItem(item, row, b, scenario.permit, scenario.policy)
<1>0. /\ b \in Procs /\ b \notin Conns /\ k \in Keys /\ item \in Item /\ row \in Row
      /\ stamp[b] \in Nat /\ last \in Nat /\ item.w \in Nat /\ row.w \in Nat /\ saved[b] \in Nat
  <2>1. b \in Procs /\ b \notin Conns  BY Zenon DEF Procs
  <2>2. k \in Keys /\ item \in Item  BY <2>1, Zenon DEF IInv, Types, Operation
  <2>3. row \in Row  BY <2>2, Zenon DEF IInv, Types, Database
  <2>. QED  BY <2>1, <2>2, <2>3, Zenon DEF IInv, Types, Item, Row, Stamps
<1>1. /\ UNCHANGED <<scenario, owner, last, done>> /\ owner = Here /\ work' = db' /\ EndOp(b)
      /\ \E to \in {"notify", "idle"} : pc' = [pc EXCEPT ![b] = to]
      /\ \/ db' = With(db, k, new, db.local[k]) /\ saved' = [saved EXCEPT ![b] = stamp[b]]
         \/ UNCHANGED <<db, saved>>
  BY Zenon DEF SaveSyncItems
<1>2. ~item.local /\ item.status # "none" /\ item.w <= stamp[b] /\ stamp[b] <= last /\ stamp[b] > saved[b]
  BY Zenon DEF SaveSyncItems, IInv, Packet
<1>3. /\ new \in Row
      /\ new = row \/ new = NoRow \/ (new.dev = b /\ ~new.local /\ (new.w = item.w \/ (row.dev = b /\ new.w = row.w + 1)))
      /\ scenario.policy = "deny" /\ new # row => new = NoRow \/ new.orig # Here
  <2>1. PeerSaved(new, item, row, b, scenario.policy)  BY <1>0, <1>2, PeerSave, Zenon
  <2> HIDE DEF new, item, row
  <2>. QED  BY <2>1, Zenon DEF PeerSaved
<1> HIDE DEF new
<1>4. /\ op' \in [Procs -> Operation] /\ stamp' \in [Procs -> Stamps] /\ pc' \in [Procs -> Places]
      /\ \A q \in Procs \ {b} : op'[q] = op[q] /\ stamp'[q] = stamp[q] /\ pc'[q] = pc[q]
      /\ pc'[b] \notin {"trans", "save"}
  BY <1>0, <1>1, NoOpType, Zenon DEF EndOp, IInv, Types, Stamps, Places
<1>5. /\ saved' \in [Peers -> Stamps]
      /\ \A d \in Peers : saved'[d] \in Nat /\ saved[d] \in Nat /\ saved[d] <= saved'[d] /\ saved'[d] <= last
      /\ \A d \in Peers \ {b} : saved'[d] = saved[d]
  <2>1. saved \in [Peers -> Stamps] /\ \A d \in Peers : saved[d] <= last  BY Zenon DEF IInv, Types, Packet
  <2>2. last \in Nat /\ stamp[b] \in Nat /\ saved[b] <= stamp[b] /\ stamp[b] <= last  BY <1>0, <1>2
  <2>3. \A d \in Peers : saved[d] <= saved[d]  BY <2>1 DEF Stamps
  <2>4. CASE saved' = saved  BY <2>1, <2>3, <2>4, Zenon DEF Stamps
  <2>5. CASE saved' = [saved EXCEPT ![b] = stamp[b]]
    <3>1. saved'[b] = stamp[b] /\ \A d \in Peers \ {b} : saved'[d] = saved[d]  BY <2>1, <2>5, Zenon
    <3>2. saved' \in [Peers -> Stamps]  BY <2>1, <2>2, <2>5, Zenon DEF Stamps
    <3>. QED  BY <2>1, <2>2, <2>3, <3>1, <3>2, Zenon DEF Stamps
  <2>. QED  BY <1>1, <2>4, <2>5, Zenon
<1>6. /\ db' \in Database
      /\ \A j \in Keys : db'.local[j] = db.local[j]
      /\ \A j \in Keys : db'.sync[j] = db.sync[j] \/ (j = k /\ db'.sync[j] = new /\ saved'[b] = stamp[b])
  <2>1. db \in Database /\ db.local[k] \in [value : Nat, ts : Stamps]  BY <1>0, Zenon DEF IInv, Types, Database
  <2>2. CASE UNCHANGED <<db, saved>>  BY <2>1, <2>2, Zenon
  <2>3. CASE db' = With(db, k, new, db.local[k]) /\ saved' = [saved EXCEPT ![b] = stamp[b]]
    <3>1. saved'[b] = stamp[b]  BY <2>3, Zenon DEF IInv, Types
    <3>2. /\ db' \in Database /\ db'.sync[k] = new /\ db'.local[k] = db.local[k]
          /\ \A j \in Keys \ {k} : db'.sync[j] = db.sync[j] /\ db'.local[j] = db.local[j]
      <4> HIDE DEF k
      <4>1. Image(db', db, k, new, db.local[k])  BY <1>0, <1>3, <2>1, <2>3, ImageOf, Zenon
      <4>. QED  BY <4>1, Zenon DEF Image
    <3>. QED  BY <3>1, <3>2, Zenon
  <2>. QED  BY <1>1, <2>2, <2>3, Zenon
<1>7. Types'  BY <1>1, <1>4, <1>5, <1>6, Zenon DEF IInv, Types
<1>8. \A c \in Conns : pc'[c] = pc[c] /\ pc[c] \notin Holding
  BY <1>0, <1>1, <1>4, Zenon DEF IInv, Handle, Procs
<1>9. Handle'  BY <1>1, <1>8, Zenon DEF Handle, Procs
<1>10. \A j \in Keys : RowBefore(db'.sync[j], last', saved', scenario'.policy) /\ db'.local[j].ts <= last'
  <2> SUFFICES ASSUME NEW j \in Keys PROVE RowBefore(db'.sync[j], last', saved', scenario'.policy) /\ db'.local[j].ts <= last'
    BY Zenon
  <2>0. UNCHANGED <<scenario, last>>  BY <1>1, Zenon
  <2>1. RowBefore(db.sync[j], last', saved', scenario'.policy) /\ db.local[j].ts <= last'
    <3>1. Types /\ Past(db) /\ db \in Database /\ last' \in Nat  BY <1>0, <2>0, Zenon DEF IInv, Types
    <3>2. last <= last'  BY <1>0, <2>0
    <3>. QED  BY <1>5, <2>0, <3>1, <3>2, TablesLater, Zenon
  <2>2. CASE db'.sync[j] = db.sync[j]  BY <1>6, <2>1, <2>2, Zenon
  <2>3. CASE db'.sync[j] = new /\ new = NoRow
    <3>1. NoRow.w <= last /\ ~NoRow.local  BY <1>0 DEF NoRow
    <3>2. \A d \in Peers : NoRow.dev # d  BY Zenon DEF NoRow, Procs
    <3>3. RowBefore(NoRow, last', saved', scenario'.policy)  BY <2>0, <3>1, <3>2, Zenon DEF RowBefore
    <3>. QED  BY <1>6, <2>1, <2>3, <3>3, Zenon
  <2>4. CASE db'.sync[j] = new /\ saved'[b] = stamp[b] /\ new # row /\ new # NoRow
    <3>1. new.dev = b /\ ~new.local /\ (new.w = item.w \/ (row.dev = b /\ new.w = row.w + 1))  BY <1>3, <2>4, Zenon
    <3>2. row.dev = b => row.w <= saved[b]  BY <1>0, Zenon DEF IInv, Past, RowPast, RowBefore
    <3>3. new.w <= stamp[b] /\ new.w <= last
      <4> HIDE DEF row, item
      <4>. QED  BY <1>0, <1>2, <3>1, <3>2
    <3>4. scenario.policy = "deny" => new.orig # Here  BY <1>3, <2>4, Zenon
    <3>5. RowBefore(new, last', saved', scenario'.policy)  BY <2>0, <2>4, <3>1, <3>3, <3>4, Zenon DEF RowBefore
    <3>. QED  BY <1>6, <2>1, <2>4, <3>5, Zenon
  <2>. QED  BY <1>6, <2>2, <2>3, <2>4, Zenon
<1>11. Past(db)' /\ Past(work)'
  <2>1. work' = db'  BY <1>1, Zenon
  <2>. QED  BY <1>10, <2>1, Zenon DEF Past, RowPast
<1>12. Packet'
  <2> SUFFICES ASSUME NEW d \in Peers
               PROVE  /\ saved'[d] <= last'
                      /\ pc'[d] \in {"trans", "save"} =>
                            stamp'[d] > saved'[d] /\ ~op'[d].item.local /\ op'[d].item.status # "none"
                      /\ pc'[d] = "save" => op'[d].item.w <= stamp'[d] /\ stamp'[d] <= last'
    BY Zenon DEF Packet
  <2>1. CASE d = b  BY <1>1, <1>4, <1>5, <2>1, Zenon
  <2>2. CASE d # b
    <3>1. d \in Procs \ {b}  BY <2>2, Zenon DEF Procs
    <3>2. pc'[d] = pc[d] /\ op'[d] = op[d] /\ stamp'[d] = stamp[d] /\ saved'[d] = saved[d]
      BY <1>4, <1>5, <3>1, <2>2, Zenon
    <3>. QED  BY <1>1, <1>5, <3>2, Zenon DEF IInv, Packet
  <2>. QED  BY <2>1, <2>2, Zenon
<1>13. Ahead'  BY <1>8, Zenon DEF Ahead, Holding
<1>14. Written'  BY <1>1, Zenon DEF Written
<1>. QED  BY <1>7, <1>9, <1>11, <1>12, <1>13, <1>14, Zenon DEF IInv

\* The rows of a device are erased.
LEMMA RemoveStep ==
    ASSUME IInv, NEW b \in Peers, RemoveDeviceData(b)
    PROVE  IInv'
<1> USE Distinct
<1>1. /\ UNCHANGED <<scenario, owner, pc, op, stamp, last, saved>> /\ owner = Here /\ work' = db'
      /\ db' = [sync |-> [k \in Keys |-> IF OfDevice(db.sync[k], b) THEN NoRow ELSE db.sync[k]], local |-> db.local]
      /\ done' = [done EXCEPT !.removes = @ + 1]
  BY Zenon DEF RemoveDeviceData, timeVars, histVars
<1>2. last \in Nat /\ db \in Database /\ \A k \in Keys : db.sync[k] \in Row
  BY Zenon DEF IInv, Types, Database, Stamps
<1>3. db' \in Database  BY <1>1, <1>2, NoRowPast, Zenon DEF Database
<1>4. \A k \in Keys : /\ db'.local[k] = db.local[k]
                      /\ db'.sync[k] = db.sync[k] \/ db'.sync[k] = NoRow
  BY <1>1, Zenon
<1>5. Types'
  <2>1. done' \in [writes : Nat, packets : Nat, removes : Nat]  BY <1>1 DEF IInv, Types
  <2>. QED  BY <1>1, <1>3, <2>1, Zenon DEF IInv, Types
<1>6. Handle'  BY <1>1, Zenon DEF IInv, Handle
<1>7. Past(db)' /\ Past(work)'
  <2>1. \A k \in Keys : RowPast(db.sync[k]) /\ RowPast(NoRow) /\ db.local[k].ts <= last
    BY <1>2, NoRowPast, Zenon DEF IInv, Past
  <2>2. \A k \in Keys : RowPast(db'.sync[k]) /\ db'.local[k].ts <= last  BY <1>4, <2>1, Zenon
  <2>3. UNCHANGED <<scenario, last, saved>> /\ work' = db'  BY <1>1, Zenon
  <2>. QED  BY <2>2, <2>3, Zenon DEF Past, RowPast
<1>9. Packet'  BY <1>1, Zenon DEF IInv, Packet
<1>10. Ahead'
  <2>1. \A c \in Conns : pc[c] # "save"  BY <1>1, Zenon DEF IInv, Handle, Holding, Procs
  <2>. QED  BY <1>1, <2>1, Zenon DEF Ahead
<1>11. Written'  BY <1>1, Zenon DEF Written
<1>. QED  BY <1>5, <1>6, <1>7, <1>9, <1>10, <1>11, Zenon DEF IInv

-----------------------------------------------------------------------------
(* The invariant holds, and with it the properties. *)
LEMMA IInvNext == IInv /\ [Next]_vars => IInv'
<1> SUFFICES ASSUME IInv, [Next]_vars PROVE IInv'
  OBVIOUS
<1>1. CASE UNCHANGED vars
  <2>1. UNCHANGED <<scenario, db, work, owner, pc, op, stamp, last, saved, done>>
    BY <1>1, Zenon DEF vars, storeVars, timeVars, histVars
  <2>. QED  BY <2>1, Zenon DEF IInv, Types, Handle, Past, RowPast, Packet, Ahead, Written
<1>2. CASE \E c \in Conns : Connection(c)
  <2>1. PICK c \in Conns : Connection(c)  BY <1>2, Zenon
  <2>2. c \in Procs  BY Zenon DEF Procs
  <2>. QED  BY Zenon, <2>1, <2>2, StartStep, EntryStep, SaveBatchEntryStep, PublishLocalStep, UnpublishToLocalStep, EndStep,
               NotifyStep DEF Connection
<1>3. CASE \E b \in Peers : Peer(b)
  <2>1. PICK b \in Peers : Peer(b)  BY <1>3, Zenon
  <2>2. b \in Procs  BY Zenon DEF Procs
  <2>. QED  BY <2>1, <2>2, ReceiveStep, TransStep, SaveSyncItemsStep, NotifyStep, RemoveStep, Zenon DEF Peer
<1>. QED  BY <1>1, <1>2, <1>3, Zenon DEF Next

\* The inductive invariant is an invariant.
THEOREM StoreInvariant == Spec => []IInv
  BY IInvInit, IInvNext, PTL DEF Spec

\* A Put or Delete is never dropped for its timestamp (PutBatchInner, SaveSyncDataItem,
\* TransSendDataItemToLocal, GetTime).
THEOREM LocalWriteWinsTheorem == Spec => []LocalWriteWins
<1>1. IInv => LocalWriteWins
  <2> SUFFICES ASSUME IInv, NEW c \in Conns, pc[c] = "save", NEW k \in Keys
               PROVE  ~IsDefeated(Entry(c, "live", 1, stamp[c]), work.sync[k], Here, TRUE)
    BY Zenon DEF LocalWriteWins
  <2>1. stamp[c] > work.sync[k].w  BY Zenon DEF IInv, Ahead
  <2>2. stamp[c] \in Nat /\ work.sync[k].w \in Nat
    BY Zenon DEF IInv, Types, Database, Row, Stamps, Procs
  <2>3. ~(work.sync[k].w >= stamp[c])  BY <2>1, <2>2
  <2>4. Entry(c, "live", 1, stamp[c]).w = stamp[c]  BY Zenon DEF Entry
  <2>. QED  BY <2>3, <2>4, Zenon DEF IsDefeated, NotNewer
<1>. QED  BY <1>1, StoreInvariant, PTL

\* Rows written here become visible in the order of their timestamps (CommitInner under
\* the single write handle, GetTime).
THEOREM CommitsInStampOrderTheorem == Spec => CommitsInStampOrder
<1> DEFINE Order == \A j, k \in Keys :
          db'.sync[k] # db.sync[k] /\ db'.sync[k].local /\ db.sync[j].local => db'.sync[k].ts > db.sync[j].ts
<1>1. IInv /\ [Next]_vars => [Order]_vars
  <2> SUFFICES ASSUME IInv, Next PROVE Order
    OBVIOUS
  <2> USE Distinct
  <2>1. CASE UNCHANGED db  BY <2>1, Zenon
  <2>2. CASE db' = work  BY <2>2, Zenon DEF IInv, Written
  <2>3. ASSUME NEW b \in Peers, SaveSyncItems(b), ~UNCHANGED db
        PROVE  Order
    <3> DEFINE k == op[b].key  item == op[b].item  row == db.sync[k]
               new == SaveSyncDataItem(item, row, b, scenario.permit, scenario.policy)
    <3>1. k \in Keys /\ item \in Item  BY Zenon DEF IInv, Types, Operation, Procs
    <3>2. row \in Row /\ db \in Database /\ db.local[k] \in [value : Nat, ts : Stamps]
      BY <3>1, Zenon DEF IInv, Types, Database
    <3>3. ~item.local /\ item.status # "none"  BY <2>3, Zenon DEF SaveSyncItems, IInv, Packet
    <3>4. new \in Row /\ (new = row \/ new = NoRow \/ ~new.local)
      <4>1. PeerSaved(new, item, row, b, scenario.policy)  BY <3>1, <3>2, <3>3, PeerSave, Zenon
      <4>. QED  BY <4>1, Zenon DEF PeerSaved
    <3>5. db' = With(db, k, new, db.local[k])  BY <2>3, Zenon DEF SaveSyncItems
    <3> HIDE DEF k, new
    <3>6. db'.sync[k] = new /\ \A j \in Keys \ {k} : db'.sync[j] = db.sync[j]
      <4>1. Image(db', db, k, new, db.local[k])  BY <3>1, <3>2, <3>4, <3>5, ImageOf, Zenon
      <4>. QED  BY <4>1, Zenon DEF Image
    <3>7. ~NoRow.local  BY Zenon DEF NoRow
    <3>. QED  BY <3>4, <3>6, <3>7, Zenon
  <2>4. ASSUME NEW b \in Peers, RemoveDeviceData(b)
        PROVE  Order
    <3>1. \A k \in Keys : db'.sync[k] = db.sync[k] \/ db'.sync[k] = NoRow  BY <2>4, Zenon DEF RemoveDeviceData
    <3>2. ~NoRow.local  BY Zenon DEF NoRow
    <3>. QED  BY <3>1, <3>2, Zenon
  <2> HIDE DEF Order
  <2>5. CASE \E c \in Conns : Connection(c)
    <3>1. UNCHANGED db \/ db' = work
      <4>1. PICK c \in Conns : Connection(c)  BY <2>5, Zenon
      <4>2. CASE CommitInner(c)  BY <4>2, Zenon DEF CommitInner
      <4>3. CASE RollbackInner(c) \/ CommitNotify(c)  BY <4>3, Zenon DEF RollbackInner, CommitNotify, storeVars
      <4>4. CASE StartTransaction(c) \/ StartAuto(c) \/ NextEntry(c) \/ StartPublish(c)
        BY <4>4, Zenon DEF StartTransaction, StartAuto, NextEntry, StartPublish, storeVars
      <4>5. CASE SaveBatchEntry(c)  BY <4>5, Zenon DEF SaveBatchEntry
      <4>6. CASE PublishLocal(c) \/ UnpublishToLocal(c)  BY <4>6, Zenon DEF PublishLocal, UnpublishToLocal
      <4>. QED  BY <4>1, <4>2, <4>3, <4>4, <4>5, <4>6, Zenon DEF Connection
    <3>. QED  BY <2>1, <2>2, <3>1, Zenon
  <2>6. CASE \E b \in Peers : Peer(b)
    BY <2>1, <2>3, <2>4, <2>6, Zenon DEF Peer, Receive, TransSendDataItemToLocal, CommitNotify, storeVars
  <2>. QED  BY <2>5, <2>6, Zenon DEF Next
<1>. QED  BY <1>1, StoreInvariant, PTL DEF Spec, CommitsInStampOrder

\* With the policy that protects this device's data, packets and RemoveDeviceData leave its
\* rows alone (IsNeedIgnoredData, RemoveDeviceData).
THEOREM OwnDataKeptTheorem == Spec => OwnDataKept
<1> DEFINE Kept == \A k \in Keys :
          scenario.policy = "deny" /\ Exists(db.sync[k]) /\ db.sync[k].orig = Here /\ db'.sync[k] # db.sync[k] =>
              owner \in Conns
<1>1. IInv /\ [Next]_vars => [Kept]_vars
  <2> SUFFICES ASSUME IInv, Next, scenario.policy = "deny", owner \notin Conns, NEW j \in Keys,
                      Exists(db.sync[j]), db.sync[j].orig = Here
               PROVE  db'.sync[j] = db.sync[j]
    OBVIOUS
  <2>1. CASE UNCHANGED db  BY <2>1, Zenon
  <2>2. ASSUME NEW b \in Peers, SaveSyncItems(b), ~UNCHANGED db
        PROVE  db'.sync[j] = db.sync[j]
    <3> DEFINE k == op[b].key  item == op[b].item  row == db.sync[k]
               new == SaveSyncDataItem(item, row, b, scenario.permit, scenario.policy)
    <3>1. k \in Keys /\ item \in Item  BY Zenon DEF IInv, Types, Operation, Procs
    <3>2. row \in Row /\ db \in Database /\ db.local[k] \in [value : Nat, ts : Stamps]
      BY <3>1, Zenon DEF IInv, Types, Database
    <3>3. ~item.local /\ item.status # "none"  BY <2>2, Zenon DEF SaveSyncItems, IInv, Packet
    <3>4. new \in Row /\ (new # row => ~(Exists(row) /\ row.orig = Here))
      <4>1. PeerSaved(new, item, row, b, scenario.policy)  BY <3>1, <3>2, <3>3, PeerSave, Zenon
      <4>. QED  BY <4>1, Zenon DEF PeerSaved
    <3>5. db' = With(db, k, new, db.local[k])  BY <2>2, Zenon DEF SaveSyncItems
    <3> HIDE DEF new, item
    <3>6. db'.sync[k] = new /\ \A i \in Keys \ {k} : db'.sync[i] = db.sync[i]
      <4> HIDE DEF k
      <4>1. Image(db', db, k, new, db.local[k])  BY <3>1, <3>2, <3>4, <3>5, ImageOf, Zenon
      <4>. QED  BY <4>1, Zenon DEF Image
    <3>. QED  BY <3>4, <3>6, Zenon
  <2>3. ASSUME NEW b \in Peers, RemoveDeviceData(b)
        PROVE  db'.sync[j] = db.sync[j]
    <3>1. db.sync[j].dev # b  BY Zenon DEF IInv, Past, RowPast, RowBefore
    <3>. QED  BY <2>3, <3>1, Zenon DEF RemoveDeviceData, OfDevice
  <2>4. CASE \E c \in Conns : Connection(c)
    <3>1. PICK c \in Conns : Connection(c)  BY <2>4, Zenon
    <3>2. ~CommitInner(c)  BY Zenon DEF CommitInner, IInv, Handle, Holding
    <3>3. CASE RollbackInner(c) \/ CommitNotify(c)  BY <3>3, Zenon DEF RollbackInner, CommitNotify, storeVars
    <3>4. CASE StartTransaction(c) \/ StartAuto(c) \/ NextEntry(c) \/ StartPublish(c)
      BY <3>4, Zenon DEF StartTransaction, StartAuto, NextEntry, StartPublish, storeVars
    <3>5. CASE SaveBatchEntry(c)  BY <3>5, Zenon DEF SaveBatchEntry
    <3>6. CASE PublishLocal(c) \/ UnpublishToLocal(c)  BY <3>6, Zenon DEF PublishLocal, UnpublishToLocal
    <3>. QED  BY <3>1, <3>2, <3>3, <3>4, <3>5, <3>6, Zenon DEF Connection
  <2>5. CASE \E b \in Peers : Peer(b)
    <3>1. PICK b \in Peers : Peer(b)  BY <2>5, Zenon
    <3>2. CASE Receive(b) \/ TransSendDataItemToLocal(b) \/ CommitNotify(b)
      BY <3>2, Zenon DEF Receive, TransSendDataItemToLocal, CommitNotify, storeVars
    <3>. QED  BY <2>1, <2>2, <2>3, <3>1, <3>2, Zenon DEF Peer
  <2>. QED  BY <2>4, <2>5, Zenon DEF Next
<1>. QED  BY <1>1, StoreInvariant, PTL DEF Spec, OwnDataKept

-----------------------------------------------------------------------------
(* What the observers will be told.                                            *)
Notes == [sync : [Keys -> Note], local : [Keys -> Note]]

\* Values that are there are not the absent one.
Sound(tables) ==
    \A k \in Keys : /\ Live(tables.sync[k]) => tables.sync[k].value # 0
                    /\ tables.local[k].value = 0 => tables.local[k] = NoLocal

\* The notification data n of a key whose row was before the transaction and is now after.
SyncTold(n, before, after) ==
    /\ after.orig = before.orig
    /\ Exists(before) => Exists(after) /\ before.w <= after.w
    /\ n.exist = "unset" => n.type = "NONE" /\ ~n.conflict /\ ~Exists(n.org) /\ after = before
    /\ n.exist # "unset" => n.exist = ExistStatus(before)
    /\ Exists(n.org) => n.org = before
    /\ Exists(before) /\ ~Exists(n.org) => after = before
    /\ n.conflict => Exists(n.org)
    /\ n.conflict /\ ~PutBack(before, after) => n.new = Side(after)
    /\ Tells(n, ValueOf(before), ValueOf(after))

\* The same for its value in the local table
LocalTold(n, before, after) ==
    /\ n.exist = "unset" => n.type = "NONE" /\ after = before
    /\ n.exist # "unset" => (n.exist = "EXIST" <=> before # 0)
    /\ Tells(n, before, after)

Told(notes, tables) ==
    \A k \in Keys : /\ SyncTold(notes.sync[k], db.sync[k], tables.sync[k])
                    /\ LocalTold(notes.local[k], db.local[k].value, tables.local[k].value)

\* A live item of a packet has a value.
Filled(item) == item.status = "live" => item.value # 0

NInv ==
    /\ note \in [Procs -> Notes]
    /\ Sound(db) /\ Sound(work)
    /\ \A c \in Conns : /\ pc[c] = "save" => done.writes # 0
                        /\ owner = c => Told(note[c], work)
    /\ \A b \in Peers : /\ pc[b] \in {"trans", "save"} => Filled(op[b].item)
                        /\ pc[b] # "notify" => note[b] = EmptyNote

\* InitKeyPropRecord sets the status once.
LEMMA KnownKey ==
    ASSUME NEW n \in Note, NEW e \in {"NONE", "DELETED", "EXIST"}
    PROVE  LET m == InitKeyPropRecord(n, e)
           IN /\ m \in Note /\ m.exist = (IF n.exist = "unset" THEN e ELSE n.exist) /\ m.exist # "unset"
              /\ m.type = n.type /\ m.value = n.value /\ m.org = n.org /\ m.conflict = n.conflict /\ m.new = n.new
<1>1. e \in {"unset", "NONE", "DELETED", "EXIST"} /\ e # "unset"  BY Zenon
<1>2. CASE n.exist = "unset"
  <2> DEFINE m == InitKeyPropRecord(n, e)
  <2>1. m = [n EXCEPT !.exist = e]  BY <1>2, Zenon DEF InitKeyPropRecord
  <2> HIDE DEF m
  <2>2. /\ m \in Note /\ m.exist = e /\ m.type = n.type /\ m.value = n.value /\ m.org = n.org
        /\ m.conflict = n.conflict /\ m.new = n.new
    BY <1>1, <2>1, Zenon DEF Note
  <2>. QED  BY <1>1, <1>2, <2>2, Zenon DEF m
<1>3. CASE n.exist # "unset"  BY <1>3, Zenon DEF InitKeyPropRecord
<1>. QED  BY <1>2, <1>3, Zenon

\* InsertCommittedData merges a change into those the transaction made before.
KnownAs(n, before) == n.exist # "unset" /\ (n.exist = "EXIST" <=> before # 0)

Changes(type, value, after) ==
    \/ type \in {"INSERT", "UPDATE"} /\ after = value
    \/ type = "DELETE" /\ after = 0

KeepsRest(m, n) == m \in Note /\ m.exist = n.exist /\ m.org = n.org /\ m.conflict = n.conflict /\ m.new = n.new

LEMMA CommittedData ==
    ASSUME NEW n \in Note, NEW before \in Nat, KnownAs(n, before),
           NEW type, NEW value \in Nat, NEW after \in Nat, Changes(type, value, after)
    PROVE  LET m == InsertCommittedData(n, type, value) IN KeepsRest(m, n) /\ Tells(m, before, after)
<1> DEFINE merged == MergedType(n.exist, type)
           v == IF merged = "NONE" THEN 0 ELSE value
           m == InsertCommittedData(n, type, value)
<1>0. /\ n.exist # "unset" /\ (n.exist = "EXIST" <=> before # 0)
      /\ \/ type \in {"INSERT", "UPDATE"} /\ after = value
         \/ type = "DELETE" /\ after = 0
  BY Zenon DEF KnownAs, Changes
<1>1. /\ n.exist = "EXIST" /\ type \in {"INSERT", "UPDATE"} => merged = "UPDATE"
      /\ n.exist = "EXIST" /\ type = "DELETE" => merged = "DELETE"
      /\ n.exist # "EXIST" /\ type \in {"INSERT", "UPDATE"} => merged = "INSERT"
      /\ n.exist # "EXIST" /\ type = "DELETE" => merged = "NONE"
  BY Zenon DEF MergedType
<1> HIDE DEF merged
<1>2. merged \in {"NONE", "INSERT", "UPDATE", "DELETE"}  BY <1>0, <1>1, Zenon
<1>3. v \in Nat  OBVIOUS
<1>4. m = [n EXCEPT !.type = merged, !.value = v]  BY Zenon DEF InsertCommittedData, merged
<1>5. merged # "NONE" => v = value  BY Zenon
<1> HIDE DEF v, m
<1>6. /\ m \in Note /\ m.exist = n.exist /\ m.org = n.org /\ m.conflict = n.conflict /\ m.new = n.new
      /\ m.type = merged /\ m.value = v
  BY <1>2, <1>3, <1>4, Zenon DEF Note
<1>7. Tells(m, before, after)
  <2>1. CASE merged = "UPDATE"  BY <1>0, <1>1, <1>5, <1>6, <2>1, Zenon DEF Tells
  <2>2. CASE merged = "INSERT"  BY <1>0, <1>1, <1>5, <1>6, <2>2, Zenon DEF Tells
  <2>3. CASE merged = "DELETE"  BY <1>0, <1>1, <1>6, <2>3, Zenon DEF Tells
  <2>4. CASE merged = "NONE"  BY <1>0, <1>1, <1>6, <2>4, Zenon DEF Tells
  <2>. QED  BY <1>2, <2>1, <2>2, <2>3, <2>4, Zenon
<1>. QED  BY <1>6, <1>7, Zenon DEF m, KeepsRest

\* What an item leaves under its key
ItemValue(item) == IF item.status = "live" THEN item.value ELSE 0

\* PutIntoCommittedData: a deletion of nothing is no entry.
LEMMA IntoCommittedData ==
    ASSUME NEW n \in Note, NEW before \in Nat, KnownAs(n, before), NEW item \in Item, NEW row \in Row
    PROVE  LET m == PutIntoCommittedData(n, item, row)
           IN /\ KeepsRest(m, n)
              /\ item.status = "live" \/ Live(row) => Tells(m, before, ItemValue(item))
              /\ item.status # "live" /\ ~Live(row) => m = n
<1>1. item.value \in Nat /\ row.value \in Nat /\ 0 \in Nat  BY DEF Item, Row
<1>2. CASE item.status = "live"
  <2> DEFINE type == IF Live(row) THEN "UPDATE" ELSE "INSERT"
             m == InsertCommittedData(n, type, item.value)
  <2>1. type \in {"INSERT", "UPDATE"}  BY Zenon
  <2>2. ItemValue(item) = item.value  BY <1>2, Zenon DEF ItemValue
  <2>3. PutIntoCommittedData(n, item, row) = m  BY <1>2, Zenon DEF PutIntoCommittedData
  <2> HIDE DEF type
  <2>4. KeepsRest(m, n) /\ Tells(m, before, item.value)
    <3>1. Changes(type, item.value, item.value)  BY <2>1, Zenon DEF Changes
    <3>. QED  BY <1>1, <3>1, CommittedData, Zenon
  <2>. QED  BY <1>2, <2>2, <2>3, <2>4, Zenon
<1>3. CASE item.status # "live" /\ Live(row)
  <2> DEFINE m == InsertCommittedData(n, "DELETE", row.value)
  <2>2. ItemValue(item) = 0  BY <1>3, Zenon DEF ItemValue
  <2>3. PutIntoCommittedData(n, item, row) = m  BY <1>3, Zenon DEF PutIntoCommittedData
  <2>4. KeepsRest(m, n) /\ Tells(m, before, 0)
    <3>1. Changes("DELETE", row.value, 0)  BY Zenon DEF Changes
    <3>. QED  BY <1>1, <3>1, CommittedData, Zenon
  <2>. QED  BY <1>3, <2>2, <2>3, <2>4, Zenon
<1>4. CASE item.status # "live" /\ ~Live(row)
  BY <1>4, Zenon DEF PutIntoCommittedData, KeepsRest
<1>. QED  BY <1>2, <1>3, <1>4, Zenon

\* PutConflictData compares the item with the row as it was before the transaction.
Conflicts(n, item, row) == Exists(row) /\ (Live(row) \/ item.status = "live") /\ n.exist # "NONE"

ConflictPut(m, n, item, row, org, device) ==
    /\ m \in Note /\ m.exist = n.exist /\ m.type = n.type /\ m.value = n.value
    /\ ~Conflicts(n, item, row) => m = n
    /\ Conflicts(n, item, row) =>
          /\ m.org = org
          /\ SameData(item, org, device) => m.conflict = n.conflict /\ m.new = n.new
          /\ ~SameData(item, org, device) =>
                m.conflict /\ m.new = Side(IF Swaps(item, org) THEN org ELSE item)

LEMMA ConflictData ==
    ASSUME NEW n \in Note, NEW item \in Item, NEW row \in Row, NEW device
    PROVE  ConflictPut(PutConflictData(n, item, row, device), n, item, row, InsertConflictedItem(n, row), device)
<1> DEFINE m == PutConflictData(n, item, row, device)
           org == InsertConflictedItem(n, row)
           old == Side(IF Swaps(item, org) THEN item ELSE org)
           new == Side(IF Swaps(item, org) THEN org ELSE item)
<1>1. org \in Row  BY Zenon DEF InsertConflictedItem, Note
<1>2. Side(item) \in Sides /\ Side(org) \in Sides
  <2>1. item.value \in Nat /\ org.value \in Nat  BY <1>1, Zenon DEF Item, Row
  <2> HIDE DEF org
  <2>2. ValueOf(item) \in Nat /\ ValueOf(org) \in Nat  BY <2>1 DEF ValueOf
  <2>. QED  BY <2>2, Zenon DEF Side, Sides
<1>3. CASE ~Conflicts(n, item, row)
  <2>1. m = n  BY <1>3, Zenon DEF Conflicts, PutConflictData
  <2>. QED  BY <1>3, <2>1, Zenon DEF ConflictPut
<1>4. CASE Conflicts(n, item, row) /\ SameData(item, org, device)
  <2>1. m = [n EXCEPT !.org = org]  BY <1>4, Zenon DEF Conflicts, PutConflictData
  <2> HIDE DEF m, org
  <2>2. /\ m \in Note /\ m.exist = n.exist /\ m.type = n.type /\ m.value = n.value
        /\ m.org = org /\ m.conflict = n.conflict /\ m.new = n.new
    BY <1>1, <2>1, Zenon DEF Note
  <2>3. ConflictPut(m, n, item, row, org, device)  BY <1>4, <2>2, Zenon DEF ConflictPut
  <2>. QED  BY <2>3, Zenon DEF m, org
<1>5. CASE Conflicts(n, item, row) /\ ~SameData(item, org, device)
  <2>1. m = [n EXCEPT !.org = org, !.conflict = TRUE, !.old = old, !.new = new]
    BY <1>5, Zenon DEF Conflicts, PutConflictData
  <2>2. old \in Sides /\ new \in Sides  BY <1>2, Zenon
  <2> HIDE DEF m, org, old, new
  <2>3. /\ m \in Note /\ m.exist = n.exist /\ m.type = n.type /\ m.value = n.value
        /\ m.org = org /\ m.conflict /\ m.new = new
    BY <1>1, <2>1, <2>2, Zenon DEF Note
  <2>4. ConflictPut(m, n, item, row, org, device)  BY <1>5, <2>3, Zenon DEF ConflictPut, new
  <2>. QED  BY <2>4, Zenon DEF m, org
<1>. QED  BY <1>3, <1>4, <1>5, Zenon

\* A change of the local table is merged as one of the public table is.
LEMMA LocalNoted ==
    ASSUME NEW n \in Note, NEW before \in Nat, NEW now \in Nat, NEW value \in Nat, NEW after \in Nat, NEW type,
           LocalTold(n, before, now), Changes(type, value, after)
    PROVE  LET m == InsertCommittedData(InitKeyPropRecord(n, IF now # 0 THEN "EXIST" ELSE "NONE"), type, value)
           IN m \in Note /\ LocalTold(m, before, after)
<1> DEFINE e == IF now # 0 THEN "EXIST" ELSE "NONE"
           known == InitKeyPropRecord(n, e)
           m == InsertCommittedData(known, type, value)
<1>1. e \in {"NONE", "DELETED", "EXIST"} /\ (e = "EXIST" <=> now # 0)  BY Zenon
<1> HIDE DEF e
<1>2. known \in Note /\ known.exist = (IF n.exist = "unset" THEN e ELSE n.exist) /\ known.exist # "unset"
  BY <1>1, KnownKey, Zenon
<1>3. KnownAs(known, before)  BY <1>1, <1>2, Zenon DEF LocalTold, KnownAs
<1> HIDE DEF known
<1>4. KeepsRest(m, known) /\ Tells(m, before, after)
  BY <1>2, <1>3, CommittedData, Zenon
<1> HIDE DEF m
<1>5. m \in Note /\ LocalTold(m, before, after)  BY <1>3, <1>4, Zenon DEF LocalTold, KeepsRest, KnownAs
<1>. QED  BY <1>5, Zenon DEF m, known, e

\* A row and what a reader of its key gets
LEMMA RowValue ==
    ASSUME NEW row \in Row, Live(row) => row.value # 0
    PROVE  /\ ValueOf(row) \in Nat /\ ExistStatus(row) \in {"NONE", "DELETED", "EXIST"}
           /\ ExistStatus(row) = "EXIST" <=> ValueOf(row) # 0
           /\ ExistStatus(row) = "NONE" <=> ~Exists(row)
<1>1. row.value \in Nat /\ row.status \in {"none", "live", "deleted"}  BY Zenon DEF Row
<1>2. ValueOf(row) \in Nat  BY <1>1 DEF ValueOf
<1>3. CASE row.status = "live"  BY <1>2, <1>3, Zenon DEF ExistStatus, ValueOf, Live, Exists
<1>4. CASE row.status = "deleted"  BY <1>2, <1>4, Zenon DEF ExistStatus, ValueOf, Live, Exists
<1>5. CASE row.status = "none"  BY <1>2, <1>5, Zenon DEF ExistStatus, ValueOf, Live, Exists
<1>. QED  BY <1>1, <1>3, <1>4, <1>5, Zenon

\* SaveSyncDataItem of an item of this device: the notification data still tell what became of the row.
LocalItem(item) ==
    /\ item \in Item /\ item.local /\ item.orig = Here
    /\ item.status \in {"live", "deleted"} /\ (item.status = "live" <=> item.value # 0)

LEMMA SyncNoted ==
    ASSUME NEW n \in Note, NEW before \in Row, NEW row \in Row, NEW item, LocalItem(item), NEW policy,
           SyncTold(n, before, row), ~NotNewer(item, row),
           Live(before) => before.value # 0, Live(row) => row.value # 0
    PROVE  LET m == NoteOf(n, item, row, Here, TRUE, policy)
               s == SaveSyncDataItem(item, row, Here, TRUE, policy)
           IN m \in Note /\ SyncTold(m, before, s) /\ (Live(s) => s.value # 0)
<1> DEFINE m == NoteOf(n, item, row, Here, TRUE, policy)
           s == SaveSyncDataItem(item, row, Here, TRUE, policy)
           known == InitKeyPropRecord(n, ExistStatus(row))
           conflict == PutConflictData(known, item, row, Here)
<1>0. /\ item \in Item /\ item.local /\ item.orig = Here
      /\ item.status \in {"live", "deleted"} /\ (item.status = "live" <=> item.value # 0)
  BY Zenon DEF LocalItem
<1>1. /\ ValueOf(before) \in Nat /\ ExistStatus(row) \in {"NONE", "DELETED", "EXIST"}
      /\ ExistStatus(before) = "EXIST" <=> ValueOf(before) # 0
      /\ ExistStatus(before) = "NONE" <=> ~Exists(before)
  BY RowValue, Zenon
<1>2. /\ known \in Note /\ known.exist = (IF n.exist = "unset" THEN ExistStatus(row) ELSE n.exist) /\ known.exist # "unset"
      /\ known.type = n.type /\ known.value = n.value /\ known.org = n.org
      /\ known.conflict = n.conflict /\ known.new = n.new
  BY <1>1, KnownKey, Zenon
<1>3. known.exist = ExistStatus(before)  BY <1>2, Zenon DEF SyncTold
<1>4. Judged(item, row, Here, TRUE) = item  BY Zenon DEF Judged, IsForced
<1>5. ~IsNeedIgnoredData(item, row, policy) /\ ~IsDefeated(item, row, Here, TRUE)
  BY <1>0, Zenon DEF IsNeedIgnoredData, IsDefeated
<1>6. CASE DeletesNothing(item, row)
  <2>1. m = known /\ s = row  BY <1>4, <1>5, <1>6, Zenon DEF NoteOf, SaveSyncDataItem, IsSaved
  <2> HIDE DEF m, s, known
  <2>2. Tells(known, ValueOf(before), ValueOf(row))  BY <1>2, Zenon DEF SyncTold, Tells
  <2>3. SyncTold(known, before, row)
    <3> DEFINE b == ValueOf(before)
               a == ValueOf(row)
               back == PutBack(before, row)
    <3> HIDE DEF b, a, back
    <3>1. /\ row.orig = before.orig
          /\ Exists(before) => Exists(row) /\ before.w <= row.w
          /\ Exists(n.org) => n.org = before
          /\ Exists(before) /\ ~Exists(n.org) => row = before
          /\ n.conflict => Exists(n.org)
          /\ n.conflict /\ ~back => n.new = Side(row)
      BY Zenon DEF SyncTold, back
    <3>2. Tells(known, b, a)  BY <2>2, Zenon DEF a, b
    <3>3. /\ row.orig = before.orig
          /\ Exists(before) => Exists(row) /\ before.w <= row.w
          /\ Exists(known.org) => known.org = before
          /\ Exists(before) /\ ~Exists(known.org) => row = before
          /\ known.conflict => Exists(known.org)
          /\ known.conflict /\ ~back => known.new = Side(row)
      BY <1>2, <3>1, Zenon
    <3>. QED  BY <1>2, <1>3, <3>2, <3>3, Zenon DEF SyncTold, back, a, b
  <2>. QED  BY <1>2, <2>1, <2>3, Zenon DEF m, s
<1>7. CASE ~DeletesNothing(item, row)
  <2>1. m = PutIntoCommittedData(conflict, item, row)  BY <1>4, <1>5, <1>7, Zenon DEF NoteOf
  <2>2. s = [status |-> item.status, value |-> ItemValue(item), ts |-> item.ts, w |-> item.w, dev |-> Here,
             orig |-> row.orig, local |-> TRUE]
    <3>1. s = SavedRow(item, row, Here)  BY <1>4, <1>5, <1>7, Zenon DEF SaveSyncDataItem, IsSaved
    <3>2. item.status # "miss" /\ item.local = TRUE /\ GetOriginDevName(item, row) = row.orig
      <4>1. item.local \in BOOLEAN  BY <1>0, Zenon DEF Item
      <4>. QED  BY <1>0, <4>1, Zenon DEF GetOriginDevName
    <3>. QED  BY <3>1, <3>2, Zenon DEF SavedRow, ItemValue
  <2>3. item.status = "live" \/ Live(row)  BY <1>0, <1>7, Zenon DEF DeletesNothing
  <2> HIDE DEF m, s
  <2>4. /\ s.status = item.status /\ s.w = item.w /\ s.orig = row.orig /\ s.value = ItemValue(item) /\ Exists(s)
        /\ ValueOf(s) = ItemValue(item) /\ (Live(s) => s.value # 0) /\ Side(s) = Side(item)
    BY <1>0, <2>2, Zenon DEF Exists, ValueOf, Live, ItemValue, Side
  <2> HIDE DEF known
  <2> DEFINE org == InsertConflictedItem(known, row)
  <2>5. ConflictPut(conflict, known, item, row, org, Here)  BY <1>0, <1>2, ConflictData, Zenon
  <2> HIDE DEF conflict, org
  <2>6. /\ conflict \in Note /\ conflict.exist = known.exist
        /\ ~Conflicts(known, item, row) => conflict = known
    BY <2>5, Zenon DEF ConflictPut
  <2>7. Conflicts(known, item, row) =>
            /\ conflict.org = org
            /\ SameData(item, org, Here) => conflict.conflict = known.conflict /\ conflict.new = known.new
            /\ ~SameData(item, org, Here) /\ ~Swaps(item, org) => conflict.conflict /\ conflict.new = Side(item)
    BY <2>5, Zenon DEF ConflictPut
  <2>8. /\ m \in Note /\ m.exist = conflict.exist /\ m.org = conflict.org /\ m.conflict = conflict.conflict
        /\ m.new = conflict.new /\ Tells(m, ValueOf(before), ItemValue(item))
    <3>1. KnownAs(conflict, ValueOf(before))  BY <1>1, <1>2, <1>3, <2>6, Zenon DEF KnownAs
    <3>2. KeepsRest(m, conflict) /\ Tells(m, ValueOf(before), ItemValue(item))
      BY <1>0, <1>1, <2>1, <2>3, <2>6, <3>1, IntoCommittedData, Zenon
    <3>. QED  BY <3>2, Zenon DEF KeepsRest
  <2>9. Exists(before) => Exists(row) /\ before.w <= s.w /\ ~Swaps(item, before)
    <3> SUFFICES ASSUME Exists(before) PROVE Exists(row) /\ before.w <= s.w /\ ~Swaps(item, before)
      OBVIOUS
    <3>1. Exists(row) /\ before.w <= row.w  BY Zenon DEF SyncTold
    <3>2. ~(row.w >= item.w)  BY <3>1, Zenon DEF NotNewer
    <3>3. row.w \in Nat /\ item.w \in Nat /\ before.w \in Nat  BY <1>0, Zenon DEF Row, Item, Stamps
    <3>4. before.w <= item.w /\ ~(item.w <= before.w)  BY <3>1, <3>2, <3>3
    <3>. QED  BY <2>4, <3>1, <3>4, Zenon DEF Swaps
  <2>10. m.exist = ExistStatus(before) /\ m.exist # "unset" /\ s.orig = before.orig
    BY <1>2, <1>3, <2>4, <2>6, <2>8, Zenon DEF SyncTold
  <2>11. CASE ~Conflicts(known, item, row)
    <3>1. ~Exists(before)  BY <1>1, <1>3, <2>3, <2>9, <2>11, Zenon DEF Conflicts
    <3>2. ~Exists(n.org) /\ ~n.conflict  BY <3>1, Zenon DEF SyncTold
    <3>3. ~Exists(m.org) /\ ~m.conflict  BY <1>2, <2>6, <2>8, <2>11, <3>2, Zenon
    <3>4. SyncTold(m, before, s)  BY <2>4, <2>8, <2>10, <3>1, <3>3, Zenon DEF SyncTold
    <3>. QED  BY <2>4, <2>8, <3>4, Zenon DEF m, s
  <2>12. CASE Conflicts(known, item, row)
    <3>1. Exists(before)  BY <1>1, <1>3, <2>12, Zenon DEF Conflicts
    <3>2. org = before  BY <1>2, <3>1, Zenon DEF org, InsertConflictedItem, SyncTold
    <3>3. /\ m.org = before
          /\ SameData(item, before, Here) => m.conflict = n.conflict /\ m.new = n.new
          /\ ~SameData(item, before, Here) => m.conflict /\ m.new = Side(item)
      BY <1>2, <2>7, <2>8, <2>9, <2>12, <3>1, <3>2, Zenon
    <3>4. SameData(item, before, Here) => PutBack(before, s)
      <4> SUFFICES ASSUME SameData(item, before, Here) PROVE PutBack(before, s)
        OBVIOUS
      <4>1. /\ before.status = item.status /\ before.value = ItemValue(item) /\ before.dev = Here
            /\ before.orig = row.orig /\ before.local = TRUE
        <5>1. /\ item.value = before.value /\ item.local = before.local /\ item.status = before.status /\ Here = before.dev
          BY Zenon DEF SameData
        <5>2. ItemValue(item) = item.value  BY <1>0, Zenon DEF ItemValue
        <5>3. before.local \in BOOLEAN /\ before.orig = row.orig  BY Zenon DEF Row, SyncTold
        <5>. QED  BY <1>0, <5>1, <5>2, <5>3, Zenon
      <4>. QED  BY <2>2, <4>1, Zenon DEF PutBack, SameData
    <3>5. m.conflict /\ ~PutBack(before, s) => m.new = Side(s)  BY <2>4, <3>3, <3>4, Zenon
    <3>6. SyncTold(m, before, s)
      <4> DEFINE back == PutBack(before, s)
      <4> HIDE DEF back
      <4>1. m.conflict /\ ~back => m.new = Side(s)  BY <3>5, Zenon DEF back
      <4>2. Tells(m, ValueOf(before), ValueOf(s))  BY <2>4, <2>8, Zenon
      <4>. QED  BY <2>4, <2>9, <2>10, <3>1, <3>3, <4>1, <4>2, Zenon DEF SyncTold, back
    <3>. QED  BY <2>4, <2>8, <3>6, Zenon DEF m, s
  <2>. QED  BY <2>11, <2>12, Zenon
<1>. QED  BY <1>6, <1>7, Zenon

\* SaveSyncDataItem of an item of another device, which is a transaction of its own
PeerPut(m, row, s) ==
    /\ m \in Note /\ Tells(m, ValueOf(row), ValueOf(s)) /\ (m.conflict => m.new = Side(s))
    /\ Live(s) => s.value # 0

LEMMA PeerNoted ==
    ASSUME NEW item \in Item, ~item.local, item.status # "none", Filled(item),
           NEW row \in Row, Live(row) => row.value # 0, NEW b, NEW permit, NEW policy
    PROVE  PeerPut(NoteOf(NoNote, item, row, b, permit, policy), row, SaveSyncDataItem(item, row, b, permit, policy))
<1> DEFINE m == NoteOf(NoNote, item, row, b, permit, policy)
           s == SaveSyncDataItem(item, row, b, permit, policy)
           j == Judged(item, row, b, permit)
           known == InitKeyPropRecord(NoNote, ExistStatus(row))
           conflict == PutConflictData(known, j, row, b)
           org == InsertConflictedItem(known, row)
<1>1. /\ j \in Item /\ j.status = item.status /\ j.value = item.value /\ ~j.local
      /\ IsForced(item, row, b, permit) => j.w = row.w + 1
      /\ ~IsForced(item, row, b, permit) => j = item
  <2>1. CASE IsForced(item, row, b, permit)
    <3>1. j = [item EXCEPT !.w = row.w + 1, !.ts = row.ts]  BY <2>1, Zenon DEF Judged, Bumped
    <3>2. row.w + 1 \in Stamps /\ row.ts \in Stamps  BY DEF Row, Stamps
    <3> HIDE DEF j
    <3>3. j = [status |-> item.status, value |-> item.value, ts |-> row.ts, w |-> row.w + 1, dev |-> item.dev,
               orig |-> item.orig, local |-> item.local]
      BY <3>1, Zenon DEF Item
    <3>4. j \in Item  BY <3>2, <3>3, Zenon DEF Item
    <3>. QED  BY <2>1, <3>3, <3>4, Zenon
  <2>2. CASE ~IsForced(item, row, b, permit)  BY <2>2, Zenon DEF Judged
  <2>. QED  BY <2>1, <2>2, Zenon
<1>2. /\ ValueOf(row) \in Nat /\ ExistStatus(row) \in {"NONE", "DELETED", "EXIST"}
      /\ ExistStatus(row) = "EXIST" <=> ValueOf(row) # 0
      /\ ExistStatus(row) = "NONE" <=> ~Exists(row)
  BY RowValue, Zenon
<1>3. /\ NoNote \in Note /\ NoNote.exist = "unset" /\ NoNote.type = "NONE" /\ ~NoNote.conflict
      /\ NoNote.org = NoRow /\ ~Exists(NoRow)
  <2>1. NoRow \in Row  BY Zenon DEF NoRow, Row, Stamps
  <2>2. NoSide \in Sides  BY Zenon DEF NoSide, Sides
  <2>. QED  BY <2>1, <2>2, Zenon DEF NoNote, Note, NoRow, Exists
<1>4. /\ known \in Note /\ known.exist = ExistStatus(row) /\ known.exist # "unset"
      /\ known.type = "NONE" /\ ~known.conflict /\ known.org = NoRow
  <2> DEFINE e == ExistStatus(row)
  <2>1. e \in {"NONE", "DELETED", "EXIST"}  BY <1>2, Zenon
  <2>2. NoNote \in Note /\ NoNote.exist = "unset" /\ NoNote.type = "NONE" /\ ~NoNote.conflict /\ NoNote.org = NoRow
    BY <1>3, Zenon
  <2> HIDE DEF e
  <2>3. LET k == InitKeyPropRecord(NoNote, e)
        IN /\ k \in Note /\ k.exist = (IF NoNote.exist = "unset" THEN e ELSE NoNote.exist) /\ k.exist # "unset"
           /\ k.type = NoNote.type /\ k.org = NoNote.org /\ k.conflict = NoNote.conflict
    BY <2>1, <2>2, KnownKey, Zenon
  <2>. QED  BY <2>2, <2>3, Zenon DEF e
<1>5. ~DeletesNothing(item, row)  BY Zenon DEF DeletesNothing
<1>6. org = row  BY <1>3, <1>4, Zenon DEF InsertConflictedItem
<1> HIDE DEF known, j
<1>7. ConflictPut(conflict, known, j, row, row, b)  BY <1>1, <1>4, <1>6, ConflictData, Zenon
<1> HIDE DEF conflict
<1>8. /\ conflict \in Note /\ conflict.exist = known.exist /\ conflict.type = "NONE"
      /\ ~Conflicts(known, j, row) => conflict = known
      /\ conflict.conflict => Exists(row) /\ conflict.new = Side(IF Swaps(j, row) THEN row ELSE j)
  BY <1>4, <1>7, Zenon DEF ConflictPut, Conflicts
<1>9. CASE IsNeedIgnoredData(item, row, policy)
  <2>1. m = NoNote /\ s = row  BY <1>9, Zenon DEF NoteOf, SaveSyncDataItem, IsSaved
  <2> HIDE DEF m, s
  <2>2. PeerPut(m, row, s)  BY <1>3, <2>1, Zenon DEF Tells, PeerPut
  <2>. QED  BY <2>2, Zenon DEF m, s
<1>10. CASE ~IsNeedIgnoredData(item, row, policy) /\ IsDefeated(item, row, b, permit)
  <2>1. m = conflict /\ s = row  BY <1>5, <1>10, Zenon DEF NoteOf, SaveSyncDataItem, IsSaved, conflict, known, j
  <2>2. Swaps(j, row)
    <3>1. row.w >= item.w /\ j = item  BY <1>1, <1>10, Zenon DEF IsDefeated, NotNewer
    <3>2. row.w \in Nat /\ item.w \in Nat  BY Zenon DEF Row, Item, Stamps
    <3>3. item.w <= row.w  BY <3>1, <3>2
    <3>. QED  BY <3>1, <3>3, Zenon DEF Swaps
  <2> HIDE DEF m, s
  <2>3. conflict.conflict => conflict.new = Side(row)  BY <1>8, <2>2, Zenon
  <2>4. Tells(conflict, ValueOf(row), ValueOf(row))  BY <1>8, Zenon DEF Tells
  <2>5. PeerPut(m, row, s)  BY <1>8, <2>1, <2>3, <2>4, Zenon DEF PeerPut
  <2>. QED  BY <2>5, Zenon DEF m, s
<1>11. CASE ~IsNeedIgnoredData(item, row, policy) /\ ~IsDefeated(item, row, b, permit)
  <2>1. m = PutIntoCommittedData(conflict, j, row)  BY <1>5, <1>11, Zenon DEF NoteOf, conflict, known, j
  <2>2. s = SavedRow(j, row, b)  BY <1>5, <1>11, Zenon DEF SaveSyncDataItem, IsSaved, j
  <2>3. ValueOf(s) = ItemValue(j) /\ (Live(s) => s.value # 0) /\ Side(s) = Side(j)
    <3> HIDE DEF s
    <3>1. CASE j.status = "miss"
      <4>1. s.status = "none"  BY <2>2, <3>1, Zenon DEF SavedRow, NoRow
      <4>. QED  BY <3>1, <4>1, Zenon DEF ValueOf, Live, ItemValue, Side
    <3>2. CASE j.status # "miss"
      <4>1. s.status = j.status /\ s.value = ItemValue(j)  BY <2>2, <3>2, Zenon DEF SavedRow, ItemValue
      <4>. QED  BY <1>1, <4>1, Zenon DEF ValueOf, Live, ItemValue, Side, Filled
    <3>. QED  BY <3>1, <3>2, Zenon
  <2> HIDE DEF m, s
  <2>4. Exists(row) => ~Swaps(j, row)
    <3> SUFFICES ASSUME Exists(row) PROVE ~Swaps(j, row)
      OBVIOUS
    <3>1. row.w \in Nat /\ item.w \in Nat  BY Zenon DEF Row, Item, Stamps
    <3>2. CASE IsForced(item, row, b, permit)
      <4>1. j.w = row.w + 1  BY <1>1, <3>2, Zenon
      <4>2. ~(j.w <= row.w)  BY <3>1, <4>1
      <4>. QED  BY <4>2, Zenon DEF Swaps
    <3>3. CASE ~IsForced(item, row, b, permit)
      <4>1. ~(row.w >= item.w) /\ j = item  BY <1>1, <1>11, <3>3, Zenon DEF IsDefeated, NotNewer
      <4>2. ~(item.w <= row.w)  BY <3>1, <4>1
      <4>. QED  BY <4>1, <4>2, Zenon DEF Swaps
    <3>. QED  BY <3>2, <3>3, Zenon
  <2>5. KnownAs(conflict, ValueOf(row))  BY <1>2, <1>4, <1>8, Zenon DEF KnownAs
  <2>6. /\ KeepsRest(m, conflict)
        /\ j.status = "live" \/ Live(row) => Tells(m, ValueOf(row), ItemValue(j))
        /\ j.status # "live" /\ ~Live(row) => m = conflict
    BY <1>1, <1>2, <1>8, <2>1, <2>5, IntoCommittedData, Zenon
  <2>7. Tells(m, ValueOf(row), ItemValue(j))
    <3>1. CASE j.status # "live" /\ ~Live(row)
      <4>1. m.type = "NONE" /\ ValueOf(row) = 0 /\ ItemValue(j) = 0  BY <1>8, <2>6, <3>1, Zenon DEF ValueOf, ItemValue
      <4>. QED  BY <4>1, Zenon DEF Tells
    <3>. QED  BY <2>6, <3>1, Zenon
  <2>8. m \in Note /\ (m.conflict => m.new = Side(j))  BY <1>8, <2>4, <2>6, Zenon DEF KeepsRest
  <2>9. PeerPut(m, row, s)  BY <2>3, <2>7, <2>8, Zenon DEF PeerPut
  <2>. QED  BY <2>9, Zenon DEF m, s
<1>. QED  BY <1>9, <1>10, <1>11, Zenon

\* Nothing is told of tables that did not change.
LEMMA NothingTold ==
    ASSUME NEW tables \in Database
    PROVE  /\ EmptyNote \in Notes /\ \A k \in Keys : EmptyNote.sync[k] = NoNote
           /\ \A k \in Keys : /\ SyncTold(EmptyNote.sync[k], tables.sync[k], tables.sync[k])
                              /\ LocalTold(EmptyNote.local[k], tables.local[k].value, tables.local[k].value)
<1>1. NoRow \in Row  BY Zenon DEF NoRow, Row, Stamps
<1>2. /\ NoNote \in Note /\ NoNote.exist = "unset" /\ NoNote.type = "NONE" /\ ~NoNote.conflict
      /\ NoNote.org = NoRow /\ ~Exists(NoRow)
  <2>1. NoSide \in Sides  BY Zenon DEF NoSide, Sides
  <2>. QED  BY <1>1, <2>1, Zenon DEF NoNote, Note, NoRow, Exists
<1>3. /\ EmptyNote \in Notes
      /\ \A k \in Keys : EmptyNote.sync[k] = NoNote /\ EmptyNote.local[k] = NoNote
  BY <1>2, Zenon DEF EmptyNote, Notes
<1>4. ASSUME NEW k \in Keys
      PROVE  /\ SyncTold(NoNote, tables.sync[k], tables.sync[k])
             /\ LocalTold(NoNote, tables.local[k].value, tables.local[k].value)
  <2> DEFINE row == tables.sync[k]
             value == tables.local[k].value
  <2>1. row.w \in Nat  BY Zenon DEF Database, Row, Stamps
  <2> HIDE DEF row, value
  <2>2. row.w <= row.w  BY <2>1
  <2>3. Tells(NoNote, ValueOf(row), ValueOf(row)) /\ Tells(NoNote, value, value)  BY <1>2, Zenon DEF Tells
  <2>4. SyncTold(NoNote, row, row) /\ LocalTold(NoNote, value, value)
    BY <1>2, <2>2, <2>3, Zenon DEF SyncTold, LocalTold
  <2>. QED  BY <2>4, Zenon DEF row, value
<1>. QED  BY <1>3, <1>4, Zenon

LEMMA NInvInit == Init => NInv
<1> SUFFICES ASSUME Init PROVE NInv
  OBVIOUS
<1>1. db = [sync |-> [k \in Keys |-> NoRow], local |-> [k \in Keys |-> NoLocal]] /\ work = db  BY Zenon DEF Init
<1>2. db \in Database  BY IInvInit, Zenon DEF IInv, Types
<1>3. Sound(db)
  <2>1. \A k \in Keys : db.sync[k] = NoRow /\ db.local[k] = NoLocal  BY <1>1, Zenon
  <2>2. ~Live(NoRow)  BY Zenon DEF Live, NoRow
  <2>. QED  BY <2>1, <2>2, Zenon DEF Sound
<1>4. note \in [Procs -> Notes] /\ \A p \in Procs : note[p] = EmptyNote /\ pc[p] = "idle"
  <2>1. EmptyNote \in Notes  BY <1>2, NothingTold, Zenon
  <2>. QED  BY <2>1, Zenon DEF Init
<1>5. \A c \in Conns : c \in Procs /\ owner # c  BY Distinct, Zenon DEF Init, Procs
<1>6. \A b \in Peers : b \in Procs  BY Zenon DEF Procs
<1>. QED  BY <1>1, <1>3, <1>4, <1>5, <1>6, Zenon DEF NInv

\* Who takes the handle starts with empty notification data.
LEMMA NotedStart ==
    ASSUME IInv, IInv', NInv, NEW c \in Conns, StartTransaction(c) \/ StartAuto(c) \/ StartPublish(c)
    PROVE  NInv'
<1> USE Distinct
<1>1. /\ UNCHANGED <<db, work>> /\ owner = Here /\ owner' = c
      /\ note' = [note EXCEPT ![c] = EmptyNote]
      /\ \E to \in {"open", "batch", "save"} : pc' = [pc EXCEPT ![c] = to]
      /\ \A b \in Peers : op'[b] = op[b]
  <2>1. CASE StartTransaction(c) \/ StartAuto(c)
    BY <2>1, Zenon DEF StartTransaction, StartAuto, StartTransactionInner, Goto
  <2>2. CASE StartPublish(c)
    <3>1. \A b \in Peers : b \in Procs /\ b # c  BY Zenon DEF Procs
    <3>2. op \in [Procs -> Operation]  BY Zenon DEF IInv, Types
    <3>3. \A b \in Peers : op'[b] = op[b]  BY <2>2, <3>1, <3>2, Zenon DEF StartPublish
    <3>. QED  BY <2>2, <3>3, Zenon DEF StartPublish, StartTransactionInner, Goto
  <2>. QED  BY <2>1, <2>2, Zenon
<1>2. c \in Procs /\ work = db /\ db \in Database  BY <1>1, Zenon DEF Procs, IInv, Types, Handle
<1>3. EmptyNote \in Notes /\ Told(EmptyNote, db)  BY <1>2, NothingTold, Zenon DEF Told
<1>4. /\ note' \in [Procs -> Notes] /\ note'[c] = EmptyNote /\ \A q \in Procs \ {c} : note'[q] = note[q]
  BY <1>1, <1>2, <1>3, Zenon DEF NInv
<1>5. Sound(db)' /\ Sound(work)'  BY <1>1, Zenon DEF NInv, Sound
<1>6. \A d \in Conns : owner' = d => Told(note[d], work)'
  <2>1. Told(note[c], work)'  BY <1>1, <1>2, <1>3, <1>4, Zenon DEF Told
  <2>. QED  BY <1>1, <2>1, Zenon
<1>7. \A d \in Conns : pc'[d] = "save" => done'.writes # 0
  <2>1. \A d \in Conns : pc[d] # "save"  BY <1>1, Zenon DEF IInv, Handle, Holding, Procs
  <2>2. CASE StartTransaction(c) \/ StartAuto(c)
    <3>1. \E to \in {"open", "batch"} : pc' = [pc EXCEPT ![c] = to]
      BY <2>2, Zenon DEF StartTransaction, StartAuto, Goto
    <3>2. \A d \in Conns : pc'[d] # "save"  BY <1>2, <2>1, <3>1, Zenon DEF IInv, Types, Procs
    <3>. QED  BY <3>2, Zenon
  <2>3. CASE StartPublish(c)
    <3>1. done' = [done EXCEPT !.writes = @ + 1] /\ done \in [writes : Nat, packets : Nat, removes : Nat]
      BY <2>3, Zenon DEF StartPublish, IInv, Types
    <3>2. done'.writes # 0  BY <3>1
    <3>. QED  BY <3>2, Zenon
  <2>. QED  BY <2>2, <2>3, Zenon
<1>8. \A b \in Peers : /\ b \in Procs \ {c} /\ pc'[b] = pc[b]
  BY <1>1, ZenonT(30) DEF IInv, Types, Procs
<1>9. \A b \in Peers : /\ pc'[b] \in {"trans", "save"} => Filled(op'[b].item)
                       /\ pc'[b] # "notify" => note'[b] = EmptyNote
  BY <1>1, <1>4, <1>8, Zenon DEF NInv
<1>. QED  BY <1>4, <1>5, <1>6, <1>7, <1>9, Zenon DEF NInv

\* The entry of a batch has a number.
LEMMA NotedEntry ==
    ASSUME IInv, IInv', NInv, NEW c \in Conns, NextEntry(c)
    PROVE  NInv'
<1> USE Distinct
<1>1. /\ UNCHANGED <<db, work, owner, note>> /\ pc' = [pc EXCEPT ![c] = "save"]
      /\ done' = [done EXCEPT !.writes = @ + 1]
      /\ \E o : op' = [op EXCEPT ![c] = o]
  BY Zenon DEF NextEntry, storeVars
<1>2. done'.writes # 0
  <2>1. done \in [writes : Nat, packets : Nat, removes : Nat]  BY Zenon DEF IInv, Types
  <2>. QED  BY <1>1, <2>1
<1>3. \A b \in Peers : pc'[b] = pc[b] /\ op'[b] = op[b]  BY <1>1, Zenon DEF IInv, Types, Procs
<1>. QED  BY <1>1, <1>2, <1>3, Zenon DEF NInv, Sound, Told

\* The handle is given back, or the observers have been told.
LEMMA NotedEnd ==
    ASSUME IInv, IInv', NInv, NEW c \in Conns, CommitInner(c) \/ RollbackInner(c)
    PROVE  NInv'
<1> USE Distinct
<1>1. /\ UNCHANGED <<op, done>> /\ owner' = Here /\ work' = db' /\ (db' = db \/ db' = work)
      /\ \E to \in {"notify", "idle"} : pc' = [pc EXCEPT ![c] = to]
      /\ note' = note \/ note' = [note EXCEPT ![c] = EmptyNote]
  BY Zenon DEF CommitInner, RollbackInner
<1>2. EmptyNote \in Notes
  <2>1. db \in Database  BY Zenon DEF IInv, Types
  <2>. QED  BY <2>1, NothingTold, Zenon
<1>3. note' \in [Procs -> Notes] /\ \A b \in Peers : note'[b] = note[b]  BY <1>1, <1>2, Zenon DEF NInv, Procs
<1>4. Sound(db)' /\ Sound(work)'
  <2>1. Sound(db) /\ Sound(work)  BY Zenon DEF NInv
  <2>. QED  BY <1>1, <2>1, Zenon DEF Sound
<1>5. \A d \in Conns : owner' # d /\ pc'[d] # "save"
  <2>1. \A d \in Conns : owner' # d  BY <1>1, Zenon DEF Procs
  <2>. QED  BY <2>1, Zenon DEF IInv, Handle, Holding
<1>6. \A b \in Peers : pc'[b] = pc[b]  BY <1>1, Zenon DEF IInv, Types, Procs
<1>. QED  BY <1>1, <1>3, <1>4, <1>5, <1>6, Zenon DEF NInv

LEMMA NotedNotify ==
    ASSUME IInv, IInv', NInv, NEW p \in Procs, CommitNotify(p)
    PROVE  NInv'
<1> USE Distinct
<1>1. /\ UNCHANGED <<db, work, owner, op, done>> /\ pc[p] = "notify" /\ pc' = [pc EXCEPT ![p] = "idle"]
      /\ note' = [note EXCEPT ![p] = EmptyNote]
  BY Zenon DEF CommitNotify, Goto, storeVars
<1>2. EmptyNote \in Notes
  <2>1. db \in Database  BY Zenon DEF IInv, Types
  <2>. QED  BY <2>1, NothingTold, Zenon
<1>3. /\ note' \in [Procs -> Notes] /\ note'[p] = EmptyNote /\ \A q \in Procs \ {p} : note'[q] = note[q]
  BY <1>1, <1>2, Zenon DEF NInv
<1>4. pc'[p] = "idle" /\ \A q \in Procs \ {p} : pc'[q] = pc[q]  BY <1>1, Zenon DEF IInv, Types
<1>5. Sound(db)' /\ Sound(work)'  BY <1>1, Zenon DEF NInv, Sound
<1>6. ASSUME NEW d \in Conns PROVE (pc'[d] = "save" => done'.writes # 0) /\ (owner' = d => Told(note[d], work)')
  <2>1. d \in Procs  BY Zenon DEF Procs
  <2>2. CASE d = p
    <3>1. owner' # d  BY <1>1, <2>2, Zenon DEF IInv, Handle, Holding
    <3>. QED  BY <1>4, <2>2, <3>1, Zenon
  <2>3. CASE d # p
    <3>1. note'[d] = note[d] /\ pc'[d] = pc[d]  BY <1>3, <1>4, <2>1, <2>3, Zenon
    <3>. QED  BY <1>1, <3>1, Zenon DEF NInv, Told
  <2>. QED  BY <2>2, <2>3, Zenon
<1>7. ASSUME NEW b \in Peers
      PROVE  /\ pc'[b] \in {"trans", "save"} => Filled(op'[b].item)
             /\ pc'[b] # "notify" => note'[b] = EmptyNote
  <2>1. b \in Procs  BY Zenon DEF Procs
  <2>2. CASE b = p  BY <1>3, <1>4, <2>2, Zenon
  <2>3. CASE b # p
    <3>1. note'[b] = note[b] /\ pc'[b] = pc[b]  BY <1>3, <1>4, <2>1, <2>3, Zenon
    <3>. QED  BY <1>1, <3>1, Zenon DEF NInv
  <2>. QED  BY <2>2, <2>3, Zenon
<1>. QED  BY <1>3, <1>5, <1>6, <1>7, Zenon DEF NInv

\* The items of a packet have values.
LEMMA NotedPacket ==
    ASSUME IInv, IInv', NInv, NEW b \in Peers, Receive(b) \/ TransSendDataItemToLocal(b)
    PROVE  NInv'
<1> USE Distinct
<1>0. b \in Procs /\ b \notin Conns /\ op \in [Procs -> Operation] /\ pc \in [Procs -> Places]
  BY Zenon DEF Procs, IInv, Types
<1>1. /\ UNCHANGED <<db, work, owner, note>>
      /\ pc[b] \in {"idle", "trans"} /\ \E to \in {"trans", "save"} : pc' = [pc EXCEPT ![b] = to]
      /\ done'.writes = done.writes
  <2>1. CASE Receive(b)
    <3>1. done' = [done EXCEPT !.packets = @ + 1] /\ done \in [writes : Nat, packets : Nat, removes : Nat]
      BY <2>1, Zenon DEF Receive, IInv, Types
    <3>2. done'.writes = done.writes  BY <3>1, Zenon
    <3>. QED  BY <2>1, <3>2, Zenon DEF Receive, Goto, storeVars
  <2>2. CASE TransSendDataItemToLocal(b)  BY <2>2, Zenon DEF TransSendDataItemToLocal, Goto, storeVars
  <2>. QED  BY <2>1, <2>2, Zenon
<1>2. Filled(op'[b].item) /\ \A q \in Procs \ {b} : op'[q] = op[q]
  <2>1. CASE Receive(b)
    <3>1. PICK k \in scenario.keys, status \in {"live", "deleted", "miss"}, w \in PeerStamps, orig \in {Here, b} :
              op' = [op EXCEPT ![b] = [NoOp EXCEPT !.key = k, !.item = PacketItem(b, status, w, orig)]]
      BY <2>1, Zenon DEF Receive
    <3> DEFINE item == PacketItem(b, status, w, orig)
    <3>2. Filled(item)
      <4>1. done.packets \in Nat  BY Zenon DEF IInv, Types
      <4>2. 100 + done.packets # 0  BY <4>1
      <4>. QED  BY <4>2, Zenon DEF PacketItem, Filled
    <3> HIDE DEF item
    <3>3. [NoOp EXCEPT !.key = k, !.item = item].item = item  BY NoOpType, Zenon DEF Operation
    <3>4. op' = [op EXCEPT ![b] = [NoOp EXCEPT !.key = k, !.item = item]]  BY <3>1, Zenon DEF item
    <3>. QED  BY <1>0, <3>2, <3>3, <3>4, Zenon
  <2>2. CASE TransSendDataItemToLocal(b)
    <3> DEFINE old == op[b].item
               new == InPast(old, stamp[b])
    <3>1. op[b] \in Operation /\ old \in Item /\ stamp[b] \in Nat  BY <1>0, Zenon DEF IInv, Types, Operation, Stamps
    <3>2. Filled(old)  BY <2>2, Zenon DEF TransSendDataItemToLocal, Goto, NInv
    <3>3. Filled(new)
      <4>1. new.value = old.value /\ new.status = old.status  BY <3>1, InPastItem, Zenon
      <4>. QED  BY <3>2, <4>1, Zenon DEF Filled
    <3>4. op' = [op EXCEPT ![b] = [op[b] EXCEPT !.item = new]]
      BY <1>0, <2>2, Zenon DEF TransSendDataItemToLocal
    <3> HIDE DEF new
    <3>5. [op[b] EXCEPT !.item = new].item = new  BY <3>1, Zenon DEF Operation
    <3>. QED  BY <1>0, <3>3, <3>4, <3>5, Zenon
  <2>. QED  BY <2>1, <2>2, Zenon
<1>3. \A q \in Procs \ {b} : pc'[q] = pc[q]  BY <1>0, <1>1, Zenon
<1>4. note \in [Procs -> Notes] /\ Sound(db) /\ Sound(work)  BY Zenon DEF NInv
<1>5. Sound(db)' /\ Sound(work)'  BY <1>1, <1>4, Zenon DEF Sound
<1>6. ASSUME NEW d \in Conns PROVE (pc'[d] = "save" => done'.writes # 0) /\ (owner' = d => Told(note[d], work)')
  <2>1. pc'[d] = pc[d]  BY <1>0, <1>3, Zenon DEF Procs
  <2>. QED  BY <1>1, <2>1, Zenon DEF NInv, Told
<1>7. ASSUME NEW d \in Peers
      PROVE  /\ pc'[d] \in {"trans", "save"} => Filled(op'[d].item)
             /\ pc'[d] # "notify" => note'[d] = EmptyNote
  <2>1. CASE d = b  BY <1>1, <1>2, <2>1, Zenon DEF NInv
  <2>2. CASE d # b
    <3>1. pc'[d] = pc[d] /\ op'[d] = op[d]  BY <1>2, <1>3, <2>2, Zenon DEF Procs
    <3>. QED  BY <1>1, <3>1, Zenon DEF NInv
  <2>. QED  BY <2>1, <2>2, Zenon
<1>. QED  BY <1>1, <1>4, <1>5, <1>6, <1>7, Zenon DEF NInv

\* A saved packet, and what is told of it
Reports(n, before, after) ==
    /\ Tells(n, ValueOf(before), ValueOf(after))
    /\ n.conflict /\ ~PutBack(before, after) => n.new = Side(after)

LEMMA PacketTold ==
    ASSUME IInv, NInv, NEW b \in Peers, SaveSyncItems(b), ~UNCHANGED note \/ ~UNCHANGED db \/ pc'[b] = "notify"
    PROVE  /\ note' \in [Procs -> Notes] /\ (\A q \in Procs \ {b} : note'[q] = note[q])
           /\ pc'[b] = "notify" /\ Sound(db)'
           /\ \A k \in Keys : /\ Reports(note'[b].sync[k], db.sync[k], db'.sync[k])
                              /\ Tells(note'[b].local[k], db.local[k].value, db'.local[k].value)
<1> DEFINE k == op[b].key  item == op[b].item  row == db.sync[k]
           new == SaveSyncDataItem(item, row, b, scenario.permit, scenario.policy)
           n == NoteOf(NoNote, item, row, b, scenario.permit, scenario.policy)
<1>0. /\ b \in Procs /\ k \in Keys /\ item \in Item /\ row \in Row /\ db \in Database
      /\ db.local[k] \in [value : Nat, ts : Stamps] /\ pc \in [Procs -> Places]
  <2>1. b \in Procs /\ pc \in [Procs -> Places] /\ db \in Database  BY Zenon DEF Procs, IInv, Types
  <2>2. k \in Keys /\ item \in Item  BY <2>1, Zenon DEF IInv, Types, Operation
  <2>3. row \in Row /\ db.local[k] \in [value : Nat, ts : Stamps]  BY <2>2, Zenon DEF IInv, Types, Database
  <2>. QED  BY <2>1, <2>2, <2>3, Zenon
<1>1. /\ pc[b] = "save" /\ pc' = [pc EXCEPT ![b] = "notify"]
      /\ db' = With(db, k, new, db.local[k])
      /\ note' = [note EXCEPT ![b].sync[k] = NoteOf(@, item, row, b, scenario.permit, scenario.policy)]
  BY <1>0, Zenon DEF SaveSyncItems
<1>2. ~item.local /\ item.status # "none" /\ Filled(item) /\ note[b] = EmptyNote /\ (Live(row) => row.value # 0)
  <2>1. ~item.local /\ item.status # "none"  BY <1>1, Zenon DEF IInv, Packet
  <2>2. Filled(item) /\ note[b] = EmptyNote  BY <1>1, Zenon DEF NInv
  <2>3. Live(row) => row.value # 0  BY <1>0, Zenon DEF NInv, Sound
  <2>. QED  BY <2>1, <2>2, <2>3, Zenon
<1>3. /\ EmptyNote \in Notes /\ EmptyNote.sync[k] = NoNote
      /\ \A j \in Keys : /\ SyncTold(EmptyNote.sync[j], db.sync[j], db.sync[j])
                         /\ LocalTold(EmptyNote.local[j], db.local[j].value, db.local[j].value)
  BY <1>0, NothingTold, Zenon
<1>4. new \in Row
  <2>1. PeerSaved(new, item, row, b, scenario.policy)  BY <1>0, <1>2, PeerSave, Zenon
  <2>. QED  BY <2>1, Zenon DEF PeerSaved
<1>5. /\ n \in Note /\ Tells(n, ValueOf(row), ValueOf(new))
      /\ (n.conflict => n.new = Side(new)) /\ (Live(new) => new.value # 0)
  <2>1. PeerPut(n, row, new)
    <3> HIDE DEF item, row
    <3>. QED  BY <1>0, <1>2, PeerNoted, Zenon
  <2> HIDE DEF n, row, new
  <2>. QED  BY <2>1, Zenon DEF PeerPut
<1>6. note' = [note EXCEPT ![b] = [EmptyNote EXCEPT !.sync = [EmptyNote.sync EXCEPT ![k] = n]]]
  <2>1. note[b].sync[k] = NoNote /\ note \in [Procs -> Notes]  BY <1>2, <1>3, Zenon DEF NInv
  <2>2. note' = [note EXCEPT ![b] = [note[b] EXCEPT !.sync = [note[b].sync EXCEPT ![k] =
                     NoteOf(note[b].sync[k], item, row, b, scenario.permit, scenario.policy)]]]
    BY <1>1, Zenon
  <2>. QED  BY <1>2, <2>1, <2>2, Zenon
<1> HIDE DEF n, new, item, row, k
<1>7. Image(db', db, k, new, db.local[k])  BY <1>0, <1>1, <1>4, ImageOf, Zenon
<1> DEFINE mine == [EmptyNote EXCEPT !.sync = [EmptyNote.sync EXCEPT ![k] = n]]
<1>8. /\ mine \in Notes /\ mine.sync[k] = n
      /\ \A j \in Keys : mine.local[j] = EmptyNote.local[j] /\ (j # k => mine.sync[j] = EmptyNote.sync[j])
  <2>1. EmptyNote.sync \in [Keys -> Note]  BY <1>3, Zenon DEF Notes
  <2> DEFINE f == [EmptyNote.sync EXCEPT ![k] = n]
  <2>2. f \in [Keys -> Note] /\ f[k] = n /\ \A j \in Keys : j # k => f[j] = EmptyNote.sync[j]
    BY <1>0, <1>5, <2>1, Zenon
  <2> HIDE DEF f
  <2>3. LET t == [EmptyNote EXCEPT !.sync = f] IN t \in Notes /\ t.sync = f /\ t.local = EmptyNote.local
    BY <1>3, <2>2, Zenon DEF Notes
  <2>4. mine = [EmptyNote EXCEPT !.sync = f]  BY Zenon DEF f
  <2> HIDE DEF mine
  <2>5. mine \in Notes /\ mine.sync = f /\ mine.local = EmptyNote.local  BY <2>3, <2>4, Zenon
  <2>. QED  BY <2>2, <2>5, Zenon
<1>9. note' = [note EXCEPT ![b] = mine]  BY <1>6, Zenon
<1> HIDE DEF mine
<1>10. note' \in [Procs -> Notes] /\ note'[b] = mine /\ \A q \in Procs \ {b} : note'[q] = note[q]
  <2>1. note \in [Procs -> Notes]  BY Zenon DEF NInv
  <2>. QED  BY <1>0, <1>8, <1>9, <2>1, Zenon
<1>11. Sound(db)'
  <2>1. Sound(db)  BY Zenon DEF NInv
  <2>2. ASSUME NEW j \in Keys
        PROVE  /\ Live(db'.sync[j]) => db'.sync[j].value # 0
               /\ db'.local[j].value = 0 => db'.local[j] = NoLocal
    <3>1. CASE j = k  BY <1>5, <1>7, <2>1, <3>1, Zenon DEF Sound, Image
    <3>2. CASE j # k  BY <1>7, <2>1, <3>2, Zenon DEF Sound, Image
    <3>. QED  BY <3>1, <3>2, Zenon
  <2>. QED  BY <2>2, Zenon DEF Sound
<1>12. ASSUME NEW j \in Keys
       PROVE  /\ Reports(note'[b].sync[j], db.sync[j], db'.sync[j])
              /\ Tells(note'[b].local[j], db.local[j].value, db'.local[j].value)
  <2>1. db'.local[j] = db.local[j]  BY <1>7, Zenon DEF Image
  <2>2. Tells(note'[b].local[j], db.local[j].value, db'.local[j].value)
    BY <1>3, <1>8, <1>10, <2>1, Zenon DEF LocalTold
  <2>3. CASE j = k
    <3>1. note'[b].sync[j] = n /\ db'.sync[j] = new /\ db.sync[j] = row  BY <1>7, <1>8, <1>10, <2>3, Zenon DEF Image, row
    <3>2. Reports(n, row, new)  BY <1>5, Zenon DEF Reports
    <3>. QED  BY <2>2, <3>1, <3>2, Zenon
  <2>4. CASE j # k
    <3>1. note'[b].sync[j] = EmptyNote.sync[j] /\ db'.sync[j] = db.sync[j]
      BY <1>7, <1>8, <1>10, <2>4, Zenon DEF Image
    <3>2. SyncTold(EmptyNote.sync[j], db.sync[j], db.sync[j])  BY <1>3, Zenon
    <3>3. Reports(EmptyNote.sync[j], db.sync[j], db.sync[j])  BY <3>2, Zenon DEF SyncTold, Reports
    <3>. QED  BY <2>2, <3>1, <3>3, Zenon
  <2>. QED  BY <2>3, <2>4, Zenon
<1>13. pc'[b] = "notify"  BY <1>0, <1>1, Zenon
<1>. QED  BY <1>10, <1>11, <1>12, <1>13, Zenon

\* Steps of the threads that save packets and of RemoveDeviceData
LEMMA NotedSave ==
    ASSUME IInv, IInv', NInv, NEW b \in Peers, SaveSyncItems(b)
    PROVE  NInv'
<1> USE Distinct
<1>0. b \in Procs /\ pc \in [Procs -> Places] /\ op \in [Procs -> Operation]  BY Zenon DEF Procs, IInv, Types
<1>1. /\ pc[b] = "save" /\ owner = Here /\ UNCHANGED <<owner, done>> /\ work' = db' /\ op' = [op EXCEPT ![b] = NoOp]
      /\ \E to \in {"notify", "idle"} : pc' = [pc EXCEPT ![b] = to]
  BY Zenon DEF SaveSyncItems, EndOp
<1>2. pc'[b] \in {"notify", "idle"} /\ \A q \in Procs \ {b} : pc'[q] = pc[q] /\ op'[q] = op[q]
  BY <1>0, <1>1, Zenon
<1>3. /\ note' \in [Procs -> Notes] /\ (\A q \in Procs \ {b} : note'[q] = note[q])
      /\ Sound(db)' /\ Sound(work)' /\ (pc'[b] # "notify" => note'[b] = EmptyNote)
  <2>1. CASE UNCHANGED <<note, db>>
    <3>1. note \in [Procs -> Notes] /\ Sound(db) /\ note[b] = EmptyNote  BY <1>1, Zenon DEF NInv
    <3>. QED  BY <1>1, <2>1, <3>1, Zenon DEF Sound
  <2>2. CASE ~UNCHANGED <<note, db>>
    <3>1. /\ note' \in [Procs -> Notes] /\ (\A q \in Procs \ {b} : note'[q] = note[q])
          /\ pc'[b] = "notify" /\ Sound(db)'
      BY <2>2, PacketTold, Zenon
    <3>2. Sound(work)'  BY <1>1, <3>1, Zenon DEF Sound
    <3>. QED  BY <3>1, <3>2, Zenon
  <2>. QED  BY <2>1, <2>2, Zenon
<1>4. \A d \in Conns : owner' # d /\ pc'[d] # "save"
  <2>1. \A d \in Conns : owner' # d  BY <1>1, Zenon DEF Procs
  <2>. QED  BY <2>1, Zenon DEF IInv, Handle, Holding
<1>5. ASSUME NEW d \in Peers
      PROVE  /\ pc'[d] \in {"trans", "save"} => Filled(op'[d].item)
             /\ pc'[d] # "notify" => note'[d] = EmptyNote
  <2>1. CASE d = b  BY <1>2, <1>3, <2>1, Zenon
  <2>2. CASE d # b
    <3>1. pc'[d] = pc[d] /\ op'[d] = op[d] /\ note'[d] = note[d]  BY <1>2, <1>3, <2>2, Zenon DEF Procs
    <3>. QED  BY <3>1, Zenon DEF NInv
  <2>. QED  BY <2>1, <2>2, Zenon
<1>. QED  BY <1>3, <1>4, <1>5, Zenon DEF NInv

LEMMA NotedRemove ==
    ASSUME IInv, IInv', NInv, NEW b \in Peers, RemoveDeviceData(b)
    PROVE  NInv'
<1> USE Distinct
<1>1. /\ UNCHANGED <<owner, pc, op, note>> /\ owner = Here /\ work' = db'
      /\ \A k \in Keys : /\ db'.local[k] = db.local[k]
                         /\ db'.sync[k] = db.sync[k] \/ db'.sync[k] = NoRow
  BY Zenon DEF RemoveDeviceData
<1>2. ~Live(NoRow)  BY Zenon DEF NoRow, Live
<1>3. Sound(db)'
  <2>1. \A k \in Keys : /\ Live(db.sync[k]) => db.sync[k].value # 0
                        /\ db.local[k].value = 0 => db.local[k] = NoLocal
    BY Zenon DEF NInv, Sound
  <2>2. ASSUME NEW k \in Keys
        PROVE  /\ Live(db'.sync[k]) => db'.sync[k].value # 0
               /\ db'.local[k].value = 0 => db'.local[k] = NoLocal
    <3> DEFINE old == db.sync[k]
               new == db'.sync[k]
    <3>1. db'.local[k] = db.local[k] /\ (new = old \/ new = NoRow)  BY <1>1, <2>2, Zenon
    <3>2. (Live(old) => old.value # 0) /\ (db.local[k].value = 0 => db.local[k] = NoLocal)  BY <2>1, <2>2, Zenon
    <3> HIDE DEF old, new
    <3>3. Live(new) => new.value # 0  BY <1>2, <3>1, <3>2, Zenon
    <3>. QED  BY <3>1, <3>2, <3>3, Zenon DEF new
  <2>. QED  BY <2>2, Zenon DEF Sound
<1>4. Sound(work)'  BY <1>1, <1>3, Zenon DEF Sound
<1>5. \A d \in Conns : owner' # d /\ pc'[d] # "save"
  <2>1. \A d \in Conns : owner' # d  BY <1>1, Zenon DEF Procs
  <2>. QED  BY <2>1, Zenon DEF IInv, Handle, Holding
<1>. QED  BY <1>1, <1>3, <1>4, <1>5, Zenon DEF NInv

-----------------------------------------------------------------------------
(* What the writing operations leave in the notification data.  A note and a local
   note of one key change, as a row and a local record do. *)
NoteImage(new, old, k, sync, local) ==
    /\ new \in Notes
    /\ new.sync[k] = sync /\ new.local[k] = local
    /\ \A j \in Keys \ {k} : new.sync[j] = old.sync[j] /\ new.local[j] = old.local[j]

NotesWith(t, k, sync, local) == [sync |-> [t.sync EXCEPT ![k] = sync], local |-> [t.local EXCEPT ![k] = local]]

LEMMA NoteImageOf ==
    ASSUME NEW t \in Notes, NEW k \in Keys, NEW sync \in Note, NEW local \in Note
    PROVE  NoteImage(NotesWith(t, k, sync, local), t, k, sync, local)
<1> DEFINE f == [t.sync EXCEPT ![k] = sync]
           g == [t.local EXCEPT ![k] = local]
<1>1. t.sync \in [Keys -> Note] /\ t.local \in [Keys -> Note]  BY Zenon DEF Notes
<1>2. /\ f \in [Keys -> Note] /\ f[k] = sync /\ \A j \in Keys \ {k} : f[j] = t.sync[j]
  BY <1>1, Zenon
<1>3. /\ g \in [Keys -> Note] /\ g[k] = local /\ \A j \in Keys \ {k} : g[j] = t.local[j]
  BY <1>1, Zenon
<1> DEFINE new == NotesWith(t, k, sync, local)
<1>4. new = [sync |-> f, local |-> g]  BY Zenon DEF NotesWith
<1> HIDE DEF new, f, g
<1>5. new \in Notes /\ new.sync = f /\ new.local = g  BY <1>2, <1>3, <1>4, Zenon DEF Notes
<1>6. NoteImage(new, t, k, sync, local)  BY <1>2, <1>3, <1>5, Zenon DEF NoteImage
<1>. QED  BY <1>6, Zenon DEF new

\* The step of a writing operation: the frame, and for one key the row, the local record and their notes
Consistent(k, row, rec, sync, local) ==
    /\ row \in Row /\ rec \in [value : Nat, ts : Stamps] /\ sync \in Note /\ local \in Note
    /\ Live(row) => row.value # 0
    /\ rec.value = 0 => rec = NoLocal
    /\ SyncTold(sync, db.sync[k], row)
    /\ LocalTold(local, db.local[k].value, rec.value)

LEMMA NotedWrite ==
    ASSUME IInv, IInv', NInv, NEW c \in Conns, WriteFrame(c), NEW k \in Keys, NEW row, NEW rec, NEW sync, NEW local,
           work' = With(work, k, row, rec), note' = [note EXCEPT ![c] = NotesWith(note[c], k, sync, local)],
           Consistent(k, row, rec, sync, local)
    PROVE  NInv'
<1> USE Distinct
<1>0. /\ row \in Row /\ rec \in [value : Nat, ts : Stamps] /\ sync \in Note /\ local \in Note
      /\ Live(row) => row.value # 0
      /\ rec.value = 0 => rec = NoLocal
      /\ SyncTold(sync, db.sync[k], row)
      /\ LocalTold(local, db.local[k].value, rec.value)
  BY Zenon DEF Consistent
<1>1. /\ pc[c] = "save" /\ UNCHANGED <<db, owner, done>> /\ EndOp(c)
      /\ \E to \in {"open", "batch", "commit", "rollback"} : pc' = [pc EXCEPT ![c] = to]
  BY Zenon DEF WriteFrame
<1>2. /\ c \in Procs /\ owner = c /\ work \in Database /\ pc \in [Procs -> Places] /\ op \in [Procs -> Operation]
  BY <1>1, Zenon DEF Procs, IInv, Types, Handle, Holding
<1>3. note \in [Procs -> Notes] /\ note[c] \in Notes /\ Sound(db) /\ Sound(work) /\ Told(note[c], work)
  BY <1>2, Zenon DEF NInv
<1>4. Image(work', work, k, row, rec)  BY <1>0, <1>2, ImageOf, Zenon
<1>5. NoteImage(NotesWith(note[c], k, sync, local), note[c], k, sync, local)  BY <1>0, <1>3, NoteImageOf, Zenon
<1> DEFINE mine == NotesWith(note[c], k, sync, local)
<1>6. note' = [note EXCEPT ![c] = mine] /\ NoteImage(mine, note[c], k, sync, local)  BY <1>5, Zenon
<1> HIDE DEF mine
<1>7. mine \in Notes  BY <1>6, Zenon DEF NoteImage
<1>8. note' \in [Procs -> Notes] /\ note'[c] = mine /\ \A q \in Procs \ {c} : note'[q] = note[q]
  BY <1>2, <1>3, <1>6, <1>7, Zenon
<1>9. Sound(db)'  BY <1>1, <1>3, Zenon DEF Sound
<1>10. Sound(work)'
  <2> SUFFICES ASSUME NEW j \in Keys
               PROVE  /\ Live(work'.sync[j]) => work'.sync[j].value # 0
                      /\ work'.local[j].value = 0 => work'.local[j] = NoLocal
    BY Zenon DEF Sound
  <2>1. CASE j = k  BY <1>0, <1>4, <2>1, Zenon DEF Image
  <2>2. CASE j # k
    <3>1. work'.sync[j] = work.sync[j] /\ work'.local[j] = work.local[j]  BY <1>4, <2>2, Zenon DEF Image
    <3>2. (Live(work.sync[j]) => work.sync[j].value # 0) /\ (work.local[j].value = 0 => work.local[j] = NoLocal)
      BY <1>3, Zenon DEF Sound
    <3>. QED  BY <3>1, <3>2, Zenon
  <2>. QED  BY <2>1, <2>2, Zenon
<1>11. Told(note[c], work)'
  <2> SUFFICES ASSUME NEW j \in Keys
               PROVE  /\ SyncTold(note'[c].sync[j], db'.sync[j], work'.sync[j])
                      /\ LocalTold(note'[c].local[j], db'.local[j].value, work'.local[j].value)
    BY Zenon DEF Told
  <2>1. CASE j = k
    <3>1. work'.sync[j] = row /\ work'.local[j] = rec /\ note'[c].sync[j] = sync /\ note'[c].local[j] = local
      BY <1>4, <1>6, <1>8, <2>1, Zenon DEF Image, NoteImage
    <3>. QED  BY <1>0, <1>1, <2>1, <3>1, Zenon
  <2>2. CASE j # k
    <3>1. /\ work'.sync[j] = work.sync[j] /\ work'.local[j] = work.local[j]
          /\ note'[c].sync[j] = note[c].sync[j] /\ note'[c].local[j] = note[c].local[j]
      BY <1>4, <1>6, <1>8, <2>2, Zenon DEF Image, NoteImage
    <3>2. /\ SyncTold(note[c].sync[j], db.sync[j], work.sync[j])
          /\ LocalTold(note[c].local[j], db.local[j].value, work.local[j].value)
      BY <1>3, Zenon DEF Told
    <3>. QED  BY <1>1, <3>1, <3>2, Zenon
  <2>. QED  BY <2>1, <2>2, Zenon
<1>12. ASSUME NEW d \in Conns PROVE (pc'[d] = "save" => done'.writes # 0) /\ (owner' = d => Told(note[d], work)')
  <2>1. owner' = c  BY <1>1, <1>2, Zenon
  <2>2. owner' = d => Told(note[d], work)'  BY <1>11, <2>1, Zenon
  <2>3. done'.writes # 0  BY <1>1, Zenon DEF NInv
  <2>. QED  BY <2>2, <2>3, Zenon
<1>13. \A b \in Peers : /\ b \in Procs \ {c} /\ pc'[b] = pc[b] /\ op'[b] = op[b]
  BY <1>1, <1>2, Zenon DEF Procs, EndOp
<1>14. ASSUME NEW b \in Peers
       PROVE  /\ pc'[b] \in {"trans", "save"} => Filled(op'[b].item)
              /\ pc'[b] # "notify" => note'[b] = EmptyNote
  BY <1>8, <1>13, Zenon DEF NInv
<1>. QED  BY <1>8, <1>9, <1>10, <1>12, <1>14, Zenon DEF NInv

LEMMA NotedNothing ==
    ASSUME IInv, IInv', NInv, NEW c \in Conns, WriteFrame(c), UNCHANGED <<work, note>>
    PROVE  NInv'
<1> USE Distinct
<1>1. /\ pc[c] = "save" /\ UNCHANGED <<db, owner, done>> /\ EndOp(c)
      /\ \E to \in {"open", "batch", "commit", "rollback"} : pc' = [pc EXCEPT ![c] = to]
  BY Zenon DEF WriteFrame
<1>2. \A b \in Peers : /\ b \in Procs \ {c} /\ pc'[b] = pc[b] /\ op'[b] = op[b]
  <2>1. c \in Procs /\ pc \in [Procs -> Places] /\ op \in [Procs -> Operation]  BY Zenon DEF Procs, IInv, Types
  <2>. QED  BY <1>1, <2>1, Zenon DEF Procs, EndOp
<1>3. done'.writes # 0  BY <1>1, Zenon DEF NInv
<1>. QED  BY <1>1, <1>2, <1>3, Zenon DEF NInv, Sound, Told

\* The notes as the writing operations state them
SyncWith(t, k, n)         == [t EXCEPT !.sync[k] = n]
LocalWith(t, k, n)        == [t EXCEPT !.local[k] = n]
SyncThenLocal(t, k, n, m) == [t EXCEPT !.sync[k] = n, !.local[k] = m]
LocalThenSync(t, k, n, m) == [t EXCEPT !.local[k] = m, !.sync[k] = n]

LEMMA OneNote ==
    ASSUME NEW t \in Notes, NEW k \in Keys, NEW n
    PROVE  /\ SyncWith(t, k, n) = NotesWith(t, k, n, t.local[k])
           /\ LocalWith(t, k, n) = NotesWith(t, k, t.sync[k], n)
<1>1. [t.local EXCEPT ![k] = t.local[k]] = t.local /\ [t.sync EXCEPT ![k] = t.sync[k]] = t.sync
  <2>1. t.sync \in [Keys -> Note] /\ t.local \in [Keys -> Note]  BY Zenon DEF Notes
  <2>. QED  BY <2>1, Zenon
<1>2. \A f : [t EXCEPT !.sync = f] = [sync |-> f, local |-> t.local]  BY DEF Notes
<1>3. \A g : [t EXCEPT !.local = g] = [sync |-> t.sync, local |-> g]  BY DEF Notes
<1>4. [t EXCEPT !.sync[k] = n] = NotesWith(t, k, n, t.local[k])
  <2>1. [t EXCEPT !.sync[k] = n] = [t EXCEPT !.sync = [t.sync EXCEPT ![k] = n]]  BY Zenon DEF Notes
  <2>. QED  BY <1>1, <1>2, <2>1, Zenon DEF NotesWith
<1>5. [t EXCEPT !.local[k] = n] = NotesWith(t, k, t.sync[k], n)
  <2>1. [t EXCEPT !.local[k] = n] = [t EXCEPT !.local = [t.local EXCEPT ![k] = n]]  BY Zenon DEF Notes
  <2>. QED  BY <1>1, <1>3, <2>1, Zenon DEF NotesWith
<1>. QED  BY <1>4, <1>5, Zenon DEF SyncWith, LocalWith

LEMMA BothNotes ==
    ASSUME NEW t \in Notes, NEW k \in Keys, NEW n, NEW m
    PROVE  /\ SyncThenLocal(t, k, n, m) = NotesWith(t, k, n, m)
           /\ LocalThenSync(t, k, n, m) = NotesWith(t, k, n, m)
<1> DEFINE f == [t.sync EXCEPT ![k] = n]
           h == [t.local EXCEPT ![k] = m]
<1>1. SyncThenLocal(t, k, n, m) = NotesWith(t, k, n, m)
  <2> DEFINE new == SyncThenLocal(t, k, n, m)
  <2>1. new = [t EXCEPT !.sync = f, !.local = h]  BY Zenon DEF Notes, SyncThenLocal
  <2> HIDE DEF new, f, h
  <2>2. new = [sync |-> f, local |-> h]  BY <2>1, Zenon DEF Notes
  <2>. QED  BY <2>2, Zenon DEF NotesWith, f, h, new
<1>2. LocalThenSync(t, k, n, m) = NotesWith(t, k, n, m)
  <2> DEFINE new == LocalThenSync(t, k, n, m)
  <2>1. new = [t EXCEPT !.local = h, !.sync = f]  BY Zenon DEF Notes, LocalThenSync
  <2> HIDE DEF new, f, h
  <2>2. new = [sync |-> f, local |-> h]  BY <2>1, Zenon DEF Notes
  <2>. QED  BY <2>2, Zenon DEF NotesWith, f, h, new
<1>. QED  BY <1>1, <1>2, Zenon

\* What a connection about to write has
LEMMA WriterFacts ==
    ASSUME IInv, NInv, NEW c \in Conns, pc[c] = "save", NEW k \in Keys
    PROVE  /\ c \in Procs /\ note \in [Procs -> Notes] /\ note[c] \in Notes
           /\ note[c].sync[k] \in Note /\ note[c].local[k] \in Note
           /\ work.sync[k] \in Row /\ db.sync[k] \in Row
           /\ work.local[k] \in [value : Nat, ts : Stamps] /\ work.local[k].value \in Nat /\ db.local[k].value \in Nat
           /\ Live(work.sync[k]) => work.sync[k].value # 0
           /\ Live(db.sync[k]) => db.sync[k].value # 0
           /\ work.local[k].value = 0 => work.local[k] = NoLocal
           /\ SyncTold(note[c].sync[k], db.sync[k], work.sync[k])
           /\ LocalTold(note[c].local[k], db.local[k].value, work.local[k].value)
           /\ stamp[c] \in Nat /\ ~(work.sync[k].w >= stamp[c])
           /\ \A v \in NewValues : v \in Nat /\ v # 0
<1>1. c \in Procs /\ owner = c  BY Zenon DEF Procs, IInv, Handle, Holding
<1>2. note \in [Procs -> Notes] /\ note[c] \in Notes /\ Sound(db) /\ Sound(work) /\ Told(note[c], work) /\ done.writes # 0
  BY <1>1, Zenon DEF NInv
<1>3. note[c].sync[k] \in Note /\ note[c].local[k] \in Note  BY <1>2, Zenon DEF Notes
<1>4. db \in Database /\ work \in Database  BY Zenon DEF IInv, Types
<1>5. /\ work.sync[k] \in Row /\ db.sync[k] \in Row
      /\ work.local[k] \in [value : Nat, ts : Stamps] /\ db.local[k] \in [value : Nat, ts : Stamps]
  BY <1>4, Zenon DEF Database
<1>6. stamp[c] \in Nat /\ ~(work.sync[k].w >= stamp[c])
  <2>1. stamp[c] \in Nat /\ work.sync[k].w \in Nat /\ stamp[c] > work.sync[k].w
    BY <1>1, <1>5, Zenon DEF IInv, Types, Ahead, Row, Stamps
  <2>. QED  BY <2>1
<1>7. \A v \in NewValues : v \in Nat /\ v # 0
  <2>1. done.writes \in Nat  BY Zenon DEF IInv, Types
  <2>. QED  BY <1>2, <2>1 DEF NewValues
<1>8. /\ Live(work.sync[k]) => work.sync[k].value # 0
      /\ Live(db.sync[k]) => db.sync[k].value # 0
      /\ work.local[k].value = 0 => work.local[k] = NoLocal
  BY <1>2, Zenon DEF Sound
<1>9. /\ SyncTold(note[c].sync[k], db.sync[k], work.sync[k])
      /\ LocalTold(note[c].local[k], db.local[k].value, work.local[k].value)
  BY <1>2, Zenon DEF Told
<1>10. work.local[k].value \in Nat /\ db.local[k].value \in Nat  BY <1>5, Zenon
<1>. QED  BY <1>1, <1>2, <1>3, <1>5, <1>6, <1>7, <1>8, <1>9, <1>10, Zenon

\* A row is saved, and its note with it.
LEMMA RowNoted ==
    ASSUME IInv, NInv, NEW c \in Conns, pc[c] = "save", NEW k \in Keys, NEW item, LocalItem(item),
           ~NotNewer(item, work.sync[k])
    PROVE  LET m == NoteOf(note[c].sync[k], item, work.sync[k], Here, TRUE, scenario.policy)
               s == SaveSyncDataItem(item, work.sync[k], Here, TRUE, scenario.policy)
           IN m \in Note /\ s \in Row /\ SyncTold(m, db.sync[k], s) /\ (Live(s) => s.value # 0)
<1> DEFINE n == note[c].sync[k]
           row == work.sync[k]
           before == db.sync[k]
<1>1. /\ n \in Note /\ row \in Row /\ before \in Row /\ SyncTold(n, before, row)
      /\ (Live(row) => row.value # 0) /\ (Live(before) => before.value # 0)
  BY WriterFacts, Zenon
<1>2. item \in Item /\ item.local /\ item.status # "miss" /\ item.status # "none"
  BY Zenon DEF LocalItem
<1>3. ~NotNewer(item, row)  OBVIOUS
<1>4. SaveSyncDataItem(item, row, Here, TRUE, scenario.policy) \in Row
  <2> HIDE DEF row
  <2>. QED  BY <1>1, <1>2, LocalSave, Zenon
<1> DEFINE m == NoteOf(n, item, row, Here, TRUE, scenario.policy)
           s == SaveSyncDataItem(item, row, Here, TRUE, scenario.policy)
<1>5. m \in Note /\ SyncTold(m, before, s) /\ (Live(s) => s.value # 0)
  <2> HIDE DEF n, row, before
  <2>. QED  BY <1>1, <1>3, SyncNoted, Zenon
<1>. QED  BY <1>4, <1>5, Zenon

LEMMA NotedSaveEntry ==
    ASSUME IInv, IInv', NInv, NEW c \in Conns, WriteFrame(c), NEW k \in Keys, NEW item, LocalItem(item),
           item.w = stamp[c], SaveEntry(c, k, item)
    PROVE  NInv'
<1> DEFINE row == SaveSyncDataItem(item, work.sync[k], Here, TRUE, scenario.policy)
           sync == NoteOf(note[c].sync[k], item, work.sync[k], Here, TRUE, scenario.policy)
<1>0. pc[c] = "save"  BY Zenon DEF WriteFrame
<1>1. /\ c \in Procs /\ note \in [Procs -> Notes] /\ note[c] \in Notes /\ note[c].local[k] \in Note
      /\ work.local[k] \in [value : Nat, ts : Stamps] /\ ~(work.sync[k].w >= stamp[c])
      /\ work.local[k].value = 0 => work.local[k] = NoLocal
      /\ LocalTold(note[c].local[k], db.local[k].value, work.local[k].value)
  BY <1>0, WriterFacts, Zenon
<1>2. ~NotNewer(item, work.sync[k])  BY <1>1, Zenon DEF NotNewer
<1>3. sync \in Note /\ row \in Row /\ SyncTold(sync, db.sync[k], row) /\ (Live(row) => row.value # 0)
  BY <1>0, <1>2, RowNoted, Zenon
<1>4. work' = With(work, k, row, work.local[k])  BY Zenon DEF SaveEntry
<1>5. note' = [note EXCEPT ![c] = NotesWith(note[c], k, sync, note[c].local[k])]
  <2>1. note' = [note EXCEPT ![c] = SyncWith(note[c], k, sync)]  BY <1>1, Zenon DEF SaveEntry, SyncWith
  <2> HIDE DEF sync
  <2>2. note[c] \in Notes  BY <1>1, Zenon
  <2>3. SyncWith(note[c], k, sync) = NotesWith(note[c], k, sync, note[c].local[k])  BY <2>2, OneNote, Zenon
  <2>. QED  BY <2>1, <2>3, Zenon
<1> HIDE DEF row, sync
<1>6. Consistent(k, row, work.local[k], sync, note[c].local[k])  BY <1>1, <1>3, Zenon DEF Consistent
<1>. QED  BY <1>4, <1>5, <1>6, NotedWrite, Zenon

\* A local record changes, and its note with it.
LEMMA LocalChange ==
    ASSUME IInv, NInv, NEW c \in Conns, pc[c] = "save", NEW k \in Keys, NEW type, NEW value \in Nat, NEW after \in Nat,
           Changes(type, value, after)
    PROVE  LET local == LocalNote(note[c].local[k], k, type, value)
           IN local \in Note /\ LocalTold(local, db.local[k].value, after)
<1> DEFINE n == note[c].local[k]
           local == LocalNote(n, k, type, value)
           before == db.local[k].value
           now == work.local[k].value
           m == InsertCommittedData(InitKeyPropRecord(n, IF now # 0 THEN "EXIST" ELSE "NONE"), type, value)
<1>1. n \in Note /\ before \in Nat /\ now \in Nat /\ LocalTold(n, before, now)
  BY WriterFacts, Zenon
<1>2. local = m  BY Zenon DEF LocalNote
<1>3. m \in Note /\ LocalTold(m, before, after)
  <2> HIDE DEF n, before, now
  <2>. QED  BY <1>1, LocalNoted, Zenon
<1>. QED  BY <1>2, <1>3, Zenon

LEMMA NotedLocal ==
    ASSUME IInv, IInv', NInv, NEW c \in Conns, WriteFrame(c), NEW k \in Keys,
           NEW rec \in [value : Nat, ts : Stamps], rec.value = 0 => rec = NoLocal,
           NEW type, NEW value \in Nat, Changes(type, value, rec.value),
           work' = With(work, k, work.sync[k], rec),
           note' = [note EXCEPT ![c].local[k] = LocalNote(@, k, type, value)]
    PROVE  NInv'
<1> DEFINE local == LocalNote(note[c].local[k], k, type, value)
<1>0. pc[c] = "save"  BY Zenon DEF WriteFrame
<1>1. /\ c \in Procs /\ note \in [Procs -> Notes] /\ note[c] \in Notes
      /\ note[c].sync[k] \in Note /\ note[c].local[k] \in Note /\ work.sync[k] \in Row
      /\ work.local[k].value \in Nat /\ db.local[k].value \in Nat
      /\ Live(work.sync[k]) => work.sync[k].value # 0
      /\ SyncTold(note[c].sync[k], db.sync[k], work.sync[k])
      /\ LocalTold(note[c].local[k], db.local[k].value, work.local[k].value)
  BY <1>0, WriterFacts, Zenon
<1>2. rec.value \in Nat  BY Zenon
<1>3. local \in Note /\ LocalTold(local, db.local[k].value, rec.value)
  BY <1>0, <1>2, LocalChange, Zenon
<1>4. note' = [note EXCEPT ![c] = NotesWith(note[c], k, note[c].sync[k], local)]
  <2>1. note' = [note EXCEPT ![c] = LocalWith(note[c], k, local)]  BY <1>1, Zenon DEF LocalWith
  <2> HIDE DEF local
  <2>2. note[c] \in Notes  BY <1>1, Zenon
  <2>3. LocalWith(note[c], k, local) = NotesWith(note[c], k, note[c].sync[k], local)  BY <2>2, OneNote, Zenon
  <2>. QED  BY <2>1, <2>3, Zenon
<1> HIDE DEF local
<1>5. Consistent(k, work.sync[k], rec, note[c].sync[k], local)  BY <1>1, <1>3, Zenon DEF Consistent
<1>. QED  BY <1>4, <1>5, NotedWrite, Zenon

LEMMA NotedBatch ==
    ASSUME IInv, IInv', NInv, NEW c \in Conns, SaveBatchEntry(c)
    PROVE  NInv'
<1> DEFINE k == op[c].key
<1>0. k \in Keys /\ stamp[c] \in Nat  BY ConnFacts, Zenon
<1>1. WriteFrame(c)  BY Zenon DEF SaveBatchEntry, histVars, WriteFrame
<1>2. /\ \A v \in NewValues : v \in Nat /\ v # 0
      /\ work.local[k].value \in Nat
  BY <1>0, <1>1, WriterFacts, Zenon DEF WriteFrame
<1>3. CASE UNCHANGED <<work, note>>  BY <1>1, <1>3, NotedNothing, Zenon
<1>4. ASSUME NEW v \in NewValues, SaveEntry(c, k, Entry(c, "live", v, stamp[c])) PROVE NInv'
  <2> DEFINE item == Entry(c, "live", v, stamp[c])
  <2>1. /\ item \in Item /\ item.local /\ item.orig = Here /\ item.status = "live" /\ item.value = v /\ item.w = stamp[c]
    BY <1>0, <1>2, Zenon DEF Entry, Item, Stamps
  <2>2. SaveEntry(c, k, item)  BY <1>4, Zenon
  <2> HIDE DEF item, k
  <2>3. LocalItem(item)  BY <1>2, <2>1, Zenon DEF LocalItem
  <2>. QED  BY <1>0, <1>1, <2>1, <2>2, <2>3, NotedSaveEntry, Zenon
<1>5. CASE SaveEntry(c, k, Entry(c, "deleted", 0, stamp[c]))
  <2> DEFINE item == Entry(c, "deleted", 0, stamp[c])
  <2>1. /\ item \in Item /\ item.local /\ item.orig = Here /\ item.status = "deleted" /\ item.value = 0 /\ item.w = stamp[c]
    BY <1>0, Zenon DEF Entry, Item, Stamps
  <2>2. SaveEntry(c, k, item)  BY <1>5, Zenon
  <2> HIDE DEF item, k
  <2>3. LocalItem(item)  BY <2>1, Zenon DEF LocalItem
  <2>. QED  BY <1>0, <1>1, <2>1, <2>2, <2>3, NotedSaveEntry, Zenon
<1>6. ASSUME NEW v \in NewValues, PutLocal(c, k, v, stamp[c]) PROVE NInv'
  <2> DEFINE rec == [value |-> v, ts |-> stamp[c]]
             type == IF work.local[k].value # 0 THEN "UPDATE" ELSE "INSERT"
  <2>1. rec \in [value : Nat, ts : Stamps] /\ rec.value = v /\ rec.value # 0  BY <1>0, <1>2, Zenon DEF Stamps
  <2>2. /\ work' = With(work, k, work.sync[k], rec)
        /\ note' = [note EXCEPT ![c].local[k] = LocalNote(@, k, type, v)]
    BY <1>6, Zenon DEF PutLocal
  <2>3. type \in {"INSERT", "UPDATE"}  BY Zenon
  <2> HIDE DEF rec, k, type
  <2>4. Changes(type, v, rec.value)  BY <2>1, <2>3, Zenon DEF Changes
  <2>5. v \in Nat /\ (rec.value = 0 => rec = NoLocal)  BY <1>2, <2>1, Zenon
  <2>. QED  BY <1>0, <1>1, <2>1, <2>2, <2>4, <2>5, NotedLocal, Zenon
<1>7. CASE DeleteLocal(c, k) /\ work.local[k].value # 0
  <2>1. /\ work' = With(work, k, work.sync[k], NoLocal)
        /\ note' = [note EXCEPT ![c].local[k] = LocalNote(@, k, "DELETE", work.local[k].value)]
    BY <1>7, Zenon DEF DeleteLocal
  <2>2. NoLocal \in [value : Nat, ts : Stamps] /\ NoLocal.value = 0  BY NoLocalFacts, Zenon DEF NoLocal
  <2> HIDE DEF k
  <2>3. Changes("DELETE", work.local[k].value, NoLocal.value)  BY <2>2, Zenon DEF Changes
  <2>. QED  BY <1>0, <1>1, <1>2, <2>1, <2>2, <2>3, NotedLocal, Zenon
<1>8. CASE DeleteLocal(c, k) /\ work.local[k].value = 0
  <2>1. UNCHANGED <<work, note>>  BY <1>8, Zenon DEF DeleteLocal
  <2>. QED  BY <1>3, <2>1, Zenon
<1>. QED  BY <1>3, <1>4, <1>5, <1>6, <1>7, <1>8, BatchCases, Zenon

LEMMA NotedPublish ==
    ASSUME IInv, IInv', NInv, NEW c \in Conns, PublishLocal(c)
    PROVE  NInv'
<1> DEFINE o == op[c]  k == o.key  mine == work.local[k]  old == work.sync[k]
           w == IF Exists(old) /\ o.update THEN stamp[c] ELSE mine.ts
           item == Entry(c, "live", mine.value, w)
           row == SaveSyncDataItem(item, old, Here, TRUE, scenario.policy)
           rec == IF o.move THEN NoLocal ELSE mine
           sync == NoteOf(note[c].sync[k], item, old, Here, TRUE, scenario.policy)
           local == IF o.move THEN LocalNote(note[c].local[k], k, "DELETE", mine.value) ELSE note[c].local[k]
<1>0. k \in Keys /\ stamp[c] \in Nat /\ c \in Procs  BY ConnFacts, Zenon
<1>1. WriteFrame(c) /\ pc[c] = "save"  BY Zenon DEF PublishLocal, histVars, WriteFrame
<1>2. CASE UNCHANGED <<work, note>>  BY <1>1, <1>2, NotedNothing, Zenon
<1>3. CASE ~PublishRefused(o) /\ ~UNCHANGED <<work, note>>
  <2>1. /\ work' = With(work, k, row, rec)
        /\ note' = [note EXCEPT ![c].sync[k] = NoteOf(@, item, old, Here, TRUE, scenario.policy),
                                ![c].local[k] = IF o.move THEN LocalNote(@, k, "DELETE", mine.value) ELSE @]
    BY <1>3, Zenon DEF PublishLocal
  <2>2. /\ note \in [Procs -> Notes] /\ note[c] \in Notes /\ note[c].local[k] \in Note /\ old \in Row
        /\ mine \in [value : Nat, ts : Stamps] /\ mine.value \in Nat
        /\ mine.value = 0 => mine = NoLocal
        /\ LocalTold(note[c].local[k], db.local[k].value, mine.value)
        /\ ~(old.w >= stamp[c])
    BY <1>0, <1>1, WriterFacts, Zenon
  <2>3. mine.value # 0 /\ (Exists(old) => o.update \/ ~(mine.ts <= old.w))  BY <1>3, Zenon DEF PublishRefused
  <2>4. w \in Stamps /\ (Exists(old) => ~(old.w >= w))
    <3>1. mine.ts \in Nat /\ old.w \in Nat  BY <2>2, Zenon DEF Row, Stamps
    <3>2. Exists(old) /\ ~o.update => ~(old.w >= mine.ts)
      <4> HIDE DEF mine, old
      <4>. QED  BY <2>3, <3>1
    <3>3. CASE Exists(old) /\ o.update  BY <1>0, <2>2, <3>3, Zenon DEF Stamps
    <3>4. CASE ~(Exists(old) /\ o.update)  BY <3>1, <3>2, <3>4, Zenon DEF Stamps
    <3>. QED  BY <3>3, <3>4, Zenon
  <2>5. /\ item \in Item /\ item.local /\ item.orig = Here /\ item.status = "live" /\ item.value = mine.value /\ item.w = w
    <3> HIDE DEF w, mine
    <3>. QED  BY <1>0, <2>2, <2>4, Zenon DEF Entry, Item, Stamps
  <2>6. LocalItem(item) /\ ~NotNewer(item, old)
    <3> HIDE DEF item, old, w
    <3>. QED  BY <2>3, <2>4, <2>5, Zenon DEF LocalItem, NotNewer
  <2>7. sync \in Note /\ row \in Row /\ SyncTold(sync, db.sync[k], row) /\ (Live(row) => row.value # 0)
    <3> HIDE DEF item, k
    <3>. QED  BY <1>0, <1>1, <2>6, RowNoted, Zenon
  <2>8. /\ rec \in [value : Nat, ts : Stamps] /\ (rec.value = 0 => rec = NoLocal)
        /\ local \in Note /\ LocalTold(local, db.local[k].value, rec.value)
    <3>1. NoLocal \in [value : Nat, ts : Stamps] /\ NoLocal.value = 0 /\ 0 \in Nat  BY NoLocalFacts, Zenon DEF NoLocal
    <3>2. CASE o.move
      <4>1. rec = NoLocal /\ local = LocalNote(note[c].local[k], k, "DELETE", mine.value)  BY <3>2, Zenon
      <4>2. Changes("DELETE", mine.value, 0)  BY Zenon DEF Changes
      <4> DEFINE m == LocalNote(note[c].local[k], k, "DELETE", mine.value)
      <4>3. m \in Note /\ LocalTold(m, db.local[k].value, 0)
        <5> HIDE DEF mine, k
        <5>. QED  BY <1>0, <1>1, <2>2, <3>1, <4>2, LocalChange, Zenon
      <4>. QED  BY <3>1, <4>1, <4>3, Zenon
    <3>3. CASE ~o.move
      <4>1. rec = mine /\ local = note[c].local[k]  BY <3>3, Zenon
      <4>. QED  BY <2>2, <4>1, Zenon
    <3>. QED  BY <3>2, <3>3, ZenonT(30)
  <2>9. note' = [note EXCEPT ![c] = NotesWith(note[c], k, sync, local)]
    <3>1. note' = [note EXCEPT ![c] = SyncThenLocal(note[c], k, sync, local)]
      BY <1>0, <2>1, <2>2, ZenonT(30) DEF SyncThenLocal
    <3>2. note[c] \in Notes  BY <2>2, Zenon
    <3> HIDE DEF sync, local, k
    <3>3. SyncThenLocal(note[c], k, sync, local) = NotesWith(note[c], k, sync, local)
      BY <1>0, <3>2, BothNotes, Zenon
    <3>. QED  BY <3>1, <3>3, Zenon
  <2>10. work' = With(work, k, row, rec)  BY <2>1, Zenon
  <2> HIDE DEF row, rec, sync, local, k
  <2>11. Consistent(k, row, rec, sync, local)  BY <2>7, <2>8, Zenon DEF Consistent
  <2>. QED  BY <1>0, <1>1, <2>9, <2>10, <2>11, NotedWrite, Zenon
<1>4. PublishRefused(o) => UNCHANGED <<work, note>>  BY Zenon DEF PublishLocal
<1>. QED  BY <1>2, <1>3, <1>4, Zenon

LEMMA NotedUnpublish ==
    ASSUME IInv, IInv', NInv, NEW c \in Conns, UnpublishToLocal(c)
    PROVE  NInv'
<1> DEFINE o == op[c]  k == o.key  mine == work.local[k]  old == work.sync[k]
           ts == IF o.update THEN stamp[c] ELSE old.w
           item == Entry(c, "deleted", 0, stamp[c])
           rec == IF ~PublicWins(o) THEN mine
                  ELSE IF Live(old) THEN [value |-> old.value, ts |-> ts] ELSE NoLocal
           none == ~PublicWins(o) \/ (mine.value = 0 /\ ~Live(old))
           deletes == o.move /\ Live(old)
           row == IF deletes THEN SaveSyncDataItem(item, old, Here, TRUE, scenario.policy) ELSE old
           type == IF rec = NoLocal THEN "DELETE" ELSE IF mine.value = 0 THEN "INSERT" ELSE "UPDATE"
           value == IF rec = NoLocal THEN mine.value ELSE rec.value
           local == IF none THEN note[c].local[k] ELSE LocalNote(note[c].local[k], k, type, value)
           sync == IF deletes THEN NoteOf(note[c].sync[k], item, old, Here, TRUE, scenario.policy) ELSE note[c].sync[k]
<1>0. k \in Keys /\ stamp[c] \in Nat /\ c \in Procs  BY ConnFacts, Zenon
<1>1. WriteFrame(c) /\ pc[c] = "save"  BY Zenon DEF UnpublishToLocal, histVars, WriteFrame
<1>2. CASE UNCHANGED <<work, note>>  BY <1>1, <1>2, NotedNothing, Zenon
<1>3. CASE ~UNCHANGED <<work, note>>
  <2>1. /\ work' = With(work, k, row, rec)
        /\ note' = [note EXCEPT ![c].local[k] = IF none THEN @ ELSE LocalNote(@, k, type, value),
                                ![c].sync[k] = IF deletes THEN NoteOf(@, item, old, Here, TRUE, scenario.policy) ELSE @]
    BY <1>3, Zenon DEF UnpublishToLocal
  <2>2. /\ note \in [Procs -> Notes] /\ note[c] \in Notes /\ note[c].local[k] \in Note /\ note[c].sync[k] \in Note
        /\ old \in Row /\ mine \in [value : Nat, ts : Stamps] /\ mine.value \in Nat
        /\ mine.value = 0 => mine = NoLocal
        /\ Live(old) => old.value # 0
        /\ SyncTold(note[c].sync[k], db.sync[k], old)
        /\ LocalTold(note[c].local[k], db.local[k].value, mine.value)
        /\ ~(old.w >= stamp[c])
    BY <1>0, <1>1, WriterFacts, Zenon
  <2>3. row \in Row /\ sync \in Note /\ SyncTold(sync, db.sync[k], row) /\ (Live(row) => row.value # 0)
    <3>1. CASE deletes
      <4>1. /\ item \in Item /\ item.local /\ item.orig = Here /\ item.status = "deleted" /\ item.value = 0
            /\ item.w = stamp[c]
        BY <1>0, Zenon DEF Entry, Item, Stamps
      <4>2. LocalItem(item) /\ ~NotNewer(item, old)
        <5> HIDE DEF item, old
        <5>. QED  BY <2>2, <4>1, Zenon DEF LocalItem, NotNewer
      <4> DEFINE s == SaveSyncDataItem(item, old, Here, TRUE, scenario.policy)
                 m == NoteOf(note[c].sync[k], item, old, Here, TRUE, scenario.policy)
      <4>3. m \in Note /\ s \in Row /\ SyncTold(m, db.sync[k], s) /\ (Live(s) => s.value # 0)
        <5> HIDE DEF item, k
        <5>. QED  BY <1>0, <1>1, <4>2, RowNoted, Zenon
      <4>4. row = s /\ sync = m  BY <3>1, Zenon
      <4>. QED  BY <4>3, <4>4, Zenon
    <3>2. CASE ~deletes
      <4>1. row = old /\ sync = note[c].sync[k]  BY <3>2, Zenon
      <4>. QED  BY <2>2, <4>1, Zenon
    <3>. QED  BY <3>1, <3>2, Zenon
  <2>4. NoLocal \in [value : Nat, ts : Stamps] /\ NoLocal.value = 0 /\ 0 \in Nat  BY NoLocalFacts, Zenon DEF NoLocal
  <2>5. /\ rec \in [value : Nat, ts : Stamps] /\ (rec.value = 0 => rec = NoLocal)
    <3>1. ts \in Stamps /\ old.value \in Nat
      <4>1. old.w \in Stamps /\ old.value \in Nat  BY <2>2, Zenon DEF Row
      <4>. QED  BY <1>0, <4>1, Zenon DEF Stamps
    <3> HIDE DEF ts
    <3> DEFINE public == [value |-> old.value, ts |-> ts]
    <3>2. public \in [value : Nat, ts : Stamps] /\ public.value = old.value
      <4> HIDE DEF old
      <4>. QED  BY <3>1, Zenon
    <3>3. rec = mine \/ (rec = public /\ Live(old)) \/ rec = NoLocal  BY Zenon
    <3> HIDE DEF rec, public, mine, old
    <3>4. rec \in [value : Nat, ts : Stamps]  BY <2>2, <2>4, <3>2, <3>3, Zenon
    <3>5. rec.value = 0 => rec = NoLocal  BY <2>2, <2>4, <3>2, <3>3, Zenon
    <3>. QED  BY <3>4, <3>5, Zenon
  <2>6. local \in Note /\ LocalTold(local, db.local[k].value, rec.value)
    <3>1. CASE none
      <4>1. local = note[c].local[k]  BY <3>1, Zenon
      <4>2. rec = mine  BY <2>2, <3>1, Zenon
      <4>3. LocalTold(note[c].local[k], db.local[k].value, rec.value)
        <5> HIDE DEF rec
        <5>. QED  BY <2>2, <4>2, Zenon
      <4> HIDE DEF local, k
      <4>. QED  BY <2>2, <4>1, <4>3, Zenon
    <3>2. CASE ~none
      <4> HIDE DEF rec
      <4>1. local = LocalNote(note[c].local[k], k, type, value)  BY <3>2, Zenon
      <4>2. rec.value \in Nat /\ value \in Nat /\ Changes(type, value, rec.value)
        <5>1. rec.value \in Nat  BY <2>5, Zenon
        <5>2. CASE rec = NoLocal
          <6>1. type = "DELETE" /\ value = mine.value /\ rec.value = 0  BY <2>4, <5>2, Zenon
          <6>. QED  BY <2>2, <5>1, <6>1, Zenon DEF Changes
        <5>3. CASE rec # NoLocal
          <6>1. type \in {"INSERT", "UPDATE"} /\ value = rec.value  BY <5>3, Zenon
          <6>. QED  BY <5>1, <6>1, Zenon DEF Changes
        <5>. QED  BY <5>2, <5>3, Zenon
      <4> DEFINE m == LocalNote(note[c].local[k], k, type, value)
      <4>3. m \in Note /\ LocalTold(m, db.local[k].value, rec.value)
        <5> HIDE DEF type, value, k
        <5>. QED  BY <1>0, <1>1, <4>2, LocalChange, Zenon
      <4>. QED  BY <4>1, <4>3, Zenon
    <3>. QED  BY <3>1, <3>2, Zenon
  <2>7. note' = [note EXCEPT ![c] = NotesWith(note[c], k, sync, local)]
    <3> HIDE DEF rec, type, value, mine, item, old, none, deletes
    <3>1. note' = [note EXCEPT ![c] = LocalThenSync(note[c], k, sync, local)]
      BY <1>0, <2>1, <2>2, ZenonT(30) DEF LocalThenSync
    <3>2. note[c] \in Notes  BY <2>2, Zenon
    <3> HIDE DEF sync, local, k
    <3>3. LocalThenSync(note[c], k, sync, local) = NotesWith(note[c], k, sync, local)
      BY <1>0, <3>2, BothNotes, Zenon
    <3>. QED  BY <3>1, <3>3, Zenon
  <2>8. work' = With(work, k, row, rec)  BY <2>1, Zenon
  <2> HIDE DEF row, rec, sync, local, k
  <2>9. Consistent(k, row, rec, sync, local)  BY <2>3, <2>5, <2>6, Zenon DEF Consistent
  <2>. QED  BY <1>0, <1>1, <2>7, <2>8, <2>9, NotedWrite, Zenon
<1>. QED  BY <1>2, <1>3, Zenon

-----------------------------------------------------------------------------
LEMMA NInvNext == IInv /\ NInv /\ [Next]_vars => NInv'
<1> SUFFICES ASSUME IInv, NInv, [Next]_vars PROVE NInv'
  OBVIOUS
<1>0. IInv'  BY IInvNext, Zenon
<1>1. CASE UNCHANGED vars
  <2>1. UNCHANGED <<db, work, owner, pc, op, note, done>>  BY <1>1, Zenon DEF vars, storeVars
  <2>. QED  BY <2>1, Zenon DEF NInv, Sound, Told
<1>2. CASE \E c \in Conns : Connection(c)
  <2>1. PICK c \in Conns : Connection(c)  BY <1>2, Zenon
  <2>2. c \in Procs  BY Zenon DEF Procs
  <2>. QED  BY <1>0, <2>1, <2>2, NotedStart, NotedEntry, NotedBatch, NotedPublish, NotedUnpublish, NotedEnd, NotedNotify,
               Zenon DEF Connection
<1>3. CASE \E b \in Peers : Peer(b)
  <2>1. PICK b \in Peers : Peer(b)  BY <1>3, Zenon
  <2>2. b \in Procs  BY Zenon DEF Procs
  <2>. QED  BY <1>0, <2>1, <2>2, NotedPacket, NotedSave, NotedNotify, NotedRemove, Zenon DEF Peer
<1>. QED  BY <1>1, <1>2, <1>3, Zenon DEF Next

\* The notification data of a transaction tell what it amounts to, however often it changed
\* a key, and of a conflict the row that the store holds in the end, its value and whether
\* it is deleted; a row put back as it was, or erased by a "miss" item, is excepted
\* (InitKeyPropRecord, InsertCommittedData, PutConflictData, CommitInner, SaveSyncItems).
THEOREM ObserversToldTheorem == Spec => ObserversTold
<1> DEFINE Informed == \A p \in Procs, k \in Keys :
          pc[p] # "notify" /\ pc'[p] = "notify" /\ ~failed' =>
              /\ Tells(note'[p].sync[k], ValueOf(db.sync[k]), ValueOf(db'.sync[k]))
              /\ Tells(note'[p].local[k], db.local[k].value, db'.local[k].value)
              /\ note'[p].sync[k].conflict /\ Exists(db'.sync[k]) /\ ~PutBack(db.sync[k], db'.sync[k]) =>
                     note'[p].sync[k].new = Side(db'.sync[k])
<1>1. IInv /\ NInv /\ [Next]_vars => [Informed]_vars
  <2> SUFFICES ASSUME IInv, NInv, Next, NEW p \in Procs, NEW k \in Keys, pc[p] # "notify", pc'[p] = "notify", ~failed'
               PROVE  /\ Reports(note'[p].sync[k], db.sync[k], db'.sync[k])
                      /\ Tells(note'[p].local[k], db.local[k].value, db'.local[k].value)
    BY Zenon DEF Reports
  <2> USE Distinct
  <2>0. pc \in [Procs -> Places]  BY Zenon DEF IInv, Types
  <2>1. ASSUME NEW c \in Conns, CommitInner(c)
        PROVE  /\ Reports(note'[p].sync[k], db.sync[k], db'.sync[k])
               /\ Tells(note'[p].local[k], db.local[k].value, db'.local[k].value)
    <3>1. p = c
      <4>1. pc' = [pc EXCEPT ![c] = "notify"]  BY <2>1, Zenon DEF CommitInner
      <4>. QED  BY <2>0, <4>1, Zenon
    <3>2. db' = work /\ note' = note  BY <2>1, Zenon DEF CommitInner
    <3>3. owner = c  BY <2>1, Zenon DEF CommitInner, IInv, Handle, Holding
    <3>4. Told(note[c], work)  BY <3>3, Zenon DEF NInv
    <3>5. /\ SyncTold(note[c].sync[k], db.sync[k], work.sync[k])
          /\ LocalTold(note[c].local[k], db.local[k].value, work.local[k].value)
      BY <3>4, Zenon DEF Told
    <3>6. /\ Reports(note[c].sync[k], db.sync[k], work.sync[k])
          /\ Tells(note[c].local[k], db.local[k].value, work.local[k].value)
      BY <3>5, Zenon DEF SyncTold, LocalTold, Reports
    <3>. QED  BY <3>1, <3>2, <3>6, Zenon
  <2>2. ASSUME NEW b \in Peers, SaveSyncItems(b)
        PROVE  /\ Reports(note'[p].sync[k], db.sync[k], db'.sync[k])
               /\ Tells(note'[p].local[k], db.local[k].value, db'.local[k].value)
    <3>1. p = b
      <4>1. \E to \in {"notify", "idle"} : pc' = [pc EXCEPT ![b] = to]  BY <2>2, Zenon DEF SaveSyncItems
      <4>. QED  BY <2>0, <4>1, Zenon
    <3>. QED  BY <2>2, <3>1, PacketTold, Zenon
  <2>3. CASE \E c \in Conns : Connection(c)
    <3>1. PICK c \in Conns : Connection(c)  BY <2>3, Zenon
    <3>2. ~CommitInner(c) => \E to \in Places \ {"notify"} : pc' = [pc EXCEPT ![c] = to]
      <4>1. CASE StartTransaction(c) \/ StartAuto(c) \/ NextEntry(c) \/ StartPublish(c)
        BY <4>1, Zenon DEF StartTransaction, StartAuto, NextEntry, StartPublish, Goto, Places
      <4>2. CASE SaveBatchEntry(c)  BY <4>2, Zenon DEF SaveBatchEntry, Places
      <4>3. CASE PublishLocal(c) \/ UnpublishToLocal(c)  BY <4>3, Zenon DEF PublishLocal, UnpublishToLocal, Places
      <4>4. CASE RollbackInner(c) \/ CommitNotify(c)  BY <4>4, Zenon DEF RollbackInner, CommitNotify, Goto, Places
      <4>. QED  BY <3>1, <4>1, <4>2, <4>3, <4>4, Zenon DEF Connection
    <3>3. CommitInner(c)
      <4> SUFFICES ASSUME ~CommitInner(c) PROVE FALSE
        OBVIOUS
      <4>1. PICK to \in Places \ {"notify"} : pc' = [pc EXCEPT ![c] = to]  BY <3>2, Zenon
      <4>. QED  BY <2>0, <4>1, Zenon
    <3>. QED  BY <2>1, <3>3, Zenon
  <2>4. CASE \E b \in Peers : Peer(b)
    <3>1. PICK b \in Peers : Peer(b)  BY <2>4, Zenon
    <3>2. CASE Receive(b) \/ TransSendDataItemToLocal(b) \/ CommitNotify(b)
      <4>1. \E to \in {"trans", "save", "idle"} : pc' = [pc EXCEPT ![b] = to]
        BY <3>2, Zenon DEF Receive, TransSendDataItemToLocal, CommitNotify, Goto
      <4>. QED  BY <2>0, <4>1, Zenon
    <3>3. CASE RemoveDeviceData(b)  BY <3>3, Zenon DEF RemoveDeviceData
    <3>. QED  BY <2>2, <3>1, <3>2, <3>3, Zenon DEF Peer
  <2>. QED  BY <2>3, <2>4, Zenon DEF Next
<1>2. Spec => []NInv
  BY IInvInit, IInvNext, NInvInit, NInvNext, PTL DEF Spec
<1>. QED  BY <1>1, <1>2, StoreInvariant, PTL DEF Spec, ObserversTold
=============================================================================
