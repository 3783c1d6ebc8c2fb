--------------------------- MODULE SingleVerStore ---------------------------
(* A single-version store of one device: connections that write in transactions
   (SQLiteSingleVerNaturalStoreConnection), threads that save packets of other
   devices (SQLiteSingleVerNaturalStore::SaveSyncDataToMain), RemoveDeviceData, the
   clock they stamp rows with (TimeHelper::GetTime) and the observers they notify.

   There is one write handle; who writes works on an image of the tables that
   becomes the database when it commits.  GetTime reads the clock and the last time
   in one step and raises the last time in another, as no lock spans the two.  The
   system clock may show anything at any time.  Definitions ending in "Mutant" are
   deliberately wrong variants of the definition they precede. *)
EXTENDS SyncRecord, FiniteSets

CONSTANTS
    Keys,
    Conns,          \* connections of the application, one thread each
    Peers,          \* other devices, one receiving thread each
    ClockSteps,     \* bound: how far ahead of the last time the clock may be
    PeerStamps,     \* bound: the stamps of received items, in time of this device
    Scenarios       \* what a run may do: see StoreAssumption

Procs == Conns \union Peers
Batch == {"put", "delete", "putLocal", "deleteLocal"}
Kinds == Batch \union {"publish", "unpublish"}

ASSUME StoreAssumption ==
    /\ Here \notin Procs /\ Conns \intersect Peers = {} /\ Keys # {}
    /\ ClockSteps \subseteq Int /\ PeerStamps \subseteq Nat
    /\ \A s \in Scenarios :
          /\ s.kinds \subseteq Kinds
          /\ s.keys \subseteq Keys   \* bound: the keys that are written
          /\ s.writes \in Nat      \* bound: operations of all connections
          /\ s.packets \in Nat     \* bound: packets of all peers
          /\ s.removes \in Nat     \* bound: calls of RemoveDeviceData
          /\ s.policy \in {"lastWin", "deny"}
          /\ s.permit \in BOOLEAN  \* force write: not in dual tuple mode
          /\ s.faults \subseteq {"save", "commit"}

VARIABLES
    scenario,
    db,         \* the committed tables: [sync, local]
    work,       \* the tables as the holder of the write handle sees them, db when it is free
    owner,      \* who holds the write handle, Here when it is free
    pc, op,     \* place and current operation of each thread
    explicit,   \* explicit[c]: transactionExeFlag_, set by StartTransaction
    stamp,      \* stamp[p]: the time GetTime gave to p for its operation, 0 when it has none
    last,       \* lastLocalTime_ of Metadata
    note,       \* note[p]: notification data of the transaction of p, by table
    failed,     \* history: a commit failed
    saved,      \* history: saved[b]: the time of the last packet of b that was saved
    done        \* number of operations, packets, removals so far

storeVars == <<db, work, owner>>
timeVars  == <<stamp, last>>
histVars  == <<failed, saved>>
vars == <<scenario, storeVars, pc, op, explicit, timeVars, note, histVars, done>>

NoLocal   == [value |-> 0, ts |-> 0]
NoOp      == [kind |-> "put", key |-> CHOOSE k \in Keys : TRUE, item |-> NoRow, move |-> FALSE, update |-> FALSE,
              ask |-> FALSE, auto |-> FALSE]
EmptyNote == [sync |-> [k \in Keys |-> NoNote], local |-> [k \in Keys |-> NoNote]]

Init ==
    /\ scenario \in Scenarios
    /\ db = [sync |-> [k \in Keys |-> NoRow], local |-> [k \in Keys |-> NoLocal]]
    /\ work = db  /\ owner = Here
    /\ pc = [p \in Procs |-> "idle"]  /\ op = [p \in Procs |-> NoOp]
    /\ explicit = [c \in Conns |-> FALSE]
    /\ stamp = [p \in Procs |-> 0]  /\ last = 1
    /\ note = [p \in Procs |-> EmptyNote]
    /\ failed = FALSE
    /\ saved = [b \in Peers |-> 0]
    /\ done = [writes |-> 0, packets |-> 0, removes |-> 0]

\* The tables t with this row and this local record of key k
With(t, k, row, rec) == [sync |-> [t.sync EXCEPT ![k] = row], local |-> [t.local EXCEPT ![k] = rec]]

Goto(p, from, to) == pc[p] = from /\ pc' = [pc EXCEPT ![p] = to]

-----------------------------------------------------------------------------
(* TimeHelper::GetTime. *)
ReadTimeMutant(p) == \E step \in ClockSteps :
    stamp' = [stamp EXCEPT ![p] = IF step <= 0 THEN last ELSE last + step]
ReadTime(p) == \E step \in ClockSteps :
    stamp' = [stamp EXCEPT ![p] = IF step <= 0 THEN last + 1 ELSE last + step]

\* SetLastLocalTime
SetLast(t) == IF t > last THEN t ELSE last

\* The operation of p is over.
EndOp(p) ==
    /\ op' = [op EXCEPT ![p] = NoOp]
    /\ stamp' = [stamp EXCEPT ![p] = 0]

-----------------------------------------------------------------------------
(* Connections.  StartTransactionInner: the write handle is free. *)
StartTransactionInner(c) ==
    /\ owner = Here /\ owner' = c
    /\ note' = [note EXCEPT ![c] = EmptyNote]

StartTransaction(c) ==
    /\ Goto(c, "idle", "open")
    /\ StartTransactionInner(c)
    /\ explicit' = [explicit EXCEPT ![c] = TRUE]
    /\ UNCHANGED <<scenario, db, work, op, timeVars, histVars, done>>

\* PutBatch, DeleteBatch outside a transaction
StartAuto(c) ==
    /\ Goto(c, "idle", "batch")
    /\ StartTransactionInner(c)
    /\ UNCHANGED <<scenario, db, work, op, explicit, timeVars, histVars, done>>

\* The next entry of a batch: SaveEntry asks for the time.
NextEntry(c) ==
    /\ pc[c] \in {"open", "batch"}
    /\ done.writes < scenario.writes
    /\ \E kind \in scenario.kinds \intersect Batch, k \in scenario.keys :
          op' = [op EXCEPT ![c] = [NoOp EXCEPT !.kind = kind, !.key = k, !.auto = (pc[c] = "batch")]]
    /\ ReadTime(c)
    /\ pc' = [pc EXCEPT ![c] = "save"]
    /\ done' = [done EXCEPT !.writes = @ + 1]
    /\ UNCHANGED <<scenario, storeVars, explicit, last, note, histVars>>

\* The item that SaveEntry builds
Entry(c, status, value, w) ==
    [status |-> status, value |-> value, ts |-> stamp[c], w |-> w, dev |-> Here, orig |-> Here, local |-> TRUE]

SaveEntry(c, k, item) ==
    /\ work' = With(work, k, SaveSyncDataItem(item, work.sync[k], Here, TRUE, scenario.policy), work.local[k])
    /\ note' = [note EXCEPT ![c].sync[k] = NoteOf(@, item, work.sync[k], Here, TRUE, scenario.policy)]

\* SaveLocalItem: PutKvData, DeleteLocalKvData
LocalNote(n, k, type, value) ==
    InsertCommittedData(InitKeyPropRecord(n, IF work.local[k].value # 0 THEN "EXIST" ELSE "NONE"), type, value)

PutLocal(c, k, value, ts) ==
    /\ work' = With(work, k, work.sync[k], [value |-> value, ts |-> ts])
    /\ note' = [note EXCEPT ![c].local[k] = LocalNote(@, k, IF work.local[k].value # 0 THEN "UPDATE" ELSE "INSERT", value)]

DeleteLocal(c, k) ==
    IF work.local[k].value = 0 THEN UNCHANGED <<work, note>>
    ELSE /\ work' = With(work, k, work.sync[k], NoLocal)
         /\ note' = [note EXCEPT ![c].local[k] = LocalNote(@, k, "DELETE", work.local[k].value)]

\* Bound: the number of the operation, or of the first one, whose value is written again
NewValues == {1, done.writes}

\* An entry of a batch.  An error (a value against the schema) ends the batch where it is.
SaveBatchEntry(c) ==
    LET k == op[c].key IN
    /\ pc[c] = "save" /\ op[c].kind \in Batch
    /\ \/ /\ CASE op[c].kind = "put"         -> \E v \in NewValues : SaveEntry(c, k, Entry(c, "live", v, stamp[c]))
               [] op[c].kind = "delete"      -> SaveEntry(c, k, Entry(c, "deleted", 0, stamp[c]))
               [] op[c].kind = "putLocal"    -> \E v \in NewValues : PutLocal(c, k, v, stamp[c])
               [] op[c].kind = "deleteLocal" -> DeleteLocal(c, k)
          /\ pc' = [pc EXCEPT ![c] = IF op[c].auto THEN "batch" ELSE "open"]
       \/ /\ "save" \in scenario.faults
          /\ pc' = [pc EXCEPT ![c] = IF op[c].auto THEN "rollback" ELSE "open"]
          /\ UNCHANGED <<work, note>>
    /\ last' = SetLast(stamp[c]) /\ EndOp(c)
    /\ UNCHANGED <<scenario, db, owner, explicit, histVars, done>>

\* PublishLocal, UnpublishToLocal: not in a transaction
StartPublish(c) ==
    /\ Goto(c, "idle", "save") /\ ~explicit[c]
    /\ done.writes < scenario.writes
    /\ StartTransactionInner(c)
    /\ \E kind \in scenario.kinds \ Batch, k \in scenario.keys, move, update, ask \in BOOLEAN :
          /\ ask => kind = "publish"
          /\ op' = [op EXCEPT ![c] = [NoOp EXCEPT !.kind = kind, !.key = k, !.move = move, !.update = update,
                                                !.ask = ask]]
    /\ ReadTime(c)
    /\ done' = [done EXCEPT !.writes = @ + 1]
    /\ UNCHANGED <<scenario, db, work, explicit, last, histVars>>

\* PublishInner finds nothing to publish, newer public data, or a conflict it has to ask about.
PublishRefused(o) ==
    LET mine == work.local[o.key]  row == work.sync[o.key]
    IN \/ mine.value = 0
       \/ Exists(row) /\ (o.ask \/ (~o.update /\ mine.ts <= row.w))

PublishLocal(c) ==
    LET o == op[c]  k == o.key  mine == work.local[k]  row == work.sync[k]
        w == IF Exists(row) /\ o.update THEN stamp[c] ELSE mine.ts
        item == Entry(c, "live", mine.value, w) IN
    /\ pc[c] = "save" /\ o.kind = "publish"
    /\ \/ /\ PublishRefused(o) \/ "save" \in scenario.faults
          /\ pc' = [pc EXCEPT ![c] = "rollback"] /\ UNCHANGED <<work, note>>
       \/ /\ ~PublishRefused(o)
          /\ pc' = [pc EXCEPT ![c] = "commit"]
          /\ work' = With(work, k, SaveSyncDataItem(item, row, Here, TRUE, scenario.policy),
                          IF o.move THEN NoLocal ELSE mine)
          /\ note' = [note EXCEPT ![c].sync[k] = NoteOf(@, item, row, Here, TRUE, scenario.policy),
                                  ![c].local[k] = IF o.move THEN LocalNote(@, k, "DELETE", mine.value) ELSE @]
    /\ last' = SetLast(stamp[c]) /\ EndOp(c)
    /\ UNCHANGED <<scenario, db, owner, explicit, histVars, done>>

\* UnpublishInner: the public row wins over the local record, or there is none.
PublicWins(o) == LET mine == work.local[o.key]
                 IN mine.value = 0 \/ o.update \/ mine.ts <= work.sync[o.key].w

UnpublishToLocal(c) ==
    LET o == op[c]  k == o.key  mine == work.local[k]  row == work.sync[k]
        ts == IF o.update THEN stamp[c] ELSE row.w
        deletion == Entry(c, "deleted", 0, stamp[c])
        none == ~PublicWins(o) \/ (mine.value = 0 /\ ~Live(row))    \* LOCAL_OPR_NONE
        deletes == o.move /\ Live(row)
        kept == IF ~PublicWins(o) THEN mine
                ELSE IF Live(row) THEN [value |-> row.value, ts |-> ts] ELSE NoLocal IN
    /\ pc[c] = "save" /\ o.kind = "unpublish"
    /\ \/ /\ ~Exists(row) \/ "save" \in scenario.faults
          /\ pc' = [pc EXCEPT ![c] = "rollback"] /\ UNCHANGED <<work, note>>
       \/ /\ Exists(row)
          /\ pc' = [pc EXCEPT ![c] = "commit"]
          /\ work' = With(work, k,
                          IF deletes THEN SaveSyncDataItem(deletion, row, Here, TRUE, scenario.policy) ELSE row, kept)
          /\ note' = [note EXCEPT
                 ![c].local[k] = IF none THEN @
                                 ELSE LocalNote(@, k, IF kept = NoLocal THEN "DELETE"
                                                      ELSE IF mine.value = 0 THEN "INSERT" ELSE "UPDATE",
                                                IF kept = NoLocal THEN mine.value ELSE kept.value),
                 ![c].sync[k]  = IF deletes THEN NoteOf(@, deletion, row, Here, TRUE, scenario.policy) ELSE @]
    /\ last' = SetLast(stamp[c]) /\ EndOp(c)
    /\ UNCHANGED <<scenario, db, owner, explicit, histVars, done>>

\* CommitInner releases the write handle, then tells the observers, even if the commit
\* failed; Commit leaves transactionExeFlag_ set then.
CommitInner(c) ==
    /\ pc[c] \in {"open", "batch", "commit"}
    /\ pc' = [pc EXCEPT ![c] = "notify"]
    /\ \/ /\ db' = work /\ UNCHANGED failed
          /\ explicit' = [explicit EXCEPT ![c] = @ /\ pc[c] # "open"]
       \/ "commit" \in scenario.faults /\ failed' = TRUE /\ UNCHANGED <<db, explicit>>
    /\ owner' = Here /\ work' = db'
    /\ UNCHANGED <<scenario, op, timeVars, note, saved, done>>

RollbackInner(c) ==
    /\ pc[c] \in {"open", "rollback"}
    /\ pc' = [pc EXCEPT ![c] = "idle"]
    /\ owner' = Here /\ work' = db
    /\ explicit' = [explicit EXCEPT ![c] = @ /\ pc[c] # "open"]
    /\ note' = [note EXCEPT ![c] = EmptyNote]
    /\ UNCHANGED <<scenario, db, op, timeVars, histVars, done>>

\* CommitAndReleaseNotifyData
CommitNotify(p) ==
    /\ Goto(p, "notify", "idle")
    /\ note' = [note EXCEPT ![p] = EmptyNote]
    /\ UNCHANGED <<scenario, storeVars, op, explicit, timeVars, histVars, done>>

-----------------------------------------------------------------------------
(* SingleVerDataSync::SaveData of a packet of device b: the items are brought to
   the time of this device, not beyond its present time. *)
PacketItem(b, status, w, orig) ==
    [status |-> status, value |-> IF status = "live" THEN 100 + done.packets ELSE 0, ts |-> w, w |-> w, dev |-> b,
     orig |-> orig, local |-> FALSE]

Receive(b) ==
    /\ Goto(b, "idle", "trans")
    /\ done.packets < scenario.packets
    /\ done' = [done EXCEPT !.packets = @ + 1]
    /\ \E k \in scenario.keys, status \in {"live", "deleted", "miss"}, w \in PeerStamps, orig \in {Here, b} :
          op' = [op EXCEPT ![b] = [NoOp EXCEPT !.key = k, !.item = PacketItem(b, status, w, orig)]]
    /\ ReadTime(b)
    /\ UNCHANGED <<scenario, storeVars, explicit, last, note, histVars>>

NotBeyondMutant(t, now) == t
NotBeyond(t, now) == IF t > now THEN now ELSE t
InPast(item, now) == [item EXCEPT !.ts = NotBeyond(item.ts, now), !.w = NotBeyond(item.w, now)]

TransSendDataItemToLocal(b) ==
    /\ Goto(b, "trans", "save")
    /\ op' = [op EXCEPT ![b].item = InPast(op[b].item, stamp[b])]
    /\ last' = SetLast(stamp[b])
    /\ UNCHANGED <<scenario, storeVars, explicit, stamp, note, histVars, done>>

SaveSyncItems(b) ==
    LET k == op[b].key  item == op[b].item  row == db.sync[op[b].key] IN
    /\ pc[b] = "save" /\ owner = Here
    /\ \/ /\ pc' = [pc EXCEPT ![b] = "notify"]
          /\ db' = With(db, k, SaveSyncDataItem(item, row, b, scenario.permit, scenario.policy), db.local[k])
          /\ note' = [note EXCEPT ![b].sync[k] = NoteOf(@, item, row, b, scenario.permit, scenario.policy)]
          /\ saved' = [saved EXCEPT ![b] = stamp[b]]
       \/ /\ "save" \in scenario.faults
          /\ pc' = [pc EXCEPT ![b] = "idle"]
          /\ UNCHANGED <<db, note, saved>>
    /\ work' = db'
    /\ EndOp(b)
    /\ UNCHANGED <<scenario, owner, explicit, last, failed, done>>

\* RemoveDeviceDataNormally tells the observers before it releases the write handle.
RemoveDeviceData(b) ==
    /\ owner = Here
    /\ done.removes < scenario.removes
    /\ done' = [done EXCEPT !.removes = @ + 1]
    /\ db' = [sync |-> [k \in Keys |-> IF OfDevice(db.sync[k], b) THEN NoRow ELSE db.sync[k]], local |-> db.local]
    /\ work' = db'
    /\ UNCHANGED <<scenario, owner, pc, op, explicit, timeVars, note, histVars>>

-----------------------------------------------------------------------------
Connection(c) ==
    \/ StartTransaction(c) \/ StartAuto(c) \/ NextEntry(c) \/ SaveBatchEntry(c) \/ StartPublish(c)
    \/ PublishLocal(c) \/ UnpublishToLocal(c) \/ CommitInner(c) \/ RollbackInner(c) \/ CommitNotify(c)

Peer(b) == Receive(b) \/ TransSendDataItemToLocal(b) \/ SaveSyncItems(b) \/ CommitNotify(b) \/ RemoveDeviceData(b)

Next == (\E c \in Conns : Connection(c)) \/ (\E b \in Peers : Peer(b))

Spec == Init /\ [][Next]_vars

-----------------------------------------------------------------------------
(* Properties. *)
Stamps == Nat
Row == [status : {"none", "live", "deleted"}, value : Nat, ts : Stamps, w : Stamps, dev : Peers \union {Here},
        orig : Peers \union {Here}, local : BOOLEAN]
Item == [status : {"none", "live", "deleted", "miss"}, value : Nat, ts : Stamps, w : Stamps,
         dev : Peers \union {Here}, orig : Peers \union {Here}, local : BOOLEAN]
Database == [sync : [Keys -> Row], local : [Keys -> [value : Nat, ts : Stamps]]]
Sides == [value : Nat, deleted : BOOLEAN]
Note == [exist : {"unset", "NONE", "DELETED", "EXIST"}, type : {"NONE", "INSERT", "UPDATE", "DELETE"}, value : Nat,
         org : Row, conflict : BOOLEAN, old : Sides, new : Sides]

(* Every variable has its type, the write handle is held by the connection that
   is in a transaction, and who holds no handle has no image of its own. *)
TypeOK ==
    /\ scenario \in Scenarios
    /\ db \in Database /\ work \in Database
    /\ owner \in Conns \union {Here}
    /\ pc \in [Procs -> {"idle", "open", "batch", "trans", "save", "commit", "rollback", "notify"}]
    /\ op \in [Procs -> [kind : Kinds, key : Keys, item : Item, move : BOOLEAN, update : BOOLEAN, ask : BOOLEAN,
                      auto : BOOLEAN]]
    /\ explicit \in [Conns -> BOOLEAN]
    /\ stamp \in [Procs -> Stamps] /\ last \in Stamps
    /\ note \in [Procs -> [sync : [Keys -> Note], local : [Keys -> Note]]]
    /\ failed \in BOOLEAN
    /\ saved \in [Peers -> Stamps]
    /\ done \in [writes : Nat, packets : Nat, removes : Nat]
    /\ \A c \in Conns : owner = c <=> pc[c] \in {"open", "batch", "save", "commit", "rollback"}
    /\ owner = Here => work = db

(* A Put or Delete that returns E_OK has taken effect.  SaveSyncDataItem drops a
   write whose timestamp is not later than the stored one without an error, so the
   time a connection got from GetTime has to be later than the write timestamp of
   every row, received ones included, however peers' clocks are off and however
   often the same packet comes and is written by force with its timestamp raised. *)
LocalWriteWins ==
    \A c \in Conns : pc[c] = "save" =>
        \A k \in Keys : ~IsDefeated(Entry(c, "live", 1, stamp[c]), work.sync[k], Here, TRUE)

(* Rows written here become visible to the sync in the order of their
   timestamps: what GetSyncData has not seen yet is later than anything it has seen,
   so the water mark, which is the latest timestamp sent, never passes a
   transaction that was open when the data was read. *)
CommitsInStampOrder ==
    [][\A j, k \in Keys :
          db'.sync[k] # db.sync[k] /\ db'.sync[k].local /\ db.sync[j].local => db'.sync[k].ts > db.sync[j].ts]_vars

(* Observers are told what a transaction amounts to: a key under "inserted" was
   not in the table before the commit and is after it, one under "updated" was and
   is, with the value told, one under "deleted" was and is not, and a key of which
   nothing is told has the value it had, however often the transaction changed it
   back and forth.  A reported conflict names as new the row the store holds after
   the commit, its value and whether it is deleted, whichever side won and whatever
   the transaction did to the key before.  Two cases are excepted.  When the
   transaction put the row back as it was, PutIntoConflictData ("same data no need to
   put") leaves the conflict that an earlier step reported.  When a "miss" item of a
   query sync erased the row, the store holds none, and PutIntoConflictData, which
   looks at DELETE_FLAG only, names an empty value that is not marked deleted. *)
Tells(n, before, after) ==
    CASE n.type = "INSERT" -> before = 0 /\ after = n.value
      [] n.type = "UPDATE" -> before # 0 /\ after = n.value
      [] n.type = "DELETE" -> before # 0 /\ after = 0
      [] OTHER -> before = after

PutBack(before, after) == SameData(after, before, after.dev)

ObserversTold ==
    [][\A p \in Procs, k \in Keys :
          pc[p] # "notify" /\ pc'[p] = "notify" /\ ~failed' =>
              /\ Tells(note'[p].sync[k], ValueOf(db.sync[k]), ValueOf(db'.sync[k]))
              /\ Tells(note'[p].local[k], db.local[k].value, db'.local[k].value)
              /\ note'[p].sync[k].conflict /\ Exists(db'.sync[k]) /\ ~PutBack(db.sync[k], db'.sync[k]) =>
                     note'[p].sync[k].new = Side(db'.sync[k])]_vars

(* With DENY_OTHER_DEV_AMEND_CUR_DEV_DATA a row that originates here is changed by
   connections only: neither by a packet nor by RemoveDeviceData. *)
OwnDataKept ==
    [][\A k \in Keys :
          scenario.policy = "deny" /\ Exists(db.sync[k]) /\ db.sync[k].orig = Here /\ db'.sync[k] # db.sync[k] =>
              owner \in Conns]_vars
=============================================================================
