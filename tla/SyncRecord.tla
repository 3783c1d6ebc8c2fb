----------------------------- MODULE SyncRecord -----------------------------
(* A row of the table sync_data and what SaveSyncDataItem does to it: conflict
   resolution by write timestamp, and the notification data of a transaction
   (SingleVerNaturalStoreCommitNotifyData).  A key has one row, found by its hash.
   Definitions ending in "Mutant" are deliberately wrong variants of the
   definition they precede. *)
EXTENDS Integers

CONSTANT Here       \* the empty device name: this device

(* status: "none" (no row), "live", "deleted"; ts, w: timestamp, writeTimestamp;
   dev: the device the row came from; orig: the device that wrote the key first;
   local: LOCAL_FLAG.  An item to save has the same fields; its status may be
   "miss" (REMOTE_DEVICE_DATA_MISS_QUERY). *)
NoRow == [status |-> "none", value |-> 0, ts |-> 0, w |-> 0, dev |-> Here, orig |-> Here, local |-> FALSE]

Exists(row) == row.status # "none"
Live(row)   == row.status = "live"

\* What a reader of the key gets
ValueOf(row) == IF Live(row) THEN row.value ELSE 0

\* DENY_OTHER_DEV_AMEND_CUR_DEV_DATA
IsNeedIgnoredDataMutant(item, row, policy) == policy = "deny" /\ ~item.local /\ item.orig = Here
IsNeedIgnoredData(item, row, policy) ==
    /\ policy = "deny" /\ ~item.local
    /\ (Exists(row) /\ row.orig = Here) \/ item.orig = Here

\* JudgeSyncSaveType: the stored row is not older than the item.
NotNewer(item, row) == Exists(row) /\ row.w >= item.w

\* A device's later data replaces its earlier data, whatever its clock says.
IsForcedMutant(item, row, device, permit) == NotNewer(item, row) /\ device # Here /\ permit
IsForced(item, row, device, permit) == NotNewer(item, row) /\ device # Here /\ row.dev = device /\ permit

IsDefeated(item, row, device, permit) == NotNewer(item, row) /\ ~IsForced(item, row, device, permit)

Bumped(item, row) == [item EXCEPT !.w = row.w + 1, !.ts = row.ts]
Judged(item, row, device, permit) == IF IsForced(item, row, device, permit) THEN Bumped(item, row) ELSE item

GetOriginDevName(item, row) == IF item.local /\ item.orig = Here THEN row.orig ELSE item.orig

\* SaveSyncDataToDatabase: a row that does not match the query of the sync any more is erased.
SavedRow(item, row, device) ==
    IF item.status = "miss" THEN NoRow
    ELSE [status |-> item.status, value |-> IF item.status = "live" THEN item.value ELSE 0,
          ts |-> item.ts, w |-> item.w, dev |-> device, orig |-> GetOriginDevName(item, row), local |-> item.local]

\* RemoveDeviceData: the rows of device b that were not overwritten here
OfDevice(row, b) == row.dev = b /\ ~row.local

\* "Nonexistent data, but deleted by local"
DeletesNothing(item, row) == ~Live(row) /\ item.status = "deleted" /\ item.local

\* SaveSyncDataItem changes the table.
IsSaved(item, row, device, permit, policy) ==
    /\ ~IsNeedIgnoredData(item, row, policy)
    /\ ~DeletesNothing(item, row)
    /\ ~IsDefeated(item, row, device, permit)

SaveSyncDataItem(item, row, device, permit, policy) ==
    IF IsSaved(item, row, device, permit, policy)
    THEN SavedRow(Judged(item, row, device, permit), row, device) ELSE row

-----------------------------------------------------------------------------
(* Notification data of a transaction, for one key.  exist: existStatus, set once;
   type: latestType, the list the key's entry is in; value: of that entry; org:
   the row of orgDataItem_; old, new: the sides of the conflict entry, when
   conflict is set. *)
NoSide == [value |-> 0, deleted |-> FALSE]
NoNote == [exist |-> "unset", type |-> "NONE", value |-> 0, org |-> NoRow, conflict |-> FALSE, old |-> NoSide, new |-> NoSide]

InitKeyPropRecord(note, status) == IF note.exist = "unset" THEN [note EXCEPT !.exist = status] ELSE note

ExistStatus(row) == CASE row.status = "live" -> "EXIST" [] row.status = "deleted" -> "DELETED" [] OTHER -> "NONE"

\* The operation type that the changes of the key so far and this one amount to
MergedTypeMutant(exist, type) == type
MergedType(exist, type) ==
    IF exist = "EXIST" THEN IF type = "DELETE" THEN "DELETE" ELSE "UPDATE"
    ELSE IF type = "DELETE" THEN "NONE" ELSE "INSERT"

InsertCommittedData(note, type, value) ==
    LET merged == MergedType(note.exist, type)
    IN [note EXCEPT !.type = merged, !.value = IF merged = "NONE" THEN 0 ELSE value]

\* PutIntoCommittedData: a deletion is entered under the key of the row it deletes, if there is one.
PutIntoCommittedData(note, item, row) ==
    IF item.status = "live" THEN InsertCommittedData(note, IF Live(row) THEN "UPDATE" ELSE "INSERT", item.value)
    ELSE IF Live(row) THEN InsertCommittedData(note, "DELETE", row.value) ELSE note

\* PutConflictData, InsertConflictedItem and PutIntoConflictData, when a conflict notifier is registered.
Swaps(item, org) == item.w <= org.w

SameData(item, org, device) ==
    /\ item.value = org.value /\ item.orig = org.orig /\ item.local = org.local
    /\ item.status = org.status /\ device = org.dev

\* The row as it was before the transaction
InsertConflictedItem(note, row) == IF Exists(note.org) THEN note.org ELSE row

\* A side is marked deleted by DELETE_FLAG alone: that of a "miss" item is empty and not deleted.
Side(item) == [value |-> ValueOf(item), deleted |-> item.status = "deleted"]

PutConflictData(note, item, row, device) ==
    LET org == InsertConflictedItem(note, row)
    IN IF ~Exists(row) \/ (~Live(row) /\ item.status # "live") \/ note.exist = "NONE" THEN note
       ELSE IF SameData(item, org, device) THEN [note EXCEPT !.org = org]
       ELSE [note EXCEPT !.org = org, !.conflict = TRUE,
                         !.old = Side(IF Swaps(item, org) THEN item ELSE org),
                         !.new = Side(IF Swaps(item, org) THEN org ELSE item)]

\* What SaveSyncDataItem leaves in the notification data
NoteOf(note, item, row, device, permit, policy) ==
    LET judged   == Judged(item, row, device, permit)
        known    == InitKeyPropRecord(note, ExistStatus(row))
        conflict == PutConflictData(known, judged, row, device)
    IN IF IsNeedIgnoredData(item, row, policy) THEN note
       ELSE IF DeletesNothing(item, row) THEN known
       ELSE IF IsDefeated(item, row, device, permit) THEN conflict
       ELSE PutIntoCommittedData(conflict, judged, row)
=============================================================================
