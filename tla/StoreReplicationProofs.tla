----------------------- MODULE StoreReplicationProofs -----------------------
(* For every number of devices and keys: the stores implement LastWriterWins, and
   agree when everything is synced.

   The inductive invariant: a row's write timestamp is less than Gap above the time
   it was written, and times of versions are Gap apart, so comparing write timestamps
   is comparing versions; a packet is not older than what its receiver already has
   of its sender, so writing by force never goes back; and the latest version of a key
   is in its writer's table, in every packet that spans its time, and on every device
   whose peer water mark is past it. *)
EXTENDS StoreReplication, TLAPS

Rec(k, ver, by, value) == [key |-> k, version |-> [ver |-> ver, by |-> by, value |-> value]]

\* Versions have times of their own.
Spaced ==
    /\ \A r \in written : r.version.ver >= 1 /\ r.version.ver <= now /\ r.version.by \in Devices
    /\ \A q, r \in written : q = r \/ q.version.ver + Gap <= r.version.ver \/ r.version.ver + Gap <= q.version.ver

WriterOf(d, row) == IF row.dev = Here THEN d ELSE row.dev

\* A row is a version, with a write timestamp that is raised by less than Gap.
RowOK(d, k, row, v) ==
    /\ ~Exists(row) => row = NoRow /\ v = 0
    /\ Exists(row) => /\ Rec(k, v, WriterOf(d, row), ValueOf(row)) \in written
                      /\ v <= row.w /\ row.w < v + Gap
                      /\ row.dev # d
                      /\ row.local <=> row.dev = Here
                      /\ row.local => row.w = v /\ row.ts = v
Rows == \A d \in Devices, k \in Keys : RowOK(d, k, rows[d][k], base[d][k])

\* The latest version of a key is in the table of its writer, and so is the latest a device wrote.
Latest ==
    /\ \A k \in Keys, r \in written : r.key = k => r.version.ver <= top[k].ver
    /\ \A k \in Keys : top[k] # NoVersion =>
          /\ [key |-> k, version |-> top[k]] \in written
          /\ rows[top[k].by][k].local /\ base[top[k].by][k] = top[k].ver
    /\ \A s \in Devices, k \in Keys, r \in written :
          rows[s][k].local /\ r.key = k /\ r.version.by = s => r.version.ver <= base[s][k]

ItemOK(s, d, k, item) == Exists(item) =>
    /\ Rec(k, item.w, s, ValueOf(item)) \in written
    /\ ~item.local /\ item.status # "miss"
    /\ rows[d][k].dev = s => base[d][k] <= item.w

PacketOK(s, d, p) ==
    /\ p.end <= now
    /\ \A k \in Keys :
          /\ ItemOK(s, d, k, p.rows[k])
          /\ top[k].by = s /\ p.mark <= top[k].ver /\ top[k].ver <= p.end =>
                Exists(p.rows[k]) /\ p.rows[k].w = top[k].ver
PacketsOK == \A s, d \in Devices : s # d => PacketOK(s, d, packet[s][d])

\* Who has a peer water mark past the latest version has it.
Delivered ==
    /\ \A d, s \in Devices : peer[d][s] <= now + 1
    /\ ~overtaken => \A k \in Keys, d \in Devices :
          top[k] # NoVersion /\ d # top[k].by /\ top[k].ver < peer[d][top[k].by] => base[d][k] = top[k].ver

\* The water mark of a device whose data is about to be removed stays erased.
Erased == ~overtaken => \A d \in Devices : removing[d] # Here => peer[d][removing[d]] = 0

IInv == TypeOK /\ Spaced /\ Rows /\ Latest /\ PacketsOK /\ Delivered /\ Erased

-----------------------------------------------------------------------------
(* What is written to a row. *)

LEMMA Constants == Here \notin Devices /\ Gap \in Nat /\ Gap >= 1
  BY ReplicationAssumption DEF ReplicationAssumption

SavedEntry(status, t, row) == SaveSyncDataItem(Entry(status, t), row, Here, TRUE, "lastWin")

\* An entry of a transaction replaces an older row.
LEMMA EntrySaved ==
    ASSUME NEW status \in {"live", "deleted"}, NEW t \in Nat, NEW row \in Row,
           ~(Exists(row) /\ row.w >= t), status = "deleted" => Live(row)
    PROVE  LET new == SavedEntry(status, t, row)
           IN new \in Row /\ Exists(new) /\ new.dev = Here /\ new.local /\ new.w = t /\ new.ts = t
              /\ ValueOf(new) \in 0..t
<1> DEFINE item == Entry(status, t)  new == SaveSyncDataItem(item, row, Here, TRUE, "lastWin")
<1>1. item.status = status /\ item.w = t /\ item.ts = t /\ item.dev = Here /\ item.orig = Here /\ item.local /\ item.value \in 0..t
  BY DEF Entry
<1> HIDE DEF item
<1>2. ~NotNewer(item, row)  BY <1>1, Zenon DEF NotNewer
<1>3. ~IsNeedIgnoredData(item, row, "lastWin")  BY Zenon DEF IsNeedIgnoredData
<1>4. ~DeletesNothing(item, row)  BY <1>1, Zenon DEF DeletesNothing
<1>5. IsSaved(item, row, Here, TRUE, "lastWin") /\ Judged(item, row, Here, TRUE) = item
  BY <1>2, <1>3, <1>4, Zenon DEF IsSaved, IsDefeated, Judged, IsForced
<1>6. new = SavedRow(item, row, Here)  BY <1>5, Zenon DEF SaveSyncDataItem
<1> HIDE DEF new
<1>7. new = [status |-> status, value |-> IF status = "live" THEN item.value ELSE 0, ts |-> t, w |-> t, dev |-> Here,
             orig |-> GetOriginDevName(item, row), local |-> item.local]
  BY <1>1, <1>6, Zenon DEF SavedRow
<1>8. GetOriginDevName(item, row) \in Devices \union {Here}  BY <1>1, Zenon DEF GetOriginDevName, Row
<1>9. item.local \in BOOLEAN  BY Zenon DEF item, Entry
<1>10. new \in Row  BY <1>1, <1>7, <1>8, <1>9 DEF Row, Stamps
<1>11. Exists(new) /\ new.dev = Here /\ new.local /\ new.w = t /\ new.ts = t  BY <1>1, <1>7, Zenon DEF Exists
<1>12. ValueOf(new) \in 0..t  BY <1>1, <1>7 DEF ValueOf, Live
<1>. QED  BY <1>10, <1>11, <1>12, Zenon DEF item, new, SavedEntry

\* What SaveSyncDataItem leaves: an older row is replaced, a row of the same device is
\* written by force, or the row stays.
SavedAs(item, row, s, new) ==
    \/ /\ ~IsItemSaved(item, row, s) /\ new = row /\ Exists(row) /\ row.w >= item.w
    \/ /\ IsItemSaved(item, row, s)
       /\ new \in Row /\ Exists(new) /\ new.dev = s /\ ~new.local /\ ValueOf(new) = ValueOf(item)
       /\ \/ new.w = item.w /\ ~(Exists(row) /\ row.w >= item.w)
          \/ IsForced(item, row, s, TRUE) /\ Exists(row) /\ row.dev = s /\ row.w >= item.w /\ new.w = row.w + 1

\* A received item is saved as SavedAs says.
LEMMA ItemSaved ==
    ASSUME NEW item \in Row, Exists(item), ~item.local, NEW row \in Row, NEW s \in Devices
    PROVE  SavedAs(item, row, s, SaveItem(item, row, s))
<1> DEFINE j == Judged(item, row, s, TRUE)  new == SaveItem(item, row, s)
<1>1. ~IsNeedIgnoredData(item, row, "lastWin") /\ ~DeletesNothing(item, row)
  BY Zenon DEF IsNeedIgnoredData, DeletesNothing
<1>2. IsItemSaved(item, row, s) <=> ~IsDefeated(item, row, s, TRUE)
  BY <1>1, Zenon DEF IsItemSaved, IsSaved
<1>3. CASE IsDefeated(item, row, s, TRUE)
  BY <1>2, <1>3, Zenon DEF SavedAs, IsDefeated, NotNewer, SaveItem, SaveSyncDataItem, IsItemSaved
<1>4. CASE ~IsDefeated(item, row, s, TRUE)
  <2>1. new = SavedRow(j, row, s)  BY <1>2, <1>4, Zenon DEF SaveItem, SaveSyncDataItem, IsItemSaved
  <2>2. /\ j.status = item.status /\ j.value = item.value /\ j.ts \in Nat /\ j.w \in Nat /\ j.orig = item.orig
        /\ j.local = item.local
        /\ \/ j.w = item.w /\ ~(Exists(row) /\ row.w >= item.w)
           \/ IsForced(item, row, s, TRUE) /\ Exists(row) /\ row.dev = s /\ row.w >= item.w /\ j.w = row.w + 1
    <3>1. CASE IsForced(item, row, s, TRUE)
      <4>1. j = [item EXCEPT !.w = row.w + 1, !.ts = row.ts]  BY <3>1, Zenon DEF Judged, Bumped
      <4> HIDE DEF j
      <4>2. j.status = item.status /\ j.value = item.value /\ j.ts = row.ts /\ j.w = row.w + 1 /\ j.orig = item.orig
            /\ j.local = item.local
        BY <4>1, Zenon DEF Row
      <4>3. row.ts \in Nat /\ row.w + 1 \in Nat  BY DEF Row, Stamps
      <4>. QED  BY <3>1, <4>2, <4>3, Zenon DEF IsForced, NotNewer
    <3>2. CASE ~IsForced(item, row, s, TRUE)
      <4>1. j = item  BY <3>2, Zenon DEF Judged
      <4>2. ~(Exists(row) /\ row.w >= item.w)  BY <1>4, <3>2, Zenon DEF IsDefeated, NotNewer
      <4>. QED  BY <4>1, <4>2, Zenon DEF Row, Stamps
    <3>. QED  BY <3>1, <3>2, Zenon
  <2>3. item.status \in {"live", "deleted"} /\ item.value \in Nat /\ item.orig \in Devices \union {Here} /\ item.local \in BOOLEAN
    BY Zenon DEF Row, Exists
  <2> HIDE DEF j, new
  <2>4. new = [status |-> item.status, value |-> IF item.status = "live" THEN item.value ELSE 0, ts |-> j.ts, w |-> j.w,
               dev |-> s, orig |-> item.orig, local |-> item.local]
    BY <2>1, <2>2, <2>3, Zenon DEF SavedRow, GetOriginDevName
  <2>5. new \in Row  BY <2>2, <2>3, <2>4, Zenon DEF Row, Stamps
  <2>6. Exists(new) /\ new.dev = s /\ ~new.local /\ ValueOf(new) = ValueOf(item) /\ new.w = j.w
    BY <2>3, <2>4, Zenon DEF Exists, ValueOf, Live
  <2>. QED  BY <1>2, <1>4, <2>2, <2>5, <2>6, Zenon DEF SavedAs, new
<1>. QED  BY <1>3, <1>4, Zenon

KeptLater(s, d, k, item, row, v, new, v2) ==
    /\ new \in Row /\ v2 \in Nat
    /\ RowOK(d, k, new, v2)
    /\ (new = row /\ v2 = v) \/ (Exists(item) /\ Exists(new) /\ new.dev = s /\ ~new.local)
    /\ Exists(item) => v2 = IF item.w > v THEN item.w ELSE v
    /\ ~Exists(item) => v2 = v /\ new = row
    /\ Exists(item) /\ item.w > v => ValueOf(new) = ValueOf(item) /\ new.dev = s
    /\ ~(Exists(item) /\ item.w > v) => ValueOf(new) = ValueOf(row) /\ new.dev = row.dev

\* A received version and the row it meets: of two versions the later one stays.
LEMMA RowSaved ==
    ASSUME NEW s \in Devices, NEW d \in Devices, s # d, NEW k \in Keys,
           NEW item \in Row, NEW row \in Row, NEW v \in Nat,
           Exists(item), ~item.local, item.w >= 1,
           Rec(k, item.w, s, ValueOf(item)) \in written,
           RowOK(d, k, row, v), row.dev = s => v <= item.w,
           Exists(row) => \/ item.w = v /\ s = WriterOf(d, row) /\ ValueOf(item) = ValueOf(row)
                          \/ item.w + Gap <= v \/ v + Gap <= item.w,
           IsForced(item, row, s, TRUE) => row.w + 1 < v + Gap,
           NEW new, new = SaveItem(item, row, s),
           NEW v2, v2 = IF IsItemSaved(item, row, s) THEN item.w ELSE v
    PROVE  KeptLater(s, d, k, item, row, v, new, v2)
<1>1. item.w \in Nat /\ row.w \in Nat /\ Gap \in Nat /\ s # Here
  BY Constants, Zenon DEF Row, Stamps
<1>2. SavedAs(item, row, s, new)  BY ItemSaved, Zenon
<1>3. IF IsItemSaved(item, row, s) THEN v2 = item.w ELSE v2 = v  OBVIOUS
<1>4. Exists(row) => v <= row.w /\ row.w < v + Gap  BY Zenon DEF RowOK
<1>5. ~Exists(row) => v = 0  BY Zenon DEF RowOK
<1>6. Exists(new) /\ new.dev = s => WriterOf(d, new) = s  BY <1>1, Zenon DEF WriterOf
<1>7. CASE ~IsItemSaved(item, row, s)
  <2>1. new = row /\ v2 = v /\ Exists(row) /\ row.w >= item.w  BY <1>2, <1>3, <1>7, Zenon DEF SavedAs
  <2>2. row.w < v + Gap /\ (item.w = v \/ item.w + Gap <= v \/ v + Gap <= item.w)  BY <1>4, <2>1, Zenon
  <2>3. ~(item.w > v)  BY <1>1, <2>1, <2>2
  <2>. QED  BY <2>1, <2>3, Zenon DEF KeptLater
<1>8. CASE IsItemSaved(item, row, s) /\ ~(Exists(row) /\ row.w >= item.w)
  <2>1. new \in Row /\ Exists(new) /\ new.dev = s /\ ~new.local /\ ValueOf(new) = ValueOf(item) /\ new.w = item.w /\ v2 = item.w
    BY <1>2, <1>3, <1>8, Zenon DEF SavedAs
  <2>2. item.w > v /\ v2 < v2 + Gap
    <3>1. Gap >= 1  BY Constants, Zenon
    <3>. QED  BY <1>1, <1>4, <1>5, <1>8, <2>1, <3>1
  <2>3. RowOK(d, k, new, v2)  BY <1>1, <1>6, <2>1, <2>2 DEF RowOK
  <2>. QED  BY <1>1, <2>1, <2>2, <2>3, Zenon DEF KeptLater
<1>9. CASE IsItemSaved(item, row, s) /\ Exists(row) /\ row.w >= item.w
  <2>1. /\ new \in Row /\ Exists(new) /\ new.dev = s /\ ~new.local /\ ValueOf(new) = ValueOf(item) /\ v2 = item.w
        /\ row.w + 1 < v + Gap /\ row.dev = s /\ new.w = row.w + 1
    BY <1>2, <1>3, <1>9, Zenon DEF SavedAs
  <2>2. item.w = v  BY <1>1, <1>4, <1>9, <2>1
  <2>3. ValueOf(item) = ValueOf(row)
    <3>1. ~(item.w + Gap <= v) /\ ~(v + Gap <= item.w)
      <4>1. Gap >= 1  BY Constants, Zenon
      <4>. QED  BY <1>1, <2>2, <4>1
    <3>. QED  BY <1>9, <3>1, Zenon
  <2>4. v2 <= new.w /\ new.w < v2 + Gap /\ ~(item.w > v)  BY <1>1, <1>4, <1>9, <2>1, <2>2
  <2>5. RowOK(d, k, new, v2)  BY <1>6, <2>1, <2>4, <1>1, Zenon DEF RowOK
  <2>. QED  BY <1>1, <2>1, <2>2, <2>3, <2>4, <2>5, Zenon DEF KeptLater
<1>. QED  BY <1>7, <1>8, <1>9, Zenon

\* What a packet leaves of a key
NewRow(s, d, k) == SaveItem(packet[s][d].rows[k], rows[d][k], s)
NewVer(s, d, k) == IF IsItemSaved(packet[s][d].rows[k], rows[d][k], s) THEN packet[s][d].rows[k].w ELSE base[d][k]

\* For a key of a packet the device keeps the later version.
LEMMA KeySaved ==
    ASSUME IInv, NEW s \in Devices, NEW d \in Devices, s # d, FewForced(packet[s][d], s, d), NEW k \in Keys
    PROVE  KeptLater(s, d, k, packet[s][d].rows[k], rows[d][k], base[d][k], NewRow(s, d, k), NewVer(s, d, k))
<1> DEFINE item == packet[s][d].rows[k]  row == rows[d][k]  v == base[d][k]
           new == SaveItem(item, row, s)
           v2 == IF IsItemSaved(item, row, s) THEN item.w ELSE v
           q == Rec(k, item.w, s, ValueOf(item))
           r == Rec(k, v, WriterOf(d, row), ValueOf(row))
<1>1. item \in Row /\ row \in Row /\ v \in Nat
  <2>1. packet[s][d] \in Packets  BY Zenon DEF IInv, TypeOK
  <2>2. item \in Row  BY <2>1, Zenon DEF Packets
  <2>. QED  BY <2>2, Zenon DEF IInv, TypeOK
<1>2. RowOK(d, k, row, v) /\ ItemOK(s, d, k, item)  BY Zenon DEF IInv, Rows, PacketsOK, PacketOK
<1>3. Exists(item) => q \in written /\ ~item.local /\ (row.dev = s => v <= item.w)  BY <1>2, Zenon DEF ItemOK
<1>4. Exists(item) /\ IsForced(item, row, s, TRUE) => row.w + 1 < v + Gap  BY Zenon DEF FewForced
<1>5. Exists(row) => r \in written  BY <1>2, Zenon DEF RowOK
<1>6. /\ q.version.ver = item.w /\ q.version.by = s /\ q.version.value = ValueOf(item)
      /\ r.version.ver = v /\ r.version.by = WriterOf(d, row) /\ r.version.value = ValueOf(row)
  BY Zenon DEF Rec
<1>7. new = NewRow(s, d, k) /\ v2 = NewVer(s, d, k)  BY Zenon DEF NewRow, NewVer
<1>8. q = Rec(k, item.w, s, ValueOf(item))  OBVIOUS
<1>9. (~Exists(item) => new = row /\ v2 = v) /\ new = SaveItem(item, row, s) /\ v2 = IF IsItemSaved(item, row, s) THEN item.w ELSE v
  BY Zenon DEF SaveItem, IsItemSaved
<1> HIDE DEF item, row, v, new, v2, q, r
<1>10. KeptLater(s, d, k, item, row, v, new, v2)
  <2>1. CASE ~Exists(item)  BY <1>1, <1>2, <1>9, <2>1, Zenon DEF KeptLater
  <2>2. CASE Exists(item)
    <3>1. item.w >= 1  BY <1>3, <1>6, <2>2, Zenon DEF IInv, Spaced
    <3>2. Exists(row) => q = r \/ item.w + Gap <= v \/ v + Gap <= item.w  BY <1>3, <1>5, <1>6, <2>2, Zenon DEF IInv, Spaced
    <3>3. Exists(row) => \/ item.w = v /\ s = WriterOf(d, row) /\ ValueOf(item) = ValueOf(row)
                         \/ item.w + Gap <= v \/ v + Gap <= item.w
      BY <1>6, <3>2, Zenon
    <3>4. Rec(k, item.w, s, ValueOf(item)) \in written  BY <1>3, <1>8, <2>2, Zenon
    <3>. QED  BY <1>1, <1>2, <1>3, <1>4, <1>9, <2>2, <3>1, <3>3, <3>4, RowSaved, Zenon
  <2>. QED  BY <2>1, <2>2, Zenon
<1>. QED  BY <1>7, <1>10, Zenon DEF item, row, v

-----------------------------------------------------------------------------
(* Facts the steps use. *)

\* Replacing one entry of a matrix
LEMMA Replaced ==
    ASSUME NEW A, NEW B, NEW S, NEW f \in [A -> [B -> S]], NEW a \in A, NEW b \in B, NEW x \in S
    PROVE  LET g == [f EXCEPT ![a] = [f[a] EXCEPT ![b] = x]]
           IN /\ g \in [A -> [B -> S]] /\ g[a][b] = x
              /\ \A c \in A, d \in B : c # a \/ d # b => g[c][d] = f[c][d]
  OBVIOUS

LEMMA NoRowFacts == NoRow \in Row /\ ~Exists(NoRow) /\ NoRow.dev = Here /\ ~NoRow.local
  BY Zenon DEF NoRow, Row, Exists, Stamps

LEMMA NoPacketFacts == NoPacket \in Packets /\ NoPacket.end = 0 /\ \A k \in Keys : NoPacket.rows[k] = NoRow
  BY NoRowFacts, Zenon DEF NoPacket, NoRows, Packets, Stamps

\* The latest version of a key has a writer, and nobody has a later one.
LEMMA TopFacts ==
    ASSUME IInv, NEW k \in Keys
    PROVE  /\ top[k] \in Version
           /\ top[k] # NoVersion => top[k].ver >= 1 /\ top[k].ver <= now /\ top[k].by \in Devices
           /\ top[k].by \in Devices => top[k] # NoVersion
           /\ \A d \in Devices : base[d][k] \in Nat /\ base[d][k] <= top[k].ver
<1> USE Constants
<1>1. top[k] \in Version  BY Zenon DEF IInv, TypeOK
<1>2. ASSUME top[k] # NoVersion PROVE top[k].ver >= 1 /\ top[k].ver <= now /\ top[k].by \in Devices
  <2> DEFINE r == [key |-> k, version |-> top[k]]
  <2>1. r \in written  BY <1>2, Zenon DEF IInv, Latest
  <2>2. r.version = top[k]  OBVIOUS
  <2> HIDE DEF r
  <2>3. r.version.ver >= 1 /\ r.version.ver <= now /\ r.version.by \in Devices  BY <2>1, Zenon DEF IInv, Spaced
  <2>. QED  BY <2>2, <2>3, Zenon
<1>3. top[k].by \in Devices => top[k] # NoVersion  BY DEF NoVersion
<1>4. ASSUME NEW d \in Devices PROVE base[d][k] \in Nat /\ base[d][k] <= top[k].ver
  <2>1. base[d][k] \in Nat  BY DEF IInv, TypeOK
  <2>2. RowOK(d, k, rows[d][k], base[d][k])  BY Zenon DEF IInv, Rows
  <2>3. CASE ~Exists(rows[d][k])
    BY <1>1, <2>1, <2>2, <2>3 DEF RowOK, Version
  <2>4. CASE Exists(rows[d][k])
    <3> DEFINE r == Rec(k, base[d][k], WriterOf(d, rows[d][k]), ValueOf(rows[d][k]))
    <3>1. r \in written  BY <2>2, <2>4, Zenon DEF RowOK
    <3>2. r.key = k /\ r.version.ver = base[d][k]  BY Zenon DEF Rec
    <3> HIDE DEF r
    <3>. QED  BY <2>1, <3>1, <3>2, Zenon DEF IInv, Latest
  <2>. QED  BY <2>3, <2>4, Zenon
<1>. QED  BY <1>1, <1>2, <1>3, <1>4, Zenon

\* A packet that is not there is in order.
LEMMA NoPacketOK ==
    ASSUME IInv, NEW s \in Devices, NEW d \in Devices
    PROVE  PacketOK(s, d, NoPacket)
<1>1. now \in Nat  BY Zenon DEF IInv, TypeOK, Stamps
<1>2. \A k \in Keys : ~Exists(NoPacket.rows[k])  BY NoPacketFacts, NoRowFacts, Zenon
<1>3. \A k \in Keys : top[k].by = s => ~(top[k].ver <= NoPacket.end)
  <2> TAKE k \in Keys
  <2> HAVE top[k].by = s
  <2>1. top[k].ver >= 1 /\ top[k] \in Version  BY TopFacts, Zenon
  <2>. QED  BY <2>1, NoPacketFacts DEF Version
<1>. QED  BY <1>1, <1>2, <1>3, NoPacketFacts DEF PacketOK, ItemOK

LEMMA IInvInit == Init => IInv
<1> SUFFICES ASSUME Init PROVE IInv
  OBVIOUS
<1> USE Constants
<1>1. NoVersion \in Version /\ NoVersion.by = Here /\ NoVersion.ver = 0  BY Zenon DEF NoVersion, Version
<1>2. /\ \A d \in Devices, k \in Keys : rows[d][k] = NoRow /\ base[d][k] = 0
      /\ \A s, d \in Devices : packet[s][d] = NoPacket /\ peer[d][s] = 0
      /\ \A k \in Keys : top[k] = NoVersion
      /\ written = {} /\ now = 0
  BY Zenon DEF Init, NoRows
<1>3. TypeOK
  <2>1. rows \in [Devices -> [Keys -> Row]]  BY NoRowFacts, Zenon DEF Init, NoRows
  <2>2. packet \in [Devices -> [Devices -> Packets]]  BY NoPacketFacts, Zenon DEF Init
  <2>. QED  BY <1>1, <2>1, <2>2, Zenon DEF TypeOK, Init, Stamps
<1>4. Spaced  BY <1>2, Zenon DEF Spaced
<1>5. Rows  BY <1>2, NoRowFacts, Zenon DEF Rows, RowOK
<1>6. Latest  BY <1>2, Zenon DEF Latest
<1>7. PacketsOK
  <2>1. \A s \in Devices, k \in Keys : top[k].by # s  BY <1>1, <1>2, Zenon
  <2>2. \A k \in Keys : ~Exists(NoPacket.rows[k])  BY NoPacketFacts, NoRowFacts, Zenon
  <2>. QED  BY <1>2, <2>1, <2>2, NoPacketFacts DEF PacketsOK, PacketOK, ItemOK
<1>8. Delivered  BY <1>2 DEF Delivered
<1>9. Erased  BY Zenon DEF Init, Erased
<1>. QED  BY <1>3, <1>4, <1>5, <1>6, <1>7, <1>8, <1>9, Zenon DEF IInv

-----------------------------------------------------------------------------
(* One lemma for each action. *)

LEMMA WriteStep ==
    ASSUME IInv, NEW d \in Devices, NEW k \in Keys, NEW status \in {"live", "deleted"}, Write(d, k, status)
    PROVE  IInv'
<1> USE Constants
<1>1. PICK n \in Steps :
        LET t == now + n  new == SaveSyncDataItem(Entry(status, t), rows[d][k], Here, TRUE, "lastWin")
            version == [ver |-> t, by |-> d, value |-> ValueOf(new)] IN
        /\ t <= MaxNow /\ now' = t
        /\ status = "deleted" => Live(rows[d][k])
        /\ rows' = [rows EXCEPT ![d] = [rows[d] EXCEPT ![k] = new]]
        /\ base' = [base EXCEPT ![d] = [base[d] EXCEPT ![k] = t]]
        /\ top' = [top EXCEPT ![k] = version]
        /\ written' = written \union {[key |-> k, version |-> version]}
        /\ UNCHANGED <<syncVars, overtaken>>
  BY Zenon DEF Write
<1> DEFINE t == now + n
           new == SaveSyncDataItem(Entry(status, t), rows[d][k], Here, TRUE, "lastWin")
           r0 == Rec(k, t, d, ValueOf(new))
<1>2. /\ now \in Nat /\ n \in Nat /\ t \in Nat /\ n >= Gap /\ Gap >= 1 /\ t >= now + Gap /\ t > now
  <2>1. now \in Nat  BY Zenon DEF IInv, TypeOK, Stamps
  <2>2. n \in Nat /\ n >= Gap  BY ReplicationAssumption, Zenon DEF ReplicationAssumption
  <2>. QED  BY <2>1, <2>2
<1>3. rows[d][k] \in Row /\ base[d][k] \in Nat /\ base[d][k] <= now
  <2>1. rows[d][k] \in Row /\ base[d][k] \in Nat  BY DEF IInv, TypeOK
  <2>2. base[d][k] <= top[k].ver /\ top[k] \in Version /\ (top[k] # NoVersion => top[k].ver <= now)  BY TopFacts, Zenon
  <2>. QED  BY <1>2, <2>1, <2>2 DEF Version, NoVersion
<1>4. new \in Row /\ Exists(new) /\ new.dev = Here /\ new.local /\ new.w = t /\ new.ts = t
  <2>1. Exists(rows[d][k]) => rows[d][k].w < base[d][k] + Gap  BY Zenon DEF IInv, Rows, RowOK
  <2>2. rows[d][k].w \in Nat  BY <1>3, Zenon DEF Row, Stamps
  <2>3. ~(Exists(rows[d][k]) /\ rows[d][k].w >= t)  BY <1>2, <1>3, <2>1, <2>2
  <2>4. status = "deleted" => Live(rows[d][k])  BY <1>1, Zenon
  <2> DEFINE row == rows[d][k]
  <2> HIDE DEF t, row
  <2>5. LET x == SavedEntry(status, t, row)
        IN x \in Row /\ Exists(x) /\ x.dev = Here /\ x.local /\ x.w = t /\ x.ts = t
    <3>1. row \in Row /\ ~(Exists(row) /\ row.w >= t) /\ (status = "deleted" => Live(row))  BY <1>3, <2>3, <2>4, Zenon DEF row
    <3>. QED  BY <1>2, <3>1, EntrySaved
  <2>. QED  BY <2>5, Zenon DEF row, SavedEntry
<1>5. ValueOf(new) \in Nat  BY <1>4, Zenon DEF ValueOf, Row
<1>6. /\ rows' = [rows EXCEPT ![d] = [rows[d] EXCEPT ![k] = new]]
      /\ base' = [base EXCEPT ![d] = [base[d] EXCEPT ![k] = t]]
      /\ top' = [top EXCEPT ![k] = r0.version]
      /\ written' = written \union {r0}
      /\ now' = t /\ UNCHANGED <<mark, peer, packet, removing, overtaken>>
      /\ r0.key = k /\ r0.version.ver = t /\ r0.version.by = d /\ r0.version.value = ValueOf(new)
      /\ r0.version \in Version /\ r0 \in [key : Keys, version : Version]
  <2>1. r0 = [key |-> k, version |-> [ver |-> t, by |-> d, value |-> ValueOf(new)]]  BY Zenon DEF Rec
  <2>2. [ver |-> t, by |-> d, value |-> ValueOf(new)] \in Version  BY <1>2, <1>5, Zenon DEF Version
  <2> HIDE DEF new, t, r0
  <2>. QED  BY <1>1, <2>1, <2>2, Zenon DEF syncVars, t, new
<1> HIDE DEF t, new
<1>7. /\ rows' \in [Devices -> [Keys -> Row]] /\ rows'[d][k] = new
      /\ \A e \in Devices, j \in Keys : e # d \/ j # k => rows'[e][j] = rows[e][j]
  <2>1. rows \in [Devices -> [Keys -> Row]]  BY Zenon DEF IInv, TypeOK
  <2>. QED  BY <1>4, <1>6, <2>1, Replaced
<1>8. /\ base' \in [Devices -> [Keys -> Nat]] /\ base'[d][k] = t
      /\ \A e \in Devices, j \in Keys : e # d \/ j # k => base'[e][j] = base[e][j]
  <2>1. base \in [Devices -> [Keys -> Nat]]  BY Zenon DEF IInv, TypeOK
  <2>. QED  BY <1>2, <1>6, <2>1, Replaced
<1> HIDE DEF r0
<1>9. top' \in [Keys -> Version] /\ top'[k] = r0.version /\ \A j \in Keys : j # k => top'[j] = top[j]
  BY <1>6, Zenon DEF IInv, TypeOK
<1>10. TypeOK'
  BY <1>2, <1>6, <1>7, <1>8, <1>9, Zenon DEF IInv, TypeOK, Stamps
<1>11. \A r \in written : r.version.ver \in Nat /\ r.version.ver >= 1 /\ r.version.ver <= now /\ r.version.by \in Devices
  <2>1. \A r \in written : r \in [key : Keys, version : Version]  BY Zenon DEF IInv, TypeOK
  <2>. QED  BY <2>1, Zenon DEF IInv, Spaced, Version
<1>12. Spaced'
  <2>1. \A r \in written' : r.version.ver >= 1 /\ r.version.ver <= now' /\ r.version.by \in Devices
    BY <1>2, <1>6, <1>11
  <2>2. \A q \in written : q.version.ver + Gap <= t  BY <1>2, <1>11
  <2>3. \A q, r \in written : q = r \/ q.version.ver + Gap <= r.version.ver \/ r.version.ver + Gap <= q.version.ver
    BY Zenon DEF IInv, Spaced
  <2>4. \A q, r \in written' : q = r \/ q.version.ver + Gap <= r.version.ver \/ r.version.ver + Gap <= q.version.ver
    BY <1>6, <2>2, <2>3, Zenon
  <2>. QED  BY <2>1, <2>4, Zenon DEF Spaced
<1>13. Rows'
  <2> SUFFICES ASSUME NEW e \in Devices, NEW j \in Keys PROVE RowOK(e, j, rows[e][j], base[e][j])'
    BY Zenon DEF Rows
  <2>1. CASE e = d /\ j = k
    <3>1. Rec(k, t, WriterOf(d, new), ValueOf(new)) \in written'  BY <1>4, <1>6, Zenon DEF WriterOf, r0
    <3>. QED  BY <1>2, <1>4, <1>7, <1>8, <2>1, <3>1 DEF RowOK
  <2>2. CASE e # d \/ j # k
    <3>1. RowOK(e, j, rows[e][j], base[e][j])  BY Zenon DEF IInv, Rows
    <3>2. rows'[e][j] = rows[e][j] /\ base'[e][j] = base[e][j]  BY <1>7, <1>8, <2>2, Zenon
    <3>. QED  BY <1>6, <3>1, <3>2 DEF RowOK
  <2>. QED  BY <2>1, <2>2, Zenon
<1>14. Latest'
  <2>1. ASSUME NEW j \in Keys, NEW r \in written', r.key = j PROVE r.version.ver <= top'[j].ver
    BY <1>2, <1>6, <1>9, <1>11, <2>1 DEF IInv, Latest
  <2>2. ASSUME NEW j \in Keys, top'[j] # NoVersion
        PROVE  /\ [key |-> j, version |-> top'[j]] \in written'
               /\ rows'[top'[j].by][j].local /\ base'[top'[j].by][j] = top'[j].ver
    <3>1. CASE j = k
      <4>1. [key |-> j, version |-> top'[j]] = r0  BY <1>6, <1>9, <3>1, Zenon
      <4>. QED  BY <1>4, <1>6, <1>7, <1>8, <1>9, <3>1, <4>1
    <3>2. CASE j # k
      BY <1>6, <1>7, <1>8, <1>9, <2>2, <3>2, TopFacts DEF IInv, Latest
    <3>. QED  BY <3>1, <3>2, Zenon
  <2>3. ASSUME NEW s \in Devices, NEW j \in Keys, NEW r \in written', rows'[s][j].local, r.key = j, r.version.by = s
        PROVE  r.version.ver <= base'[s][j]
    <3>1. CASE s = d /\ j = k
      BY <1>2, <1>6, <1>8, <1>11, <3>1
    <3>2. CASE s # d \/ j # k
      BY <1>6, <1>7, <1>8, <2>3, <3>2 DEF IInv, Latest
    <3>. QED  BY <3>1, <3>2, Zenon
  <2>. QED  BY <2>1, <2>2, <2>3, Zenon DEF Latest
<1>15. PacketsOK'
  <2> SUFFICES ASSUME NEW s \in Devices, NEW e \in Devices, s # e PROVE PacketOK(s, e, packet[s][e])'
    BY Zenon DEF PacketsOK
  <2>1. PacketOK(s, e, packet[s][e]) /\ packet[s][e] \in Packets  BY DEF IInv, PacketsOK, TypeOK
  <2>2. packet'[s][e] = packet[s][e] /\ packet[s][e].end \in Nat  BY <1>6, <2>1, Zenon DEF Packets, Stamps
  <2>3. packet[s][e].end <= now /\ packet[s][e].end < t  BY <1>2, <2>1, <2>2 DEF PacketOK
  <2>4. ASSUME NEW j \in Keys PROVE ItemOK(s, e, j, packet[s][e].rows[j])'
    <3>1. ItemOK(s, e, j, packet[s][e].rows[j])  BY <2>1, Zenon DEF PacketOK
    <3>2. rows'[e][j].dev = s => rows'[e][j] = rows[e][j] /\ base'[e][j] = base[e][j]  BY <1>4, <1>7, <1>8, Zenon
    <3>. QED  BY <1>6, <2>2, <3>1, <3>2, Zenon DEF ItemOK
  <2>5. ASSUME NEW j \in Keys, top'[j].by = s, packet[s][e].mark <= top'[j].ver, top'[j].ver <= packet[s][e].end
        PROVE  Exists(packet[s][e].rows[j]) /\ packet[s][e].rows[j].w = top'[j].ver
    <3>1. j # k  BY <1>2, <1>6, <1>9, <2>2, <2>3, <2>5
    <3>. QED  BY <1>9, <2>1, <2>5, <3>1, Zenon DEF PacketOK
  <2>6. packet'[s][e].end <= now'  BY <1>2, <1>6, <2>2, <2>3
  <2>. QED  BY <2>2, <2>4, <2>5, <2>6, Zenon DEF PacketOK
<1>16. Delivered'
  <2>1. \A e, s \in Devices : peer[e][s] \in Nat /\ peer[e][s] <= now + 1  BY DEF IInv, Delivered, TypeOK, Stamps
  <2>2. \A e, s \in Devices : peer'[e][s] <= now' + 1  BY <1>2, <1>6, <2>1
  <2>3. ASSUME ~overtaken, NEW j \in Keys, NEW e \in Devices, top'[j] # NoVersion, e # top'[j].by, top'[j].ver < peer'[e][top'[j].by]
        PROVE  base'[e][j] = top'[j].ver
    <3>1. j # k  BY <1>2, <1>6, <1>9, <2>1, <2>3
    <3>2. top'[j] = top[j] /\ base'[e][j] = base[e][j]  BY <1>8, <1>9, <3>1, Zenon
    <3>. QED  BY <1>6, <2>3, <3>2, Zenon DEF IInv, Delivered
  <2>. QED  BY <1>6, <2>2, <2>3, Zenon DEF Delivered
<1>17. Erased'  BY <1>6, Zenon DEF IInv, Erased
<1>. QED  BY <1>10, <1>12, <1>13, <1>14, <1>15, <1>16, <1>17, Zenon DEF IInv

\* What does not depend on the water marks
LEMMA SameTables ==
    ASSUME IInv, UNCHANGED <<now, rows, packet, base, top, written>>
    PROVE  Spaced' /\ Rows' /\ Latest' /\ PacketsOK'
<1>1. Spaced'  BY Zenon DEF IInv, Spaced
<1>2. Rows'  BY DEF IInv, Rows, RowOK
<1>3. Latest'  BY Zenon DEF IInv, Latest
<1>4. PacketsOK'
  <2> SUFFICES ASSUME NEW a \in Devices, NEW b \in Devices, a # b PROVE PacketOK(a, b, packet[a][b])'
    BY Zenon DEF PacketsOK
  <2>1. PacketOK(a, b, packet[a][b])  BY Zenon DEF IInv, PacketsOK
  <2>. QED  BY <2>1, Zenon DEF PacketOK, ItemOK
<1>. QED  BY <1>1, <1>2, <1>3, <1>4, Zenon

\* A step that only changes a packet, to one that is in order
LEMMA PacketStep ==
    ASSUME IInv, NEW s \in Devices, NEW d \in Devices, NEW p \in Packets, PacketOK(s, d, p),
           packet' = [packet EXCEPT ![s] = [packet[s] EXCEPT ![d] = p]],
           mark' \in [Devices -> [Devices -> Stamps]], UNCHANGED <<now, rows, peer, removing, histVars>>
    PROVE  IInv'
<1>1. UNCHANGED <<now, rows, peer, removing, base, top, written, overtaken>>  BY Zenon DEF histVars
<1>2. /\ packet' \in [Devices -> [Devices -> Packets]] /\ packet'[s][d] = p
      /\ \A a, b \in Devices : a # s \/ b # d => packet'[a][b] = packet[a][b]
  <2>1. packet \in [Devices -> [Devices -> Packets]]  BY Zenon DEF IInv, TypeOK
  <2>. QED  BY <2>1, Replaced
<1>3. TypeOK'  BY <1>1, <1>2, Zenon DEF IInv, TypeOK
<1>4. Spaced' /\ Rows' /\ Latest' /\ Delivered' /\ Erased'
  <2>1. Spaced'  BY <1>1, Zenon DEF IInv, Spaced
  <2>2. Rows'  BY <1>1, SMTT(30) DEF IInv, Rows, RowOK
  <2>3. Latest'  BY <1>1, Zenon DEF IInv, Latest
  <2>4. Delivered' /\ Erased'  BY <1>1, Zenon DEF IInv, Delivered, Erased
  <2>. QED  BY <2>1, <2>2, <2>3, <2>4, Zenon
<1>5. PacketsOK'
  <2> SUFFICES ASSUME NEW a \in Devices, NEW b \in Devices, a # b PROVE PacketOK(a, b, packet[a][b])'
    BY Zenon DEF PacketsOK
  <2>1. PacketOK(a, b, packet'[a][b])
    BY <1>2, Zenon DEF IInv, PacketsOK
  <2>. QED  BY <1>1, <2>1, Zenon DEF PacketOK, ItemOK
<1>. QED  BY <1>3, <1>4, <1>5, Zenon DEF IInv

LEMMA SendStep ==
    ASSUME IInv, NEW s \in Devices, NEW d \in Devices, s # d, Send(s, d)
    PROVE  IInv'
<1> USE Constants
<1> DEFINE from == mark[s][d]
           Sent(end) == [mark |-> from, end |-> end,
                         rows |-> [k \in Keys |-> IF IsSynced(rows[s][k], from) /\ rows[s][k].ts <= end
                                                  THEN TransItem(rows[s][k], s, d) ELSE NoRow]]
<1>1. PICK last \in Keys :
        /\ IsSynced(rows[s][last], from)
        /\ packet' = [packet EXCEPT ![s] = [packet[s] EXCEPT ![d] = Sent(rows[s][last].ts)]]
        /\ mark' = [mark EXCEPT ![s] = [mark[s] EXCEPT ![d] = rows[s][last].ts + 1]]
        /\ UNCHANGED <<now, rows, peer, removing, histVars>>
  BY Zenon DEF Send
<1> DEFINE end == rows[s][last].ts  p == Sent(end)
<1>2. \A k \in Keys : rows[s][k] \in Row /\ rows[s][k].ts \in Nat /\ rows[s][k].w \in Nat /\ base[s][k] \in Nat
  <2> TAKE k \in Keys
  <2>1. rows[s][k] \in Row /\ base[s][k] \in Nat  BY DEF IInv, TypeOK
  <2>. QED  BY <2>1, Zenon DEF Row, Stamps
<1>3. from \in Nat /\ end \in Nat /\ now \in Nat  BY <1>2 DEF IInv, TypeOK, Stamps
<1>4. \A k \in Keys : Exists(rows[s][k]) /\ rows[s][k].local =>
          /\ rows[s][k].ts = base[s][k] /\ rows[s][k].w = base[s][k] /\ rows[s][k].dev = Here
          /\ Rec(k, base[s][k], s, ValueOf(rows[s][k])) \in written
  BY Zenon DEF IInv, Rows, RowOK, WriterOf
<1>5. end <= now
  <2> DEFINE v == base[s][last]  x == top[last]
  <2>1. end = v  BY <1>1, <1>4, Zenon DEF IsSynced
  <2>2. v <= x.ver /\ x \in Version /\ (x # NoVersion => x.ver <= now)  BY TopFacts, Zenon
  <2>3. x.ver \in Nat /\ (x = NoVersion => x.ver = 0)  BY <2>2 DEF Version, NoVersion
  <2> HIDE DEF v, x, end
  <2>. QED  BY <1>3, <2>1, <2>2, <2>3
<1>6. \A k \in Keys : /\ TransItem(rows[s][k], s, d) \in Row /\ ~TransItem(rows[s][k], s, d).local
                      /\ TransItem(rows[s][k], s, d).w = rows[s][k].w
                      /\ TransItem(rows[s][k], s, d).status = rows[s][k].status
                      /\ ValueOf(TransItem(rows[s][k], s, d)) = ValueOf(rows[s][k])
  <2> TAKE k \in Keys
  <2>1. PICK row : row = rows[s][k]  OBVIOUS
  <2>2. row \in Row  BY <1>2, <2>1, Zenon
  <2>3. PICK o \in Devices \union {Here} : o = IF row.orig = Here THEN s ELSE IF row.orig = d THEN Here ELSE row.orig
    BY <2>2, Zenon DEF Row
  <2>4. TransItem(row, s, d) = [row EXCEPT !.local = FALSE, !.dev = s, !.orig = o]
    BY <2>3, Zenon DEF TransItem
  <2>5. TransItem(row, s, d) \in Row  BY <2>2, <2>4, Zenon DEF Row
  <2>6. ~TransItem(row, s, d).local /\ TransItem(row, s, d).w = row.w /\ TransItem(row, s, d).status = row.status
        /\ TransItem(row, s, d).value = row.value
    BY <2>2, <2>4, Zenon DEF Row
  <2>7. ValueOf(TransItem(row, s, d)) = ValueOf(row)  BY <2>6, Zenon DEF ValueOf, Live
  <2>. QED  BY <2>1, <2>5, <2>6, <2>7, Zenon
<1>7. \A k \in Keys : p.rows[k] = IF IsSynced(rows[s][k], from) /\ rows[s][k].ts <= end
                                  THEN TransItem(rows[s][k], s, d) ELSE NoRow
  OBVIOUS
<1>8. p.mark = from /\ p.end = end  OBVIOUS
<1>9. p \in Packets
  <2>1. p.rows \in [Keys -> Row]  BY <1>6, NoRowFacts, Zenon
  <2>. QED  BY <1>3, <2>1, Zenon DEF Packets, Stamps
<1> HIDE DEF p, end, from
<1>10. PacketOK(s, d, p)
  <2>1. ASSUME NEW k \in Keys PROVE ItemOK(s, d, k, p.rows[k])
    <3>1. SUFFICES ASSUME Exists(p.rows[k])
                   PROVE  /\ Rec(k, p.rows[k].w, s, ValueOf(p.rows[k])) \in written
                          /\ ~p.rows[k].local /\ p.rows[k].status # "miss"
                          /\ rows[d][k].dev = s => base[d][k] <= p.rows[k].w
      BY Zenon DEF ItemOK
    <3>2. IsSynced(rows[s][k], from) /\ p.rows[k] = TransItem(rows[s][k], s, d)  BY <1>7, <3>1, NoRowFacts, Zenon
    <3>3. rows[s][k].local /\ rows[s][k].w = base[s][k] /\ Rec(k, base[s][k], s, ValueOf(rows[s][k])) \in written
      BY <1>4, <3>2, Zenon DEF IsSynced
    <3>4. p.rows[k].w = base[s][k] /\ ValueOf(p.rows[k]) = ValueOf(rows[s][k]) /\ ~p.rows[k].local /\ p.rows[k] \in Row
      BY <1>6, <3>2, <3>3, Zenon
    <3>5. p.rows[k].status # "miss"  BY <3>4, Zenon DEF Row
    <3>6. ASSUME rows[d][k].dev = s PROVE base[d][k] <= base[s][k]
      <4> DEFINE r == Rec(k, base[d][k], WriterOf(d, rows[d][k]), ValueOf(rows[d][k]))
      <4>1. Exists(rows[d][k])  BY <3>6, NoRowFacts DEF IInv, Rows, RowOK
      <4>2. r \in written  BY <4>1, Zenon DEF IInv, Rows, RowOK
      <4>3. r.key = k /\ r.version.by = s /\ r.version.ver = base[d][k]  BY <3>6, Zenon DEF Rec, WriterOf
      <4> HIDE DEF r
      <4>. QED  BY <3>3, <4>2, <4>3, Zenon DEF IInv, Latest
    <3>. QED  BY <3>3, <3>4, <3>5, <3>6, Zenon
  <2>2. ASSUME NEW k \in Keys, top[k].by = s, p.mark <= top[k].ver, top[k].ver <= p.end
        PROVE  Exists(p.rows[k]) /\ p.rows[k].w = top[k].ver
    <3>1. top[k] # NoVersion /\ top[k].ver >= 1 /\ top[k] \in Version  BY <2>2, TopFacts, Zenon
    <3>2. rows[s][k].local /\ base[s][k] = top[k].ver  BY <2>2, <3>1, Zenon DEF IInv, Latest
    <3>3. Exists(rows[s][k])  BY <3>2, NoRowFacts DEF IInv, Rows, RowOK
    <3>4. rows[s][k].ts = top[k].ver /\ rows[s][k].w = top[k].ver  BY <1>4, <3>2, <3>3, Zenon
    <3>5. IsSynced(rows[s][k], from) /\ rows[s][k].ts <= end
      BY <1>3, <1>8, <2>2, <3>1, <3>2, <3>3, <3>4, Zenon DEF IsSynced, Version
    <3>6. p.rows[k] = TransItem(rows[s][k], s, d)  BY <1>7, <3>5, Zenon
    <3>. QED  BY <1>6, <3>3, <3>4, <3>6, Zenon DEF Exists
  <2>. QED  BY <1>5, <1>8, <2>1, <2>2, Zenon DEF PacketOK
<1>11. mark' \in [Devices -> [Devices -> Stamps]]
  <2>1. mark \in [Devices -> [Devices -> Stamps]] /\ end + 1 \in Stamps  BY <1>3 DEF IInv, TypeOK, Stamps
  <2>2. mark' = [mark EXCEPT ![s] = [mark[s] EXCEPT ![d] = end + 1]]  BY <1>1, Zenon DEF end
  <2>. QED  BY <2>1, <2>2, Zenon
<1>12. packet' = [packet EXCEPT ![s] = [packet[s] EXCEPT ![d] = p]] /\ UNCHANGED <<now, rows, peer, removing, histVars>>
  BY <1>1, Zenon DEF p, end
<1>. QED  BY <1>9, <1>10, <1>11, <1>12, PacketStep, Zenon

\* SendEmpty, the ack of a refused packet, and a loss
LEMMA QuietStep ==
    ASSUME IInv, NEW s \in Devices, NEW d \in Devices, s # d,
           SendEmpty(s, d) \/ WaterMarkErrHandle(s, d) \/ Lose(s, d)
    PROVE  IInv'
<1>1. mark \in [Devices -> [Devices -> Stamps]] /\ peer[d][s] \in Stamps /\ mark[s][d] \in Stamps  BY Zenon DEF IInv, TypeOK
<1>2. CASE SendEmpty(s, d)
  <2> DEFINE p == [NoPacket EXCEPT !.mark = mark[s][d]]
  <2>1. p.end = NoPacket.end /\ p.rows = NoPacket.rows  BY Zenon DEF NoPacket
  <2>2. p \in Packets  BY <1>1, NoPacketFacts, Zenon DEF Packets
  <2>3. packet' = [packet EXCEPT ![s] = [packet[s] EXCEPT ![d] = p]] /\ UNCHANGED <<now, rows, mark, peer, removing, histVars>>
    BY <1>2, Zenon DEF SendEmpty
  <2> HIDE DEF p
  <2>4. PacketOK(s, d, p)
    <3>1. PacketOK(s, d, NoPacket)  BY NoPacketOK, Zenon
    <3>2. \A k \in Keys : top[k].by = s => ~(top[k].ver <= 0)
      <4> TAKE k \in Keys
      <4> HAVE top[k].by = s
      <4>1. top[k].ver >= 1 /\ top[k] \in Version  BY TopFacts, Zenon
      <4>. QED  BY <4>1 DEF Version
    <3>. QED  BY <2>1, <3>1, <3>2, NoPacketFacts, Zenon DEF PacketOK
  <2>. QED  BY <1>1, <2>2, <2>3, <2>4, PacketStep, Zenon
<1>3. CASE WaterMarkErrHandle(s, d) \/ Lose(s, d)
  <2>1. mark' \in [Devices -> [Devices -> Stamps]]  BY <1>1, <1>3 DEF WaterMarkErrHandle, Lose
  <2>2. packet' = [packet EXCEPT ![s] = [packet[s] EXCEPT ![d] = NoPacket]] /\ UNCHANGED <<now, rows, peer, removing, histVars>>
    BY <1>3, Zenon DEF WaterMarkErrHandle, Lose, Ended
  <2>. QED  BY <2>1, <2>2, NoPacketFacts, NoPacketOK, PacketStep, Zenon
<1>. QED  BY <1>2, <1>3, Zenon

LEMMA EraseStep ==
    ASSUME IInv, NEW d \in Devices, NEW b \in Devices, d # b, EraseDeviceWaterMark(d, b)
    PROVE  IInv'
<1> USE Constants
<1>1. UNCHANGED <<now, rows, mark, packet, base, top, written, overtaken>>  BY Zenon DEF EraseDeviceWaterMark, histVars
<1>2. /\ peer' \in [Devices -> [Devices -> Stamps]] /\ peer'[d][b] = 0
      /\ \A a, e \in Devices : a # d \/ e # b => peer'[a][e] = peer[a][e]
  <2>1. peer \in [Devices -> [Devices -> Stamps]] /\ 0 \in Stamps  BY Zenon DEF IInv, TypeOK, Stamps
  <2>. QED  BY <2>1, Replaced DEF EraseDeviceWaterMark
<1>3. /\ removing' \in [Devices -> Devices \union {Here}] /\ removing'[d] = b
      /\ \A e \in Devices : e # d => removing'[e] = removing[e] /\ removing[e] \in Devices \union {Here}
  BY Zenon DEF EraseDeviceWaterMark, IInv, TypeOK
<1>4. TypeOK'
  <2>1. TypeOK  BY Zenon DEF IInv
  <2>. QED  BY <1>1, <1>2, <1>3, <2>1, Zenon DEF TypeOK
<1>5. Spaced' /\ Rows' /\ Latest' /\ PacketsOK'  BY <1>1, SameTables, Zenon
<1>7. Delivered'
  <2>1. \A e, s \in Devices : peer'[e][s] <= now' + 1
    <3>1. \A e, s \in Devices : peer[e][s] \in Nat /\ now \in Nat /\ peer[e][s] <= now + 1  BY DEF IInv, Delivered, TypeOK, Stamps
    <3>2. \A e, s \in Devices : peer'[e][s] = 0 \/ peer'[e][s] = peer[e][s]  BY <1>2, Zenon
    <3>. QED  BY <1>1, <3>1, <3>2
  <2>2. ASSUME ~overtaken, NEW k \in Keys, NEW e \in Devices, top[k] # NoVersion, e # top[k].by, top[k].ver < peer'[e][top[k].by]
        PROVE  base[e][k] = top[k].ver
    <3>1. top[k].by \in Devices /\ top[k].ver >= 1 /\ top[k] \in Version  BY <2>2, TopFacts, Zenon
    <3>2. ~(e = d /\ top[k].by = b)  BY <1>2, <2>2, <3>1 DEF Version
    <3>. QED  BY <1>2, <2>2, <3>1, <3>2, Zenon DEF IInv, Delivered
  <2>. QED  BY <1>1, <2>1, <2>2, Zenon DEF Delivered
<1>8. Erased'
  <2>1. ASSUME ~overtaken, NEW e \in Devices, e # d, removing'[e] # Here PROVE peer'[e][removing'[e]] = 0
    BY <1>2, <1>3, <2>1 DEF IInv, Erased
  <2>. QED  BY <1>1, <1>2, <1>3, <2>1, Zenon DEF Erased
<1>. QED  BY <1>4, <1>5, <1>7, <1>8, Zenon DEF IInv

LEMMA RemoveStep ==
    ASSUME IInv, NEW d \in Devices, NEW b \in Devices, d # b, RemoveDeviceDataNormally(d, b)
    PROVE  IInv'
<1> USE Constants
<1>1. UNCHANGED <<now, mark, peer, packet, top, written, overtaken>>  BY Zenon DEF RemoveDeviceDataNormally
<1>2. /\ removing' \in [Devices -> Devices \union {Here}] /\ removing'[d] = Here
      /\ \A e \in Devices : e # d => removing'[e] = removing[e]
      /\ ~overtaken => peer[d][b] = 0
  BY Zenon DEF RemoveDeviceDataNormally, IInv, TypeOK, Erased
<1>3. /\ rows' \in [Devices -> [Keys -> Row]]
      /\ \A k \in Keys : rows'[d][k] = IF OfDevice(rows[d][k], b) THEN NoRow ELSE rows[d][k]
      /\ \A e \in Devices, k \in Keys : e # d => rows'[e][k] = rows[e][k]
  <2>1. rows \in [Devices -> [Keys -> Row]]  BY Zenon DEF IInv, TypeOK
  <2>. QED  BY <2>1, NoRowFacts, Zenon DEF RemoveDeviceDataNormally
<1>4. /\ base' \in [Devices -> [Keys -> Nat]]
      /\ \A k \in Keys : base'[d][k] = IF OfDevice(rows[d][k], b) THEN 0 ELSE base[d][k]
      /\ \A e \in Devices, k \in Keys : e # d => base'[e][k] = base[e][k]
  <2>1. base \in [Devices -> [Keys -> Nat]]  BY Zenon DEF IInv, TypeOK
  <2>. QED  BY <2>1, Zenon DEF RemoveDeviceDataNormally
<1>5. \A e \in Devices, k \in Keys : \/ rows'[e][k] = rows[e][k] /\ base'[e][k] = base[e][k]
                                     \/ rows'[e][k] = NoRow /\ base'[e][k] = 0 /\ e = d /\ OfDevice(rows[d][k], b)
  BY <1>3, <1>4
<1>6. \A e \in Devices, k \in Keys : rows[e][k].local \/ rows'[e][k].local => rows'[e][k] = rows[e][k] /\ base'[e][k] = base[e][k]
  BY <1>5, NoRowFacts DEF OfDevice
<1>7. TypeOK'  BY <1>1, <1>2, <1>3, <1>4, Zenon DEF IInv, TypeOK
<1>8. Spaced'  BY <1>1, Zenon DEF IInv, Spaced
<1>9. Rows'
  <2> SUFFICES ASSUME NEW e \in Devices, NEW k \in Keys PROVE RowOK(e, k, rows[e][k], base[e][k])'
    BY Zenon DEF Rows
  <2>1. RowOK(e, k, rows[e][k], base[e][k])  BY Zenon DEF IInv, Rows
  <2>. QED  BY <1>1, <1>5, <2>1, NoRowFacts, Zenon DEF RowOK
<1>10. Latest'
  <2>1. \A k \in Keys : top[k] # NoVersion => top[k].by \in Devices  BY TopFacts, Zenon
  <2>. QED  BY <1>1, <1>6, <2>1 DEF IInv, Latest
<1>11. PacketsOK'
  <2> SUFFICES ASSUME NEW s \in Devices, NEW e \in Devices, s # e PROVE PacketOK(s, e, packet[s][e])'
    BY Zenon DEF PacketsOK
  <2>1. PacketOK(s, e, packet[s][e])  BY Zenon DEF IInv, PacketsOK
  <2>2. \A k \in Keys : rows'[e][k].dev = s => rows'[e][k] = rows[e][k] /\ base'[e][k] = base[e][k]
    BY <1>5, NoRowFacts, Zenon
  <2>. QED  BY <1>1, <2>1, <2>2, Zenon DEF PacketOK, ItemOK
<1>12. Delivered'
  <2>1. \A e, s \in Devices : peer'[e][s] <= now' + 1  BY <1>1, Zenon DEF IInv, Delivered
  <2>2. ASSUME ~overtaken, NEW k \in Keys, NEW e \in Devices, top[k] # NoVersion, e # top[k].by, top[k].ver < peer[e][top[k].by]
        PROVE  base'[e][k] = top[k].ver
    <3>1. top[k].by \in Devices /\ top[k].ver >= 1 /\ top[k] \in Version  BY <2>2, TopFacts, Zenon
    <3>2. ~(e = d /\ top[k].by = b)  BY <1>2, <2>2, <3>1 DEF Version
    <3>3. base[e][k] = top[k].ver  BY <2>2, Zenon DEF IInv, Delivered
    <3>4. ASSUME e = d, OfDevice(rows[d][k], b) PROVE FALSE
      <4> DEFINE r == Rec(k, base[d][k], WriterOf(d, rows[d][k]), ValueOf(rows[d][k]))
                 q == [key |-> k, version |-> top[k]]
      <4>1. Exists(rows[d][k])  BY <3>4, NoRowFacts, Zenon DEF IInv, Rows, RowOK, OfDevice
      <4>2. r \in written /\ q \in written  BY <2>2, <4>1, Zenon DEF IInv, Rows, RowOK, Latest
      <4>3. r.version.ver = base[d][k] /\ r.version.by = b /\ q.version.ver = top[k].ver /\ q.version.by = top[k].by
        BY <3>4, Zenon DEF Rec, WriterOf, OfDevice
      <4> HIDE DEF r, q
      <4>4. r = q  BY <3>1, <3>3, <3>4, <4>2, <4>3 DEF IInv, Spaced, Version
      <4>. QED  BY <3>2, <3>4, <4>3, <4>4, Zenon
    <3>. QED  BY <1>5, <3>3, <3>4, Zenon
  <2>. QED  BY <1>1, <2>1, <2>2, Zenon DEF Delivered
<1>13. Erased'  BY <1>1, <1>2, Zenon DEF IInv, Erased
<1>. QED  BY <1>7, <1>8, <1>9, <1>10, <1>11, <1>12, <1>13, Zenon DEF IInv

LEMMA RecvStep ==
    ASSUME IInv, NEW s \in Devices, NEW d \in Devices, s # d, DataRequestRecv(s, d)
    PROVE  IInv'
<1> USE Constants
<1> DEFINE p == packet[s][d]
           New(k) == NewRow(s, d, k)
           Ver(k) == NewVer(s, d, k)
<1>1. /\ ~Refused(p, s, d) /\ FewForced(p, s, d)
      /\ rows' = [rows EXCEPT ![d] = [k \in Keys |-> New(k)]]
      /\ base' = [base EXCEPT ![d] = [k \in Keys |-> Ver(k)]]
      /\ peer' = [peer EXCEPT ![d] = [peer[d] EXCEPT ![s] = p.end + 1]] \/ peer' = peer
      /\ packet' = [packet EXCEPT ![s] = [packet[s] EXCEPT ![d] = NoPacket]]
      /\ overtaken' = (overtaken \/ removing[d] = s)
      /\ UNCHANGED <<now, mark, removing, top, written>>
  BY Zenon DEF DataRequestRecv, Ended, NewRow, NewVer
<1>2. \A k \in Keys :
        /\ New(k) \in Row /\ Ver(k) \in Nat /\ RowOK(d, k, New(k), Ver(k))
        /\ (New(k) = rows[d][k] /\ Ver(k) = base[d][k]) \/ (Exists(p.rows[k]) /\ Exists(New(k)) /\ New(k).dev = s /\ ~New(k).local)
        /\ Exists(p.rows[k]) => Ver(k) = IF p.rows[k].w > base[d][k] THEN p.rows[k].w ELSE base[d][k]
        /\ ~Exists(p.rows[k]) => Ver(k) = base[d][k] /\ New(k) = rows[d][k]
        /\ ~(Exists(p.rows[k]) /\ p.rows[k].w > base[d][k]) => New(k).dev = rows[d][k].dev
  <2> TAKE k \in Keys
  <2>1. KeptLater(s, d, k, p.rows[k], rows[d][k], base[d][k], New(k), Ver(k))  BY <1>1, KeySaved, Zenon
  <2> HIDE DEF New, Ver, p
  <2>. QED  BY <2>1, Zenon DEF KeptLater
<1>3. p \in Packets /\ PacketOK(s, d, p) /\ p.end \in Nat /\ p.mark \in Nat /\ now \in Nat /\ p.end <= now
  <2>1. p \in Packets /\ PacketOK(s, d, p)  BY DEF IInv, TypeOK, PacketsOK
  <2>. QED  BY <2>1, Zenon DEF IInv, TypeOK, Packets, Stamps, PacketOK
<1> HIDE DEF New, Ver, p
<1>4. /\ rows' \in [Devices -> [Keys -> Row]] /\ \A k \in Keys : rows'[d][k] = New(k)
      /\ \A e \in Devices, k \in Keys : e # d => rows'[e][k] = rows[e][k]
  <2>1. rows \in [Devices -> [Keys -> Row]]  BY Zenon DEF IInv, TypeOK
  <2>. QED  BY <1>1, <1>2, <2>1, Zenon
<1>5. /\ base' \in [Devices -> [Keys -> Nat]] /\ \A k \in Keys : base'[d][k] = Ver(k)
      /\ \A e \in Devices, k \in Keys : e # d => base'[e][k] = base[e][k]
  <2>1. base \in [Devices -> [Keys -> Nat]]  BY Zenon DEF IInv, TypeOK
  <2>. QED  BY <1>1, <1>2, <2>1, Zenon
<1>6. /\ peer' \in [Devices -> [Devices -> Stamps]]
      /\ peer'[d][s] = p.end + 1 \/ peer'[d][s] = peer[d][s]
      /\ \A a, e \in Devices : a # d \/ e # s => peer'[a][e] = peer[a][e]
  <2>1. peer \in [Devices -> [Devices -> Stamps]] /\ p.end + 1 \in Stamps  BY <1>3 DEF IInv, TypeOK, Stamps
  <2>2. CASE peer' = [peer EXCEPT ![d] = [peer[d] EXCEPT ![s] = p.end + 1]]  BY <2>1, <2>2, Replaced
  <2>3. CASE peer' = peer  BY <2>1, <2>3, Zenon
  <2>. QED  BY <1>1, <2>2, <2>3, Zenon
<1>7. /\ packet' \in [Devices -> [Devices -> Packets]] /\ packet'[s][d] = NoPacket
      /\ \A a, e \in Devices : a # s \/ e # d => packet'[a][e] = packet[a][e]
  <2>1. packet \in [Devices -> [Devices -> Packets]]  BY Zenon DEF IInv, TypeOK
  <2>. QED  BY <1>1, <2>1, NoPacketFacts, Replaced
<1>8. \A k \in Keys : Exists(p.rows[k]) => p.rows[k].w \in Nat /\ p.rows[k].w <= top[k].ver
  <2> SUFFICES ASSUME NEW k \in Keys, Exists(p.rows[k]) PROVE p.rows[k].w \in Nat /\ p.rows[k].w <= top[k].ver
    OBVIOUS
  <2> DEFINE r == Rec(k, p.rows[k].w, s, ValueOf(p.rows[k]))
  <2>1. r \in written /\ p.rows[k] \in Row  BY <1>3, Zenon DEF PacketOK, ItemOK, Packets
  <2>2. r.key = k /\ r.version.ver = p.rows[k].w  BY Zenon DEF Rec
  <2> HIDE DEF r
  <2>. QED  BY <2>1, <2>2, Zenon DEF IInv, Latest, Row, Stamps
\* Nothing changes for a key whose latest version the device has.
<1>9. ASSUME NEW k \in Keys, base[d][k] = top[k].ver
      PROVE  Ver(k) = base[d][k] /\ New(k).dev = rows[d][k].dev
  <2>1. base[d][k] \in Nat  BY TopFacts, Zenon
  <2>2. ~(Exists(p.rows[k]) /\ p.rows[k].w > base[d][k])  BY <1>8, <1>9, <2>1
  <2>. QED  BY <1>2, <2>2, Zenon
<1>10. TypeOK'  BY <1>1, <1>4, <1>5, <1>6, <1>7, Zenon DEF IInv, TypeOK
<1>11. Spaced'  BY <1>1, Zenon DEF IInv, Spaced
<1>12. Rows'
  <2> SUFFICES ASSUME NEW e \in Devices, NEW k \in Keys PROVE RowOK(e, k, rows[e][k], base[e][k])'
    BY Zenon DEF Rows
  <2>1. RowOK(e, k, rows'[e][k], base'[e][k])
    <3>1. CASE e = d  BY <1>2, <1>4, <1>5, <3>1, Zenon
    <3>2. CASE e # d  BY <1>4, <1>5, <3>2, Zenon DEF IInv, Rows
    <3>. QED  BY <3>1, <3>2, Zenon
  <2>. QED  BY <1>1, <2>1, Zenon DEF RowOK
<1>13. Latest'
  <2>1. ASSUME NEW k \in Keys, top[k] # NoVersion PROVE rows'[top[k].by][k].local /\ base'[top[k].by][k] = top[k].ver
    <3>1. rows[top[k].by][k].local /\ base[top[k].by][k] = top[k].ver /\ top[k].by \in Devices /\ top[k].ver >= 1
      BY <2>1, TopFacts, Zenon DEF IInv, Latest
    <3>2. CASE top[k].by # d  BY <1>4, <1>5, <3>1, <3>2, Zenon
    <3>3. CASE top[k].by = d
      <4>1. Ver(k) = top[k].ver /\ New(k).dev = rows[d][k].dev  BY <1>9, <3>1, <3>3, Zenon
      <4>2. rows[d][k].dev = Here  BY <3>1, <3>3, NoRowFacts, Zenon DEF IInv, Rows, RowOK
      <4>3. New(k) = rows[d][k]  BY <1>2, <4>1, <4>2, Zenon
      <4>. QED  BY <1>4, <1>5, <3>1, <3>3, <4>1, <4>3, Zenon
    <3>. QED  BY <3>2, <3>3, Zenon
  <2>2. ASSUME NEW e \in Devices, NEW k \in Keys, rows'[e][k].local PROVE rows'[e][k] = rows[e][k] /\ base'[e][k] = base[e][k]
    BY <1>2, <1>4, <1>5, <2>2
  <2>. QED  BY <1>1, <2>1, <2>2 DEF IInv, Latest
<1>14. PacketsOK'
  <2> SUFFICES ASSUME NEW a \in Devices, NEW e \in Devices, a # e PROVE PacketOK(a, e, packet[a][e])'
    BY Zenon DEF PacketsOK
  <2>1. CASE a = s /\ e = d
    <3>1. PacketOK(s, d, NoPacket)  BY NoPacketOK, Zenon
    <3>2. \A k \in Keys : ~Exists(NoPacket.rows[k])  BY NoPacketFacts, NoRowFacts, Zenon
    <3>. QED  BY <1>1, <1>7, <2>1, <3>1, <3>2, Zenon DEF PacketOK, ItemOK
  <2>2. CASE a # s \/ e # d
    <3>1. PacketOK(a, e, packet[a][e])  BY Zenon DEF IInv, PacketsOK
    <3>2. packet'[a][e] = packet[a][e]  BY <1>7, <2>2, Zenon
    <3>3. \A k \in Keys : rows'[e][k].dev = a => rows'[e][k] = rows[e][k] /\ base'[e][k] = base[e][k]
      <4> SUFFICES ASSUME NEW k \in Keys, rows'[e][k].dev = a PROVE rows'[e][k] = rows[e][k] /\ base'[e][k] = base[e][k]
        BY Zenon
      <4>1. CASE e # d  BY <1>4, <1>5, <4>1, Zenon
      <4>2. CASE e = d
        <5>1. rows'[e][k] = New(k) /\ base'[e][k] = Ver(k)  BY <1>4, <1>5, <4>2, Zenon
        <5>2. (New(k) = rows[d][k] /\ Ver(k) = base[d][k]) \/ New(k).dev = s  BY <1>2, Zenon
        <5>. QED  BY <2>2, <4>2, <5>1, <5>2, Zenon
      <4>. QED  BY <4>1, <4>2, Zenon
    <3>4. ASSUME NEW k \in Keys PROVE ItemOK(a, e, k, packet[a][e].rows[k])'
      <4>1. ItemOK(a, e, k, packet[a][e].rows[k]) /\ written' = written /\ packet'[a][e] = packet[a][e]
        BY <1>1, <3>1, <3>2, Zenon DEF PacketOK
      <4>. QED  BY <3>3, <4>1, Zenon DEF ItemOK
    <3>. QED  BY <1>1, <3>1, <3>2, <3>4, Zenon DEF PacketOK
  <2>. QED  BY <2>1, <2>2, Zenon
<1>15. Delivered'
  <2>1. \A a, e \in Devices : peer[a][e] \in Nat /\ peer[a][e] <= now + 1
    <3>1. TypeOK /\ Delivered  BY Zenon DEF IInv
    <3>2. peer \in [Devices -> [Devices -> Nat]]  BY <3>1, Zenon DEF TypeOK, Stamps
    <3>3. \A a, e \in Devices : peer[a][e] <= now + 1  BY <3>1, Zenon DEF Delivered
    <3>. QED  BY <3>2, <3>3, Zenon
  <2>2. \A a, e \in Devices : peer'[a][e] <= now' + 1  BY <1>1, <1>3, <1>6, <2>1
  <2>3. ASSUME ~overtaken, NEW k \in Keys, NEW e \in Devices, top[k] # NoVersion, e # top[k].by, top[k].ver < peer'[e][top[k].by]
        PROVE  base'[e][k] = top[k].ver
    <3>1. top[k].by \in Devices /\ top[k] \in Version /\ top[k].ver \in Nat  BY <2>3, TopFacts, Zenon DEF Version
    <3>2. CASE e # d
      <4>1. peer'[e][top[k].by] = peer[e][top[k].by] /\ base'[e][k] = base[e][k]  BY <1>5, <1>6, <3>1, <3>2, Zenon
      <4>. QED  BY <2>3, <4>1, Zenon DEF IInv, Delivered
    <3>3. CASE e = d /\ top[k].ver < peer[d][top[k].by]
      <4>1. base[d][k] = top[k].ver  BY <2>3, <3>3, Zenon DEF IInv, Delivered
      <4>. QED  BY <1>5, <1>9, <3>3, <4>1, Zenon
    <3>4. CASE e = d /\ ~(top[k].ver < peer[d][top[k].by])
      <4>1. top[k].by = s /\ top[k].ver <= p.end  BY <1>3, <1>6, <2>1, <2>3, <3>1, <3>4
      <4>2. p.mark <= peer[d][s]  BY <1>1, <1>3, <2>1 DEF Refused
      <4>3. p.mark <= top[k].ver  BY <1>3, <2>1, <3>1, <3>4, <4>1, <4>2
      <4>4. Exists(p.rows[k]) /\ p.rows[k].w = top[k].ver  BY <1>3, <4>1, <4>3, Zenon DEF PacketOK
      <4>5. base[d][k] \in Nat /\ base[d][k] <= top[k].ver  BY TopFacts, Zenon
      <4>6. Ver(k) = top[k].ver  BY <1>2, <3>1, <4>4, <4>5
      <4>. QED  BY <1>5, <3>4, <4>6, Zenon
    <3>. QED  BY <3>2, <3>3, <3>4, Zenon
  <2>. QED  BY <1>1, <2>2, <2>3, Zenon DEF Delivered
<1>16. Erased'
  <2> SUFFICES ASSUME ~overtaken, removing[d] # s, NEW e \in Devices, removing[e] # Here PROVE peer'[e][removing[e]] = 0
    BY <1>1, Zenon DEF Erased
  <2>1. removing[e] \in Devices  BY Zenon DEF IInv, TypeOK
  <2>2. peer'[e][removing[e]] = peer[e][removing[e]]  BY <1>6, <2>1
  <2>. QED  BY <2>2, Zenon DEF IInv, Erased
<1>. QED  BY <1>10, <1>11, <1>12, <1>13, <1>14, <1>15, <1>16, Zenon DEF IInv

-----------------------------------------------------------------------------
(* Theorems. *)

LEMMA IInvStep == IInv /\ [Next]_vars => IInv'
<1> SUFFICES ASSUME IInv, [Next]_vars PROVE IInv'
  OBVIOUS
<1>1. ASSUME NEW d \in Devices, NEW k \in Keys, Write(d, k, "live") \/ Write(d, k, "deleted") PROVE IInv'
  BY <1>1, WriteStep, Zenon
<1>2. ASSUME NEW d \in Devices, NEW s \in Devices \ {d}, Sync(s, d) \/ Lose(s, d) \/ EraseDeviceWaterMark(d, s)
        \/ RemoveDeviceDataNormally(d, s) PROVE IInv'
  BY <1>2, SendStep, QuietStep, RecvStep, EraseStep, RemoveStep, Zenon DEF Sync
<1>3. CASE UNCHANGED vars
  <2>1. UNCHANGED <<now, rows, mark, peer, packet, removing, base, top, written, overtaken>>  BY <1>3, Zenon DEF vars, syncVars, histVars
  <2>2. Spaced' /\ Rows' /\ Latest' /\ PacketsOK'  BY <2>1, SameTables, Zenon
  <2>3. TypeOK'  BY <2>1, Zenon DEF IInv, TypeOK
  <2>4. Delivered' /\ Erased'  BY <2>1, Zenon DEF IInv, Delivered, Erased
  <2>. QED  BY <2>2, <2>3, <2>4, Zenon DEF IInv
<1>. QED  BY <1>1, <1>2, <1>3, Zenon DEF Next

(* The inductive invariant of replication: rows carry versions, packets are in order,
   and the latest version is wherever the water marks say it is. *)
THEOREM ReplicationInvariant == Spec => []IInv
  BY IInvInit, IInvStep, PTL DEF Spec

\* A device that has the latest version shows its value.
LEMMA SyncedAgree ==
    ASSUME IInv
    PROVE  Agreement
<1> USE Constants
<1> SUFFICES ASSUME NEW k \in Keys, Synced(k), ~overtaken, NEW d \in Devices PROVE ValueOf(rows[d][k]) = top[k].value
  BY Zenon DEF Agreement
<1> DEFINE row == rows[d][k]  v == base[d][k]  x == top[k]
           r == Rec(k, v, WriterOf(d, row), ValueOf(row))
           q == [key |-> k, version |-> x]
<1>1. r.version.ver = v /\ r.version.value = ValueOf(row) /\ q.version = x  BY Zenon DEF Rec
<1>2. RowOK(d, k, row, v)  BY Zenon DEF IInv, Rows
<1>3. v \in Nat /\ v <= x.ver /\ x \in Version /\ (x # NoVersion => x.ver >= 1 /\ x.by \in Devices)  BY TopFacts, Zenon
<1>4. Exists(row) => r \in written  BY <1>2, Zenon DEF RowOK
<1>5. ~Exists(row) => row = NoRow /\ v = 0  BY <1>2, Zenon DEF RowOK
<1>6. x # NoVersion => q \in written /\ rows[x.by][k].local /\ base[x.by][k] = x.ver  BY Zenon DEF IInv, Latest
<1>7. x # NoVersion => rows[x.by][k].ts = x.ver
  <2> HAVE x # NoVersion
  <2> DEFINE row2 == rows[x.by][k]
  <2>1. RowOK(x.by, k, row2, x.ver) /\ row2.local  BY <1>3, <1>6, Zenon DEF IInv, Rows
  <2> HIDE DEF row2
  <2>2. Exists(row2)  BY <2>1, NoRowFacts, Zenon DEF RowOK
  <2>3. row2.ts = x.ver  BY <2>1, <2>2, Zenon DEF RowOK
  <2>. QED  BY <2>3, Zenon DEF row2
<1>8. x # NoVersion => v = x.ver
  <2> HAVE x # NoVersion
  <2>1. CASE d = x.by  BY <1>6, <2>1, Zenon
  <2>2. CASE d # x.by
    <3>1. x.ver < peer[d][x.by]  BY <1>3, <1>6, <1>7, <2>2, Zenon DEF Synced
    <3>. QED  BY <2>2, <3>1, Zenon DEF IInv, Delivered
  <2>. QED  BY <2>1, <2>2, Zenon
<1> HIDE DEF row, v, x, r, q
<1>9. ValueOf(row) = x.value
  <2>1. CASE x = NoVersion
    <3>1. x.ver = 0 /\ x.value = 0  BY <2>1, Zenon DEF NoVersion
    <3>2. Exists(row) => v >= 1  BY <1>1, <1>4, Zenon DEF IInv, Spaced
    <3>3. row = NoRow  BY <1>3, <1>5, <3>1, <3>2
    <3>. QED  BY <3>1, <3>3, Zenon DEF NoRow, ValueOf, Live
  <2>2. CASE x # NoVersion
    <3>1. v = x.ver /\ v >= 1 /\ q \in written  BY <1>3, <1>6, <1>8, <2>2, Zenon
    <3>2. r \in written  BY <1>4, <1>5, <3>1
    <3>3. r = q  BY <1>1, <1>3, <3>1, <3>2, Constants DEF IInv, Spaced
    <3>. QED  BY <1>1, <3>3, Zenon
  <2>. QED  BY <2>1, <2>2, Zenon
<1>. QED  BY <1>9, Zenon DEF row, x

(* When every peer water mark is past every row of a key, all devices show the same
   value for it (Agreement), for any number of devices, if nothing was saved between
   the two steps of RemoveDeviceData. *)
THEOREM AgreementTheorem == Spec => []Agreement
  BY ReplicationInvariant, SyncedAgree, PTL

-----------------------------------------------------------------------------
(* Refinement. *)
Shown(d, v, row) == [ver |-> v, value |-> ValueOf(row), by |-> IF v = 0 THEN Here ELSE WriterOf(d, row)]

LEMMA ViewIs == View = [d \in Devices |-> [k \in Keys |-> Shown(d, base[d][k], rows[d][k])]]
  BY Zenon DEF View, Shown, WriterOf

LEMMA NothingShown == \A d : Shown(d, 0, NoRow) = LWW!NoVersion
  BY Zenon DEF Shown, LWW!NoVersion, NoRow, ValueOf, Live

LEMMA InitRefines == Init => LWW!Init
<1> SUFFICES ASSUME Init PROVE LWW!Init
  OBVIOUS
<1>1. \A d \in Devices, k \in Keys : Shown(d, base[d][k], rows[d][k]) = LWW!NoVersion
  BY NothingShown, Zenon DEF Init, NoRows
<1>. QED  BY <1>1, ViewIs, Zenon DEF LWW!Init, Init

LEMMA WriteRefines ==
    ASSUME IInv, NEW d \in Devices, NEW k \in Keys, NEW status \in {"live", "deleted"}, Write(d, k, status)
    PROVE  LWW!Write(d, k)
<1> USE Constants
<1>1. PICK n \in Steps :
        LET t == now + n  new == SavedEntry(status, t, rows[d][k])
            version == [ver |-> t, by |-> d, value |-> ValueOf(new)] IN
        /\ t <= MaxNow
        /\ status = "deleted" => Live(rows[d][k])
        /\ rows' = [rows EXCEPT ![d] = [rows[d] EXCEPT ![k] = new]]
        /\ base' = [base EXCEPT ![d] = [base[d] EXCEPT ![k] = t]]
        /\ written' = written \union {[key |-> k, version |-> version]}
  BY Zenon DEF Write, SavedEntry
<1> DEFINE t == now + n
           row == rows[d][k]
           new == SavedEntry(status, t, row)
           version == [ver |-> t, by |-> d, value |-> ValueOf(new)]
<1>2. now \in Nat /\ MaxNow \in Nat /\ t \in 1..MaxNow /\ t \in Nat /\ t >= now + Gap /\ t > now
  <2>1. t <= MaxNow  BY <1>1, Zenon
  <2>2. now \in Nat  BY Zenon DEF IInv, TypeOK, Stamps
  <2>3. n \in Nat /\ n >= Gap /\ MaxNow \in Nat  BY ReplicationAssumption, Zenon DEF ReplicationAssumption
  <2>. QED  BY <2>1, <2>2, <2>3
<1>3. row \in Row /\ ~(Exists(row) /\ row.w >= t) /\ (status = "deleted" => Live(row))
  <2>1. row \in Row /\ base[d][k] \in Nat /\ row.w \in Nat
    <3>1. row \in Row /\ base[d][k] \in Nat  BY DEF IInv, TypeOK
    <3>. QED  BY <3>1, Zenon DEF Row, Stamps
  <2>2. Exists(row) => row.w < base[d][k] + Gap  BY Zenon DEF IInv, Rows, RowOK
  <2>3. base[d][k] <= now
    <3>1. base[d][k] <= top[k].ver /\ top[k] \in Version /\ (top[k] # NoVersion => top[k].ver <= now)  BY TopFacts, Zenon
    <3>2. top[k].ver \in Nat  BY <3>1, Zenon DEF Version
    <3>3. top[k].ver <= now
      <4>1. CASE top[k] # NoVersion  BY <3>1, <4>1, Zenon
      <4>2. CASE top[k] = NoVersion
        <5>1. top[k].ver = 0  BY <4>2 DEF NoVersion
        <5>. QED  BY <1>2, <5>1
      <4>. QED  BY <4>1, <4>2, Zenon
    <3>4. base[d][k] <= top[k].ver /\ base[d][k] \in Nat  BY <2>1, <3>1, Zenon
    <3>. QED  BY <1>2, <3>2, <3>3, <3>4
  <2>. QED  BY <1>1, <1>2, <2>1, <2>2, <2>3
<1>4. /\ rows' = [rows EXCEPT ![d] = [rows[d] EXCEPT ![k] = new]]
      /\ base' = [base EXCEPT ![d] = [base[d] EXCEPT ![k] = t]]
      /\ written' = written \union {[key |-> k, version |-> version]}
  BY <1>1, Zenon
<1> HIDE DEF t, row
<1>5. new.dev = Here /\ ValueOf(new) \in 0..t  BY <1>2, <1>3, EntrySaved, Zenon
<1> HIDE DEF new
<1>6. ValueOf(new) \in 0..MaxNow  BY <1>2, <1>5
<1>7. \A r \in written : r.version.ver < t
  <2>1. \A r \in written : r.version.ver \in Nat /\ r.version.ver <= now
    <3>1. TypeOK /\ Spaced  BY Zenon DEF IInv
    <3>2. \A r \in written : r \in [key : Keys, version : Version]  BY <3>1, Zenon DEF TypeOK
    <3>3. \A r \in written : r.version.ver <= now  BY <3>1, Zenon DEF Spaced
    <3>. QED  BY <3>2, <3>3, Zenon DEF Version
  <2>. QED  BY <1>2, <2>1
<1>8. View' = [View EXCEPT ![d] = [View[d] EXCEPT ![k] = version]]
  <2>1. View' = [e \in Devices |-> [j \in Keys |-> Shown(e, base'[e][j], rows'[e][j])]]
    BY Zenon DEF View, Shown, WriterOf
  <2>2. /\ \A e \in Devices, j \in Keys : e # d \/ j # k => rows'[e][j] = rows[e][j] /\ base'[e][j] = base[e][j]
        /\ rows'[d][k] = new /\ base'[d][k] = t
    BY <1>4, Zenon DEF IInv, TypeOK
  <2>3. Shown(d, t, new) = version  BY <1>2, <1>5 DEF Shown, WriterOf
  <2> HIDE DEF version
  <2>4. \A e \in Devices, j \in Keys :
          Shown(e, base'[e][j], rows'[e][j]) = IF e = d /\ j = k THEN version ELSE View[e][j]
    BY <2>2, <2>3, ViewIs, Zenon
  <2>5. [View EXCEPT ![d] = [View[d] EXCEPT ![k] = version]] =
          [e \in Devices |-> [j \in Keys |-> IF e = d /\ j = k THEN version ELSE View[e][j]]]
    BY ViewIs, Zenon
  <2>. QED  BY <2>1, <2>4, <2>5
<1>9. [key |-> k, version |-> version] = LWW!Record(k, version)  BY Zenon DEF LWW!Record
<1>. QED  BY <1>2, <1>4, <1>6, <1>7, <1>8, <1>9, Zenon DEF LWW!Write

LEMMA RecvRefines ==
    ASSUME IInv, NEW s \in Devices, NEW d \in Devices, s # d, DataRequestRecv(s, d)
    PROVE  LWW!Merge(d)
<1> USE Constants
<1> DEFINE item(k) == packet[s][d].rows[k]
           sent(k) == [ver |-> item(k).w, by |-> s, value |-> ValueOf(item(k))]
           heard == [k \in Keys |-> IF Exists(item(k)) THEN sent(k) ELSE LWW!NoVersion]
<1>1. /\ FewForced(packet[s][d], s, d) /\ written' = written
      /\ rows' = [rows EXCEPT ![d] = [k \in Keys |-> NewRow(s, d, k)]]
      /\ base' = [base EXCEPT ![d] = [k \in Keys |-> NewVer(s, d, k)]]
  BY Zenon DEF DataRequestRecv, NewRow, NewVer
<1>2. \A k \in Keys : Exists(item(k)) => LWW!Record(k, sent(k)) \in written /\ sent(k) \in {r.version : r \in written}
  <2> SUFFICES ASSUME NEW k \in Keys, Exists(item(k))
               PROVE  LWW!Record(k, sent(k)) \in written /\ sent(k) \in {r.version : r \in written}
    BY Zenon
  <2>1. Rec(k, item(k).w, s, ValueOf(item(k))) \in written  BY Zenon DEF IInv, PacketsOK, PacketOK, ItemOK
  <2>2. LWW!Record(k, sent(k)) = Rec(k, item(k).w, s, ValueOf(item(k)))  BY Zenon DEF Rec, LWW!Record
  <2>3. LWW!Record(k, sent(k)).version = sent(k)  BY Zenon DEF LWW!Record
  <2>. QED  BY <2>1, <2>2, <2>3, Zenon
<1>3. heard \in [Keys -> {LWW!NoVersion} \union {r.version : r \in written}]  BY <1>2, Zenon
<1>4. \A k \in Keys : heard[k] = LWW!NoVersion \/ (LWW!Record(k, heard[k]) \in written /\ heard[k].by # d)  BY <1>2, Zenon
<1>5. \A k \in Keys : Shown(d, NewVer(s, d, k), NewRow(s, d, k)) = LWW!Later(Shown(d, base[d][k], rows[d][k]), heard[k])
  <2> TAKE k \in Keys
  <2> DEFINE i == item(k)  new == NewRow(s, d, k)  v2 == NewVer(s, d, k)  row == rows[d][k]  v == base[d][k]
  <2>1. /\ Exists(i) => v2 = IF i.w > v THEN i.w ELSE v
        /\ ~Exists(i) => v2 = v /\ new = row
        /\ Exists(i) /\ i.w > v => ValueOf(new) = ValueOf(i) /\ new.dev = s
        /\ ~(Exists(i) /\ i.w > v) => ValueOf(new) = ValueOf(row) /\ new.dev = row.dev
    <3>1. KeptLater(s, d, k, i, row, v, new, v2)  BY <1>1, KeySaved, Zenon
    <3> HIDE DEF i, row, v, new, v2
    <3>. QED  BY <3>1, Zenon DEF KeptLater
  <2>2. v \in Nat /\ i.w \in Nat
    <3>1. v \in Nat /\ packet[s][d] \in Packets  BY DEF IInv, TypeOK
    <3>2. i \in Row  BY <3>1, Zenon DEF Packets
    <3>. QED  BY <3>1, <3>2, Zenon DEF Row, Stamps
  <2>3. heard[k] = IF Exists(i) THEN [ver |-> i.w, by |-> s, value |-> ValueOf(i)] ELSE LWW!NoVersion  OBVIOUS
  <2>4. Shown(d, v, row).ver = v /\ LWW!NoVersion.ver = 0  BY Zenon DEF Shown, LWW!NoVersion
  <2> HIDE DEF i, new, v2, row, v, heard
  <2>5. CASE Exists(i) /\ i.w > v
    <3>1. v2 = i.w /\ ValueOf(new) = ValueOf(i) /\ new.dev = s /\ v2 # 0  BY <2>1, <2>2, <2>5
    <3>2. Shown(d, v2, new) = heard[k]  BY <2>3, <2>5, <3>1, Zenon DEF Shown, WriterOf
    <3>3. heard[k].ver > Shown(d, v, row).ver  BY <2>3, <2>4, <2>5
    <3>4. Shown(d, v2, new) = LWW!Later(Shown(d, v, row), heard[k])  BY <3>2, <3>3, Zenon DEF LWW!Later
    <3>. QED  BY <3>4, Zenon DEF new, v2, row, v
  <2>6. CASE ~(Exists(i) /\ i.w > v)
    <3>1. v2 = v /\ ValueOf(new) = ValueOf(row) /\ new.dev = row.dev  BY <2>1, <2>6, Zenon
    <3>2. Shown(d, v2, new) = Shown(d, v, row)  BY <3>1, Zenon DEF Shown, WriterOf
    <3>3. ~(heard[k].ver > Shown(d, v, row).ver)  BY <2>2, <2>3, <2>4, <2>6
    <3>4. Shown(d, v2, new) = LWW!Later(Shown(d, v, row), heard[k])  BY <3>2, <3>3, Zenon DEF LWW!Later
    <3>. QED  BY <3>4, Zenon DEF new, v2, row, v
  <2>. QED  BY <2>5, <2>6, Zenon
<1> HIDE DEF heard
<1>6. View' = [View EXCEPT ![d] = [k \in Keys |-> LWW!Later(View[d][k], heard[k])]]
  <2>1. View' = [e \in Devices |-> [j \in Keys |-> Shown(e, base'[e][j], rows'[e][j])]]
    BY Zenon DEF View, Shown, WriterOf
  <2>2. /\ \A e \in Devices, j \in Keys : e # d => rows'[e][j] = rows[e][j] /\ base'[e][j] = base[e][j]
        /\ \A j \in Keys : rows'[d][j] = NewRow(s, d, j) /\ base'[d][j] = NewVer(s, d, j)
    BY <1>1, Zenon DEF IInv, TypeOK
  <2>3. \A e \in Devices, j \in Keys : View[e][j] = Shown(e, base[e][j], rows[e][j])  BY ViewIs, Zenon
  <2>4. \A e \in Devices, j \in Keys :
          Shown(e, base'[e][j], rows'[e][j]) = IF e = d THEN LWW!Later(View[d][j], heard[j]) ELSE View[e][j]
    BY <1>5, <2>2, <2>3, ZenonT(30)
  <2>5. [View EXCEPT ![d] = [k \in Keys |-> LWW!Later(View[d][k], heard[k])]] =
          [e \in Devices |-> [j \in Keys |-> IF e = d THEN LWW!Later(View[d][j], heard[j]) ELSE View[e][j]]]
    BY ViewIs, Zenon
  <2>. QED  BY <2>1, <2>4, <2>5
<1>. QED  BY <1>1, <1>3, <1>4, <1>6, Zenon DEF LWW!Merge

LEMMA RemoveRefines ==
    ASSUME IInv, NEW d \in Devices, NEW b \in Devices, d # b, RemoveDeviceDataNormally(d, b)
    PROVE  LWW!Forget(d, b)
<1> USE Constants
<1>1. /\ \A e \in Devices, j \in Keys : e # d => rows'[e][j] = rows[e][j] /\ base'[e][j] = base[e][j]
      /\ \A j \in Keys : rows'[d][j] = IF OfDevice(rows[d][j], b) THEN NoRow ELSE rows[d][j]
      /\ \A j \in Keys : base'[d][j] = IF OfDevice(rows[d][j], b) THEN 0 ELSE base[d][j]
      /\ written' = written
  BY Zenon DEF RemoveDeviceDataNormally, IInv, TypeOK
<1>2. \A e \in Devices, j \in Keys : View[e][j] = Shown(e, base[e][j], rows[e][j])  BY ViewIs, Zenon
<1>3. \A j \in Keys : OfDevice(rows[d][j], b) <=> View[d][j].by = b
  <2> TAKE j \in Keys
  <2> DEFINE r == Rec(j, base[d][j], WriterOf(d, rows[d][j]), ValueOf(rows[d][j]))
  <2>1. View[d][j].by = IF base[d][j] = 0 THEN Here ELSE WriterOf(d, rows[d][j])
    <3>1. View[d][j] = Shown(d, base[d][j], rows[d][j])  BY <1>2, Zenon
    <3>2. Shown(d, base[d][j], rows[d][j]).by = IF base[d][j] = 0 THEN Here ELSE WriterOf(d, rows[d][j])  BY Zenon DEF Shown
    <3>. QED  BY <3>1, <3>2, Zenon
  <2>2. RowOK(d, j, rows[d][j], base[d][j])  BY Zenon DEF IInv, Rows
  <2>3. ASSUME rows[d][j].dev = b PROVE base[d][j] # 0 /\ ~rows[d][j].local
    <3>1. Exists(rows[d][j])  BY <2>2, <2>3, NoRowFacts, Zenon DEF RowOK
    <3>2. r \in written /\ ~rows[d][j].local  BY <2>2, <2>3, <3>1, Zenon DEF RowOK
    <3>3. r.version.ver = base[d][j]  BY Zenon DEF Rec
    <3> HIDE DEF r
    <3>. QED  BY <3>2, <3>3 DEF IInv, Spaced
  <2>. QED  BY <2>1, <2>3, Zenon DEF OfDevice, WriterOf
<1>4. View' = [View EXCEPT ![d] = [k \in Keys |-> IF View[d][k].by = b THEN LWW!NoVersion ELSE View[d][k]]]
  <2>1. View' = [e \in Devices |-> [j \in Keys |-> Shown(e, base'[e][j], rows'[e][j])]]
    BY Zenon DEF View, Shown, WriterOf
  <2>2. \A e \in Devices, j \in Keys :
          Shown(e, base'[e][j], rows'[e][j]) = IF e = d /\ View[d][j].by = b THEN LWW!NoVersion ELSE View[e][j]
    <3> TAKE e \in Devices, j \in Keys
    <3>1. CASE e # d  BY <1>1, <1>2, <3>1, ZenonT(30)
    <3>2. CASE e = d /\ OfDevice(rows[d][j], b)
      <4>1. base'[d][j] = 0 /\ rows'[d][j] = NoRow  BY <1>1, <3>2, Zenon
      <4>. QED  BY <1>3, <3>2, <4>1, NothingShown, Zenon
    <3>3. CASE e = d /\ ~OfDevice(rows[d][j], b)
      <4>1. base'[d][j] = base[d][j] /\ rows'[d][j] = rows[d][j]  BY <1>1, <3>3, Zenon
      <4>. QED  BY <1>2, <1>3, <3>3, <4>1, Zenon
    <3>. QED  BY <3>1, <3>2, <3>3, Zenon
  <2>3. [View EXCEPT ![d] = [k \in Keys |-> IF View[d][k].by = b THEN LWW!NoVersion ELSE View[d][k]]] =
          [e \in Devices |-> [j \in Keys |-> IF e = d /\ View[d][j].by = b THEN LWW!NoVersion ELSE View[e][j]]]
    BY ViewIs, Zenon
  <2>. QED  BY <2>1, <2>2, <2>3
<1>. QED  BY <1>1, <1>4, Zenon DEF LWW!Forget

LEMMA NextRefines == IInv /\ [Next]_vars => [LWW!Next]_<<View, written>>
<1> SUFFICES ASSUME IInv, [Next]_vars PROVE LWW!Next \/ UNCHANGED <<View, written>>
  OBVIOUS
<1>1. UNCHANGED <<rows, base, written>> => UNCHANGED <<View, written>>  BY Zenon DEF View
<1>2. ASSUME NEW d \in Devices, NEW k \in Keys, Write(d, k, "live") \/ Write(d, k, "deleted") PROVE LWW!Next
  <2>1. LWW!Write(d, k)  BY <1>2, WriteRefines, Zenon
  <2>. QED  BY <2>1, Zenon DEF LWW!Next
<1>3. ASSUME NEW d \in Devices, NEW s \in Devices \ {d}, DataRequestRecv(s, d) PROVE LWW!Next
  <2>1. LWW!Merge(d)  BY <1>3, RecvRefines, Zenon
  <2>. QED  BY <2>1, Zenon DEF LWW!Next
<1>4. ASSUME NEW d \in Devices, NEW s \in Devices \ {d}, RemoveDeviceDataNormally(d, s) PROVE LWW!Next
  <2>1. LWW!Forget(d, s)  BY <1>4, RemoveRefines, Zenon
  <2>. QED  BY <2>1, Zenon DEF LWW!Next
<1>5. ASSUME NEW d \in Devices, NEW s \in Devices \ {d}, Send(s, d) \/ SendEmpty(s, d) \/ WaterMarkErrHandle(s, d) \/ Lose(s, d)
        \/ EraseDeviceWaterMark(d, s)
      PROVE  UNCHANGED <<rows, base, written>>
  BY <1>5, Zenon DEF Send, SendEmpty, WaterMarkErrHandle, Lose, EraseDeviceWaterMark, histVars
<1>6. CASE UNCHANGED vars  BY <1>1, <1>6, Zenon DEF vars, histVars
<1>. QED  BY <1>1, <1>2, <1>3, <1>4, <1>5, <1>6, Zenon DEF Next, Sync

(* The stores implement LastWriterWins (ImplementsLastWriterWins): every step is a
   write, a merge that keeps the later version of each key, a forgetting of one
   device's data, or changes nothing a reader sees. *)
THEOREM RefinementTheorem == Spec => ImplementsLastWriterWins
  BY InitRefines, NextRefines, ReplicationInvariant, PTL DEF Spec, ImplementsLastWriterWins, LWW!Spec
=============================================================================
