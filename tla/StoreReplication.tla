-------------------------- MODULE StoreReplication --------------------------
(* Single-version stores of several devices that sync with each other: the tables
   of each device with the conflict resolution of SyncRecord, the rows a sync sends
   (those written on the sender, from its local water mark on), the check of the
   packet's water mark on the receiver, and RemoveDeviceData.  How a session puts
   its packets in order is in MessageSchedule and DataSync: here a pair of devices
   has one packet on its way at a time, which may be lost.

   Timestamps are in a time common to all devices, as after a time sync that got the
   offsets right; two writes are at least Gap apart, and Gap bounds how often one
   version is written by force.  "Mutant" definitions are deliberately wrong
   variants of the definition they precede. *)
EXTENDS SyncRecord, FiniteSets

CONSTANTS
    Devices, Keys,
    Steps, Gap,     \* bounds: how far apart in time writes are
    MaxNow          \* bound: the time

ASSUME ReplicationAssumption ==
    /\ Here \notin Devices
    /\ Gap \in Nat \ {0} /\ MaxNow \in Nat
    /\ Steps \subseteq Nat /\ \A n \in Steps : n >= Gap

VARIABLES
    now,        \* the common time
    rows,       \* rows[d]: the table of device d
    mark,       \* mark[s][d]: the local water mark of s for d
    peer,       \* peer[d][s]: the peer water mark of d for s
    packet,     \* packet[s][d]: on its way from s to d
    removing,   \* removing[d]: the device whose data RemoveDeviceData is about to delete on d, or Here
    base,       \* history: base[d][k]: the time the row of k on d was written
    top,        \* history: the latest version of each key
    written,    \* history: all versions
    overtaken   \* history: data was saved between the two steps of RemoveDeviceData

syncVars == <<mark, peer, packet, removing>>
histVars == <<base, top, written, overtaken>>
vars == <<now, rows, syncVars, histVars>>

NoVersion == [ver |-> 0, by |-> Here, value |-> 0]
NoRows    == [k \in Keys |-> NoRow]
NoPacket  == [mark |-> 0, end |-> 0, rows |-> NoRows]

Init ==
    /\ now = 0
    /\ rows = [d \in Devices |-> NoRows]
    /\ mark = [s \in Devices |-> [d \in Devices |-> 0]]
    /\ peer = [d \in Devices |-> [s \in Devices |-> 0]]
    /\ packet = [s \in Devices |-> [d \in Devices |-> NoPacket]]
    /\ removing = [d \in Devices |-> Here]
    /\ base = [d \in Devices |-> [k \in Keys |-> 0]]
    /\ top = [k \in Keys |-> NoVersion]
    /\ written = {} /\ overtaken = FALSE

-----------------------------------------------------------------------------
(* A transaction of device d writes key k (SaveEntry). *)
Entry(status, t) ==
    [status |-> status, value |-> IF status = "live" THEN t ELSE 0, ts |-> t, w |-> t, dev |-> Here, orig |-> Here,
     local |-> TRUE]

Write(d, k, status) == \E n \in Steps :
    LET t == now + n  new == SaveSyncDataItem(Entry(status, t), rows[d][k], Here, TRUE, "lastWin")
        version == [ver |-> t, by |-> d, value |-> ValueOf(new)] IN
    /\ t <= MaxNow /\ now' = t
    /\ status = "deleted" => Live(rows[d][k])
    /\ rows' = [rows EXCEPT ![d] = [rows[d] EXCEPT ![k] = new]]
    /\ base' = [base EXCEPT ![d] = [base[d] EXCEPT ![k] = t]]
    /\ top' = [top EXCEPT ![k] = version]
    /\ written' = written \union {[key |-> k, version |-> version]}
    /\ UNCHANGED <<syncVars, overtaken>>

-----------------------------------------------------------------------------
(* Sync.  The rows to send: written on the device, from the water mark on. *)
IsSynced(row, from) == Exists(row) /\ row.local /\ row.ts >= from

\* TransDbDataItemToSendDataItem and TransSendDataItemToLocal
TransItem(row, s, d) ==
    [row EXCEPT !.local = FALSE, !.dev = s, !.orig = IF row.orig = Here THEN s ELSE IF row.orig = d THEN Here ELSE row.orig]

\* GetSyncData cuts the data by its size, so a packet ends with any row; the local
\* water mark moves as soon as the packet is sent.
Send(s, d) == \E last \in Keys :
    LET from == mark[s][d]  end == rows[s][last].ts IN
    /\ packet[s][d] = NoPacket
    /\ IsSynced(rows[s][last], from)
    /\ packet' = [packet EXCEPT ![s] = [packet[s] EXCEPT ![d] =
           [mark |-> from, end |-> end,
            rows |-> [k \in Keys |-> IF IsSynced(rows[s][k], from) /\ rows[s][k].ts <= end
                                     THEN TransItem(rows[s][k], s, d) ELSE NoRow]]]]
    /\ mark' = [mark EXCEPT ![s] = [mark[s] EXCEPT ![d] = end + 1]]
    /\ UNCHANGED <<now, rows, peer, removing, histVars>>

\* With nothing to send an empty packet goes, so that the peer can tell that it lacks something.
SendEmpty(s, d) ==
    /\ packet[s][d] = NoPacket
    /\ mark[s][d] > 0
    /\ \A k \in Keys : ~IsSynced(rows[s][k], mark[s][d])
    /\ packet' = [packet EXCEPT ![s] = [packet[s] EXCEPT ![d] = [NoPacket EXCEPT !.mark = mark[s][d]]]]
    /\ UNCHANGED <<now, rows, mark, peer, removing, histVars>>

\* DataRequestRecv: the packet starts above what this device has.
RefusedMutant(p, s, d) == FALSE
Refused(p, s, d) == p.mark > peer[d][s]

Ended(s, d) == packet' = [packet EXCEPT ![s] = [packet[s] EXCEPT ![d] = NoPacket]]

\* The ack of a refused packet takes the sender back to what the receiver has.
WaterMarkErrHandleMutant(s, d) ==
    /\ packet[s][d] # NoPacket
    /\ Refused(packet[s][d], s, d)
    /\ mark' = [mark EXCEPT ![s] = [mark[s] EXCEPT ![d] = packet[s][d].mark]]
    /\ Ended(s, d)
    /\ UNCHANGED <<now, rows, peer, removing, histVars>>
WaterMarkErrHandle(s, d) ==
    /\ packet[s][d] # NoPacket
    /\ Refused(packet[s][d], s, d)
    /\ mark' = [mark EXCEPT ![s] = [mark[s] EXCEPT ![d] = peer[d][s]]]
    /\ Ended(s, d)
    /\ UNCHANGED <<now, rows, peer, removing, histVars>>

IsItemSaved(item, row, s) == Exists(item) /\ IsSaved(item, row, s, TRUE, "lastWin")
SaveItem(item, row, s) == IF Exists(item) THEN SaveSyncDataItem(item, row, s, TRUE, "lastWin") ELSE row

\* bound: a version is written by force less often than Gap
FewForced(p, s, d) ==
    \A k \in Keys : Exists(p.rows[k]) /\ IsForced(p.rows[k], rows[d][k], s, TRUE) => rows[d][k].w + 1 < base[d][k] + Gap

\* SaveData, and UpdatePeerWaterMark unless the device stops in between
DataRequestRecv(s, d) ==
    LET p == packet[s][d] IN
    /\ p # NoPacket
    /\ ~Refused(p, s, d)
    /\ FewForced(p, s, d)
    /\ rows' = [rows EXCEPT ![d] = [k \in Keys |-> SaveItem(p.rows[k], rows[d][k], s)]]
    /\ base' = [base EXCEPT ![d] = [k \in Keys |-> IF IsItemSaved(p.rows[k], rows[d][k], s) THEN p.rows[k].w ELSE base[d][k]]]
    /\ \/ p.rows # NoRows /\ peer' = [peer EXCEPT ![d] = [peer[d] EXCEPT ![s] = p.end + 1]]
       \/ UNCHANGED peer
    /\ Ended(s, d)
    /\ overtaken' = (overtaken \/ removing[d] = s)
    /\ UNCHANGED <<now, mark, removing, top, written>>

Lose(s, d) ==
    /\ packet[s][d] # NoPacket
    /\ Ended(s, d)
    /\ UNCHANGED <<now, rows, mark, peer, removing, histVars>>

\* RemoveDeviceData first erases the water mark; no lock spans this and the next step.
EraseDeviceWaterMark(d, b) ==
    /\ removing[d] = Here
    /\ removing' = [removing EXCEPT ![d] = b]
    /\ peer' = [peer EXCEPT ![d] = [peer[d] EXCEPT ![b] = 0]]
    /\ UNCHANGED <<now, rows, mark, packet, histVars>>

RemoveDeviceDataNormally(d, b) ==
    /\ removing[d] = b
    /\ removing' = [removing EXCEPT ![d] = Here]
    /\ rows' = [rows EXCEPT ![d] = [k \in Keys |-> IF OfDevice(rows[d][k], b) THEN NoRow ELSE rows[d][k]]]
    /\ base' = [base EXCEPT ![d] = [k \in Keys |-> IF OfDevice(rows[d][k], b) THEN 0 ELSE base[d][k]]]
    /\ UNCHANGED <<now, mark, peer, packet, top, written, overtaken>>

-----------------------------------------------------------------------------
Sync(s, d) == Send(s, d) \/ SendEmpty(s, d) \/ WaterMarkErrHandle(s, d) \/ DataRequestRecv(s, d)

Next == \E d \in Devices :
    \/ \E k \in Keys : Write(d, k, "live") \/ Write(d, k, "deleted")
    \/ \E s \in Devices \ {d} : Sync(s, d) \/ Lose(s, d) \/ EraseDeviceWaterMark(d, s) \/ RemoveDeviceDataNormally(d, s)

Spec == Init /\ [][Next]_vars

\* The application, or auto sync, keeps syncing; a packet is delivered if it is sent often enough, and
\* the receiver does not stop after every one of them.
Received(s, d) == DataRequestRecv(s, d) /\ (packet[s][d].rows # NoRows => peer' # peer)
FairSpec == Spec /\ \A s, d \in Devices :
    s # d => WF_vars(Send(s, d) \/ SendEmpty(s, d)) /\ SF_vars(WaterMarkErrHandle(s, d)) /\ SF_vars(Received(s, d))

-----------------------------------------------------------------------------
(* Properties. *)
Stamps == Nat
Row == [status : {"none", "live", "deleted"}, value : Nat, ts : Stamps, w : Stamps, dev : Devices \union {Here},
        orig : Devices \union {Here}, local : BOOLEAN]
Packets == [mark : Stamps, end : Stamps, rows : [Keys -> Row]]
Version == [ver : Nat, by : Devices \union {Here}, value : Nat]

(* Every variable has its type. *)
TypeOK ==
    /\ now \in Stamps
    /\ rows \in [Devices -> [Keys -> Row]]
    /\ mark \in [Devices -> [Devices -> Stamps]] /\ peer \in [Devices -> [Devices -> Stamps]]
    /\ packet \in [Devices -> [Devices -> Packets]]
    /\ removing \in [Devices -> Devices \union {Here}] /\ overtaken \in BOOLEAN
    /\ base \in [Devices -> [Keys -> Nat]]
    /\ top \in [Keys -> Version]
    /\ written \subseteq [key : Keys, version : Version]

(* What a device shows: the version of a row is the time it was written. *)
View == [d \in Devices |-> [k \in Keys |->
            [ver |-> base[d][k], value |-> ValueOf(rows[d][k]),
             by |-> IF base[d][k] = 0 THEN Here ELSE IF rows[d][k].dev = Here THEN d ELSE rows[d][k].dev]]]

LWW == INSTANCE LastWriterWins WITH view <- View, Values <- 0..MaxNow, Versions <- 1..MaxNow, Nobody <- Here

(* The stores implement LastWriterWins: in SaveSyncDataItem the comparison of write
   timestamps, and writing a device's data by force whatever its timestamp, never
   replace a later version by an earlier one, although packets are lost and come
   again, and rows that came twice have a write timestamp that no one wrote. *)
ImplementsLastWriterWins == LWW!Spec

\* Nothing of key k is still to be sent: peer water marks are past every row written on its device.
Synced(k) == \A s, d \in Devices : s # d /\ rows[s][k].local => rows[s][k].ts < peer[d][s]

(* When everything is synced all devices show the same: a device sends only rows it
   wrote itself, so the row that wins must not be lost between the water marks, on
   any path, with RemoveDeviceData in between.  (A packet that is saved between the
   two steps of RemoveDeviceData loses its rows and keeps its water mark.) *)
Agreement == \A k \in Keys : Synced(k) /\ ~overtaken => \A d, e \in Devices : ValueOf(rows[d][k]) = ValueOf(rows[e][k])

(* Devices that keep syncing come to agree once no one writes or removes any more,
   with every lost packet and every restart before a water mark was saved: the check
   of the packet's water mark takes the sender back.  Behaviours that meet the bound
   on forced writes are left out. *)
Unbounded == \A s, d \in Devices : FewForced(packet[s][d], s, d)
Quiet == [][UNCHANGED <<top, written>> /\ \A d, b \in Devices : ~EraseDeviceWaterMark(d, b)]_vars
Converges == <>Quiet /\ []Unbounded => <>[](\A k \in Keys : Synced(k))
=============================================================================
