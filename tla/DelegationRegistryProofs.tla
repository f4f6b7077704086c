---------------------- MODULE DelegationRegistryProofs ----------------------
(***************************************************************************)
(* Proofs about DelegationRegistry, for any owners, flags, terms, legacy   *)
(* histories and bounds: the version trail is complete, and what has       *)
(* lapsed never authorises again.                                          *)
(***************************************************************************)
EXTENDS DelegationRegistry, SequenceTheorems, TLAPS

(* What a delegation keeps from its creation on. *)
SameLife(r, s) ==
  r.owner = s.owner /\ r.contract = s.contract /\ r.expires = s.expires

OfLife(r, s) == SameLife(r, s) /\ r.status \in DelegationStatus

(* Every version a rollback could restore is of the same life: without     *)
(* this, restoring a snapshot could bring back another term.               *)
LifeKept ==
  \A id \in Ids : Exists(id) =>
    \A k \in 1..version[id] : OfLife(Snapshots(id)[k], delegation[id])

(* The types of the trail and of the rest, proved apart. *)
TrailTypes ==
  /\ delegation \in [Ids -> DelegationRecord]
  /\ version \in [Ids -> Nat]
  /\ snapshot \in [Ids -> Seq(DelegationRecord)]
  /\ migrated \in [Ids -> BOOLEAN]
  /\ history \in [Ids -> Seq(Snapshot)]

RestTypes ==
  /\ ledger \in Nat
  /\ admin \in Admins \cup {NoOne}
  /\ proposed \in Admins \cup {NoOne}
  /\ nextId \in 1..(MaxId + 1)
  /\ nonceKey \in [Ids -> Nat]
  /\ owned \in [Owners -> Seq(Ids)]
  /\ subAccounts \in [Owners -> Seq(SubAccountRecord)]

LEMMA TypesSplit == RegistryTypeOK <=> TrailTypes /\ RestTypes
  BY DEF RegistryTypeOK, TrailTypes, RestTypes

RegistryInv == RegistryTypeOK /\ TrailMatchesRecord /\ LifeKept

-----------------------------------------------------------------------------
(* The trail's operators. *)

LEMMA SnapshotsType ==
  ASSUME TrailTypes, NEW id \in Ids
  PROVE  Snapshots(id) \in Seq(DelegationRecord)
<1>1. CASE migrated[id]
  BY <1>1 DEF TrailTypes, Snapshots
<1>2. CASE ~migrated[id]
  <2>1. history[id] \in Seq(Snapshot)
    BY DEF TrailTypes
  <2>2. Len(history[id]) \in Nat
    BY <2>1
  <2>3. ASSUME NEW k \in 1..Len(history[id])
        PROVE  history[id][k].record \in DelegationRecord
    <3>1. history[id][k] \in Snapshot
      BY <2>1
    <3> QED
      BY <3>1 DEF Snapshot
  <2> QED
    BY <1>2, <2>2, <2>3 DEF Snapshots
<1> QED
  BY <1>1, <1>2

(* Setting the key of a version that is there, or of the one that follows. *)
LEMMA KeyedEffect ==
  ASSUME NEW s \in Seq(DelegationRecord), NEW r \in DelegationRecord,
         NEW v \in 1..(Len(s) + 1)
  PROVE  /\ Keyed(s, v, r) \in Seq(DelegationRecord)
         /\ v <= Len(Keyed(s, v, r))
         /\ Keyed(s, v, r)[v] = r
         /\ \A k \in 1..(v - 1) : Keyed(s, v, r)[k] = s[k]
<1>1. CASE v \in DOMAIN s
  <2>1. Keyed(s, v, r) = [s EXCEPT ![v] = r]
    BY <1>1 DEF Keyed
  <2>2. DOMAIN s = 1..Len(s) /\ Len(s) \in Nat
    OBVIOUS
  <2>3. [s EXCEPT ![v] = r] \in Seq(DelegationRecord) /\ Len([s EXCEPT ![v] = r]) = Len(s)
    BY <1>1, <2>2, ExceptSeq
  <2>4. \A k \in 1..(v - 1) : k \in DOMAIN s /\ k # v
    BY <1>1, <2>2
  <2> QED
    BY <1>1, <2>1, <2>2, <2>3, <2>4
<1>2. CASE v \notin DOMAIN s
  <2>1. v = Len(s) + 1 /\ Len(s) \in Nat
    BY <1>2
  <2>2. Keyed(s, v, r) = Append(s, r)
    BY <1>2 DEF Keyed
  <2> QED
    BY <2>1, <2>2
<1> QED
  BY <1>1, <1>2

(* What a write may store: the first version of a new life, or the next    *)
(* version of the life that goes on.                                       *)
Writes(versions, records, id) ==
  /\ versions[id] \in Nat
  /\ records[id] \in DelegationRecord
  /\ records[id].version = versions[id]
  /\ records[id].status \in DelegationStatus
  /\ \/ versions[id] = 1
     \/ /\ Exists(id)
        /\ versions[id] = version[id] + 1
        /\ SameLife(records[id], delegation[id])

(* What a write of version v of record r leaves of delegation id: types,   *)
(* the record itself, and a trail whose last v entries are its snapshots.  *)
WrittenTypes(id, v, r) ==
  /\ delegation'[id] = r
  /\ version'[id] = v
  /\ snapshot'[id] \in Seq(DelegationRecord)
  /\ migrated'[id] = TRUE
  /\ history'[id] \in Seq(Snapshot)
  /\ Snapshots(id)' = snapshot'[id]
  /\ Len(history'[id]) = Len(history[id]) + 1

WrittenTrail(id, v, r) ==
  /\ v > 0
  /\ v <= Len(history'[id])
  /\ v <= Len(snapshot'[id])
  /\ snapshot'[id][v] = r
  /\ \A k \in 1..v :
       /\ history'[id][Len(history'[id]) - v + k].version = k
       /\ history'[id][Len(history'[id]) - v + k].record = snapshot'[id][k]
       /\ snapshot'[id][k].version = k
       /\ OfLife(snapshot'[id][k], r)

(* Indices counted from the end of a history that grows by one. *)
LEMMA TailIndex ==
  ASSUME NEW a \in Nat, NEW b \in Nat, a - b >= 0, NEW k \in 1..b
  PROVE  \A n, w : n = a + 1 /\ w = b + 1 => n - w + k = a - b + k /\ a - b + k \in 1..a
  OBVIOUS

(* store_snapshot for one of the delegations written. *)
LEMMA StoreOne ==
  ASSUME TrailTypes, TrailMatchesRecord, LifeKept,
         NEW versions, NEW records, StoreSnapshots(versions, records),
         NEW id \in Ids, id \in DOMAIN records, Writes(versions, records, id)
  PROVE  /\ WrittenTypes(id, versions[id], records[id])
         /\ WrittenTrail(id, versions[id], records[id])
<1> DEFINE v == versions[id]
           r == records[id]
           s == Snapshots(id)
           h == history[id]
           entry == [version |-> v, record |-> r]
<1>1. /\ delegation'[id] = r /\ version'[id] = v
      /\ snapshot'[id] = Keyed(s, v, r)
      /\ migrated'[id] = TRUE
      /\ history'[id] = Append(h, entry)
  BY DEF StoreSnapshots
<1>2. s \in Seq(DelegationRecord) /\ h \in Seq(Snapshot)
  BY SnapshotsType DEF TrailTypes
<1>3. v \in Nat /\ r \in DelegationRecord /\ r.version = v
  BY DEF Writes
<1>4. entry \in Snapshot
  BY <1>3 DEF Snapshot
<1>5. /\ history'[id] \in Seq(Snapshot)
      /\ Len(history'[id]) = Len(h) + 1
      /\ history'[id][Len(h) + 1] = entry
      /\ \A i \in 1..Len(h) : history'[id][i] = h[i]
      /\ Len(h) \in Nat
  <2> HIDE DEF h, entry
  <2> QED
    BY <1>1, <1>2, <1>4
<1>6. Snapshots(id)' = snapshot'[id]
  BY <1>1 DEF Snapshots
<1>7. CASE v = 1
  <2>1. v \in 1..(Len(s) + 1)
    BY <1>2, <1>7
  <2>2. /\ snapshot'[id] \in Seq(DelegationRecord) /\ v <= Len(snapshot'[id])
        /\ snapshot'[id][v] = r
    <3> HIDE DEF s, v, r
    <3> QED
      BY <1>1, <1>2, <1>3, <2>1, KeyedEffect
  <2>3. \A k \in 1..v :
           /\ history'[id][Len(history'[id]) - v + k].version = k
           /\ history'[id][Len(history'[id]) - v + k].record = snapshot'[id][k]
           /\ snapshot'[id][k].version = k
           /\ OfLife(snapshot'[id][k], r)
    <3> SUFFICES ASSUME NEW k \in 1..v
                 PROVE  /\ history'[id][Len(history'[id]) - v + k].version = k
                        /\ history'[id][Len(history'[id]) - v + k].record = snapshot'[id][k]
                        /\ snapshot'[id][k].version = k
                        /\ OfLife(snapshot'[id][k], r)
      OBVIOUS
    <3>1. k = 1 /\ k = v /\ Len(history'[id]) - v + k = Len(h) + 1
      BY <1>5, <1>7
    <3>2. entry.version = v /\ entry.record = r
      OBVIOUS
    <3> QED
      BY <1>3, <1>5, <2>2, <3>1, <3>2 DEF SameLife, OfLife, Writes
  <2> QED
    BY <1>1, <1>5, <1>6, <1>7, <2>2, <2>3 DEF WrittenTypes, WrittenTrail
<1>8. CASE v # 1
  <2>1. Exists(id) /\ v = version[id] + 1 /\ SameLife(r, delegation[id])
    BY <1>8 DEF Writes
  <2>2. /\ version[id] \in Nat /\ version[id] > 0
        /\ version[id] <= Len(s)
        /\ Len(h) - version[id] >= 0
        /\ \A k \in 1..version[id] :
             /\ h[Len(h) - version[id] + k].version = k
             /\ h[Len(h) - version[id] + k].record = s[k]
             /\ s[k].version = k
             /\ OfLife(s[k], delegation[id])
    BY <2>1 DEF TrailMatchesRecord, LifeKept, TrailTypes
  <2>3. v \in 1..(Len(s) + 1)
    BY <1>2, <2>1, <2>2
  <2>4. /\ snapshot'[id] \in Seq(DelegationRecord) /\ v <= Len(snapshot'[id])
        /\ snapshot'[id][v] = r
        /\ \A k \in 1..(v - 1) : snapshot'[id][k] = s[k]
    <3> HIDE DEF s, v, r
    <3> QED
      BY <1>1, <1>2, <1>3, <2>3, KeyedEffect
  <2>5. \A k \in 1..v :
           /\ history'[id][Len(history'[id]) - v + k].version = k
           /\ history'[id][Len(history'[id]) - v + k].record = snapshot'[id][k]
           /\ snapshot'[id][k].version = k
           /\ OfLife(snapshot'[id][k], r)
    <3> SUFFICES ASSUME NEW k \in 1..v
                 PROVE  /\ history'[id][Len(history'[id]) - v + k].version = k
                        /\ history'[id][Len(history'[id]) - v + k].record = snapshot'[id][k]
                        /\ snapshot'[id][k].version = k
                        /\ OfLife(snapshot'[id][k], r)
      OBVIOUS
    <3> HIDE DEF s, v, r, h, entry
    <3>1. CASE k = v
      <4>1. Len(history'[id]) - v + k = Len(h) + 1
        BY <1>3, <1>5, <3>1
      <4>2. entry.version = v /\ entry.record = r
        BY DEF entry
      <4>3. r.status \in DelegationStatus
        BY DEF Writes, r
      <4> QED
        BY <1>3, <1>5, <2>4, <3>1, <4>1, <4>2, <4>3 DEF SameLife, OfLife
    <3>2. CASE k # v
      <4>1. k \in 1..version[id] /\ k \in 1..(v - 1)
        BY <2>1, <2>2, <3>2
      <4>2. /\ Len(history'[id]) - v + k = Len(h) - version[id] + k
            /\ Len(h) - version[id] + k \in 1..Len(h)
        <5>1. /\ Len(history'[id]) = Len(h) + 1 /\ Len(h) \in Nat
              /\ v = version[id] + 1 /\ version[id] \in Nat
              /\ Len(h) - version[id] >= 0
          BY <1>5, <2>1, <2>2
        <5>2. \A n, w : n = Len(h) + 1 /\ w = version[id] + 1 =>
                 /\ n - w + k = Len(h) - version[id] + k
                 /\ Len(h) - version[id] + k \in 1..Len(h)
          BY <4>1, <5>1, TailIndex
        <5> QED
          BY <5>1, <5>2
      <4>3. history'[id][Len(history'[id]) - v + k] = h[Len(h) - version[id] + k]
        BY <1>5, <4>2
      <4>4. snapshot'[id][k] = s[k]
        BY <2>4, <4>1
      <4>5. OfLife(s[k], r)
        BY <2>1, <2>2, <4>1 DEF SameLife, OfLife
      <4> QED
        BY <2>2, <4>1, <4>3, <4>4, <4>5
    <3> QED
      BY <3>1, <3>2
  <2>6. v > 0 /\ v <= Len(history'[id])
    BY <1>5, <2>1, <2>2
  <2> QED
    BY <1>1, <1>5, <1>6, <2>4, <2>5, <2>6 DEF WrittenTypes, WrittenTrail
<1> QED
  BY <1>7, <1>8

(* A delegation the call does not write keeps its whole trail. *)
LEMMA StoreOthers ==
  ASSUME TrailTypes, NEW versions, NEW records, StoreSnapshots(versions, records),
         NEW id \in Ids, id \notin DOMAIN records
  PROVE  /\ delegation'[id] = delegation[id] /\ version'[id] = version[id]
         /\ snapshot'[id] = snapshot[id] /\ migrated'[id] = migrated[id]
         /\ history'[id] = history[id]
         /\ Snapshots(id)' = Snapshots(id)
<1>1. /\ delegation'[id] = delegation[id] /\ version'[id] = version[id]
      /\ snapshot'[id] = snapshot[id]
      /\ history'[id] = history[id]
  BY DEF StoreSnapshots
<1>2. migrated'[id] = migrated[id]
  BY DEF StoreSnapshots, TrailTypes
<1> QED
  BY <1>1, <1>2 DEF Snapshots

(* Every write keeps the trail, if it writes what it may. *)
LEMMA StoreKeepsTrail ==
  ASSUME TrailTypes, TrailMatchesRecord, LifeKept,
         NEW versions, NEW records, StoreSnapshots(versions, records),
         DOMAIN records \subseteq Ids,
         \A id \in DOMAIN records : Writes(versions, records, id)
  PROVE  TrailTypes' /\ TrailMatchesRecord' /\ LifeKept'
<1>1. TrailTypes'
  <2>1. \A id \in Ids :
           /\ delegation'[id] \in DelegationRecord /\ version'[id] \in Nat
           /\ snapshot'[id] \in Seq(DelegationRecord)
           /\ history'[id] \in Seq(Snapshot)
    <3> SUFFICES ASSUME NEW id \in Ids
                 PROVE  /\ delegation'[id] \in DelegationRecord /\ version'[id] \in Nat
                        /\ snapshot'[id] \in Seq(DelegationRecord)
                        /\ history'[id] \in Seq(Snapshot)
      OBVIOUS
    <3>1. CASE id \in DOMAIN records
      <4>1. Writes(versions, records, id)
        BY <3>1
      <4>2. WrittenTypes(id, versions[id], records[id])
        BY <3>1, <4>1, StoreOne
      <4> QED
        BY <4>1, <4>2 DEF Writes, WrittenTypes
    <3>2. CASE id \notin DOMAIN records
      BY <3>2, StoreOthers DEF TrailTypes
    <3> QED
      BY <3>1, <3>2
  <2>2. /\ delegation' = [id \in Ids |-> delegation'[id]]
        /\ version' = [id \in Ids |-> version'[id]]
        /\ snapshot' = [id \in Ids |-> snapshot'[id]]
        /\ history' = [id \in Ids |-> history'[id]]
    BY DEF StoreSnapshots
  <2>3. migrated' \in [Ids -> BOOLEAN]
    BY DEF StoreSnapshots, TrailTypes
  <2> QED
    BY <2>1, <2>2, <2>3 DEF TrailTypes
<1>2. TrailMatchesRecord' /\ LifeKept'
  <2>1. ASSUME NEW id \in Ids, Exists(id)', id \in DOMAIN records
        PROVE  /\ version'[id] > 0
               /\ Len(history'[id]) - version'[id] >= 0
               /\ version'[id] <= Len(Snapshots(id)')
               /\ Snapshots(id)'[version'[id]] = delegation'[id]
               /\ \A k \in 1..version'[id] :
                    /\ history'[id][Len(history'[id]) - version'[id] + k].version = k
                    /\ history'[id][Len(history'[id]) - version'[id] + k].record
                         = Snapshots(id)'[k]
                    /\ Snapshots(id)'[k].version = k
                    /\ OfLife(Snapshots(id)'[k], delegation'[id])
    <3>1. Writes(versions, records, id)
      BY <2>1
    <3>2. versions[id] \in Nat
      BY <3>1 DEF Writes
    <3>3. WrittenTypes(id, versions[id], records[id]) /\ WrittenTrail(id, versions[id], records[id])
      BY <2>1, <3>1, StoreOne
    <3>4. Len(history'[id]) \in Nat /\ versions[id] <= Len(history'[id])
      BY <3>3 DEF WrittenTypes, WrittenTrail
    <3>5. Len(history'[id]) - versions[id] >= 0
      BY <3>2, <3>4
    <3> QED
      BY <3>3, <3>5 DEF WrittenTypes, WrittenTrail
  <2>2. ASSUME NEW id \in Ids, Exists(id)', id \notin DOMAIN records
        PROVE  /\ version'[id] > 0
               /\ Len(history'[id]) - version'[id] >= 0
               /\ version'[id] <= Len(Snapshots(id)')
               /\ Snapshots(id)'[version'[id]] = delegation'[id]
               /\ \A k \in 1..version'[id] :
                    /\ history'[id][Len(history'[id]) - version'[id] + k].version = k
                    /\ history'[id][Len(history'[id]) - version'[id] + k].record
                         = Snapshots(id)'[k]
                    /\ Snapshots(id)'[k].version = k
                    /\ OfLife(Snapshots(id)'[k], delegation'[id])
    <3>1. /\ delegation'[id] = delegation[id] /\ version'[id] = version[id]
          /\ history'[id] = history[id] /\ Snapshots(id)' = Snapshots(id)
      BY <2>2, StoreOthers
    <3>2. Exists(id)
      BY <2>2, <3>1 DEF Exists
    <3>3. /\ version[id] > 0
          /\ Len(history[id]) - version[id] >= 0
          /\ version[id] <= Len(Snapshots(id))
          /\ Snapshots(id)[version[id]] = delegation[id]
          /\ \A k \in 1..version[id] :
               /\ history[id][Len(history[id]) - version[id] + k].version = k
               /\ history[id][Len(history[id]) - version[id] + k].record = Snapshots(id)[k]
               /\ Snapshots(id)[k].version = k
               /\ OfLife(Snapshots(id)[k], delegation[id])
      BY <3>2 DEF TrailMatchesRecord, LifeKept
    <3> QED
      BY <3>1, <3>3
  <2>3. TrailMatchesRecord'
    BY <2>1, <2>2 DEF TrailMatchesRecord
  <2>4. LifeKept'
    BY <2>1, <2>2 DEF LifeKept
  <2> QED
    BY <2>3, <2>4
<1> QED
  BY <1>1, <1>2

-----------------------------------------------------------------------------
(* The steps. *)

(* A change of an existing delegation's record is a write it may make.     *)
LEMMA SaveKeepsTrail ==
  ASSUME TrailTypes, TrailMatchesRecord, LifeKept,
         NEW records, Save(records), DOMAIN records \subseteq Ids,
         \A id \in DOMAIN records :
           /\ Exists(id)
           /\ records[id] \in DelegationRecord
           /\ records[id].status \in DelegationStatus
           /\ SameLife(records[id], delegation[id])
  PROVE  /\ TrailTypes' /\ TrailMatchesRecord' /\ LifeKept'
         /\ \A id \in Ids : Exists(id) => OfLife(delegation'[id], delegation[id])
<1> DEFINE versions == [id \in DOMAIN records |-> version[id] + 1]
           stamped == [id \in DOMAIN records |->
                         [records[id] EXCEPT !.version = version[id] + 1]]
<1>1. StoreSnapshots(versions, stamped)
  BY DEF Save
<1>2. ASSUME NEW id \in DOMAIN records
      PROVE  /\ Writes(versions, stamped, id)
             /\ OfLife(stamped[id], delegation[id])
  <2>1. version[id] + 1 \in Nat
    BY DEF TrailTypes
  <2>2. records[id] \in DelegationRecord
    OBVIOUS
  <2>3. /\ [records[id] EXCEPT !.version = version[id] + 1] \in DelegationRecord
        /\ [records[id] EXCEPT !.version = version[id] + 1].version = version[id] + 1
        /\ [records[id] EXCEPT !.version = version[id] + 1].status = records[id].status
        /\ [records[id] EXCEPT !.version = version[id] + 1].owner = records[id].owner
        /\ [records[id] EXCEPT !.version = version[id] + 1].contract = records[id].contract
        /\ [records[id] EXCEPT !.version = version[id] + 1].expires = records[id].expires
    BY <2>1, <2>2 DEF DelegationRecord
  <2> QED
    BY <2>1, <2>3 DEF Writes, SameLife, OfLife
<1>3. DOMAIN stamped = DOMAIN records
  OBVIOUS
<1> HIDE DEF versions, stamped
<1>4. TrailTypes' /\ TrailMatchesRecord' /\ LifeKept'
  BY <1>1, <1>2, <1>3, StoreKeepsTrail
<1>5. ASSUME NEW id \in Ids, Exists(id)
      PROVE  OfLife(delegation'[id], delegation[id])
  <2>1. CASE id \in DOMAIN records
    <3>1. WrittenTypes(id, versions[id], stamped[id])
      BY <1>1, <1>2, <1>3, <2>1, StoreOne
    <3> QED
      BY <1>2, <2>1, <3>1 DEF WrittenTypes, OfLife
  <2>2. CASE id \notin DOMAIN records
    BY <1>1, <1>3, <1>5, <2>2, StoreOthers DEF OfLife, SameLife, Exists
  <2> QED
    BY <2>1, <2>2
<1> QED
  BY <1>4, <1>5

LEMMA SaveOneKeepsTrail ==
  ASSUME TrailTypes, TrailMatchesRecord, LifeKept,
         NEW id \in Ids, NEW record \in DelegationRecord, SaveOne(id, record),
         Exists(id), record.status \in DelegationStatus, SameLife(record, delegation[id])
  PROVE  /\ TrailTypes' /\ TrailMatchesRecord' /\ LifeKept'
         /\ \A i \in Ids : Exists(i) => OfLife(delegation'[i], delegation[i])
<1> DEFINE records == [i \in {id} |-> record]
<1>1. /\ DOMAIN records = {id}
      /\ records[id] = record
  OBVIOUS
<1>2. Save(records)
  BY DEF SaveOne
<1> HIDE DEF records
<1> QED
  BY <1>1, <1>2, SaveKeepsTrail

(* The updates the entry points make of a record. *)
LEMMA RecordUpdates ==
  ASSUME NEW r \in DelegationRecord
  PROVE  /\ \A status \in DelegationStatus :
              /\ [r EXCEPT !.status = status] \in DelegationRecord
              /\ [r EXCEPT !.status = status].status = status
              /\ SameLife([r EXCEPT !.status = status], r)
         /\ \A permissions \in SUBSET Flags :
              /\ [r EXCEPT !.permissions = permissions] \in DelegationRecord
              /\ [r EXCEPT !.permissions = permissions].status = r.status
              /\ SameLife([r EXCEPT !.permissions = permissions], r)
         /\ /\ [r EXCEPT !.nonce = @ + 1] \in DelegationRecord
            /\ [r EXCEPT !.nonce = @ + 1].status = r.status
            /\ SameLife([r EXCEPT !.nonce = @ + 1], r)
<1>1. ASSUME NEW status \in DelegationStatus
      PROVE  /\ [r EXCEPT !.status = status] \in DelegationRecord
             /\ [r EXCEPT !.status = status].status = status
             /\ SameLife([r EXCEPT !.status = status], r)
  BY DEF DelegationRecord, SameLife
<1>2. ASSUME NEW permissions \in SUBSET Flags
      PROVE  /\ [r EXCEPT !.permissions = permissions] \in DelegationRecord
             /\ [r EXCEPT !.permissions = permissions].status = r.status
             /\ SameLife([r EXCEPT !.permissions = permissions], r)
  BY DEF DelegationRecord, SameLife
<1>3. r.nonce + 1 \in Nat
  BY DEF DelegationRecord
<1>4. /\ [r EXCEPT !.nonce = @ + 1] \in DelegationRecord
      /\ [r EXCEPT !.nonce = @ + 1].status = r.status
      /\ SameLife([r EXCEPT !.nonce = @ + 1], r)
  BY <1>3 DEF DelegationRecord, SameLife
<1> QED
  BY <1>1, <1>2, <1>4

(* The trail and the terms after one entry point about one delegation. *)
TrailStep ==
  /\ TrailTypes' /\ TrailMatchesRecord' /\ LifeKept'
  /\ \A i \in Ids : Exists(i) => OfLife(delegation'[i], delegation[i])

LEMMA ExistingRecord ==
  ASSUME TrailTypes, NEW id \in Ids
  PROVE  delegation[id] \in DelegationRecord
  BY DEF TrailTypes

LEMMA DelegationStepKeepsTrail ==
  ASSUME TrailTypes, TrailMatchesRecord, LifeKept, NEW id \in Ids, DelegationStep(id)
  PROVE  TrailStep
<1> DEFINE r == delegation[id]
<1>1. r \in DelegationRecord
  BY ExistingRecord
<1> HIDE DEF r
<1>2. ASSUME NEW by \in {"owner", "admin"}, PauseDelegation(id, by)
      PROVE  TrailStep
  <2>1. Exists(id) /\ SaveOne(id, [r EXCEPT !.status = "Paused"])
    BY <1>2 DEF PauseDelegation, Exists, DelegationStatus, r
  <2>2. "Paused" \in DelegationStatus
    BY DEF DelegationStatus
  <2>3. /\ [r EXCEPT !.status = "Paused"] \in DelegationRecord
        /\ [r EXCEPT !.status = "Paused"].status \in DelegationStatus
        /\ SameLife([r EXCEPT !.status = "Paused"], delegation[id])
    BY <1>1, <2>2, RecordUpdates DEF r
  <2> QED
    BY <2>1, <2>3, SaveOneKeepsTrail DEF TrailStep
<1>3. ASSUME NEW by \in {"owner", "admin"}, ResumeDelegation(id, by)
      PROVE  TrailStep
  <2>1. Exists(id) /\ SaveOne(id, [r EXCEPT !.status = "Active"])
    BY <1>3 DEF ResumeDelegation, Exists, DelegationStatus, r
  <2>2. "Active" \in DelegationStatus
    BY DEF DelegationStatus
  <2>3. /\ [r EXCEPT !.status = "Active"] \in DelegationRecord
        /\ [r EXCEPT !.status = "Active"].status \in DelegationStatus
        /\ SameLife([r EXCEPT !.status = "Active"], delegation[id])
    BY <1>1, <2>2, RecordUpdates DEF r
  <2> QED
    BY <2>1, <2>3, SaveOneKeepsTrail DEF TrailStep
<1>4. ASSUME NEW by \in {"owner", "admin"}, RevokeDelegation(id, by)
      PROVE  TrailStep
  <2>1. Exists(id) /\ SaveOne(id, [r EXCEPT !.status = "Revoked"])
    BY <1>4 DEF RevokeDelegation, r
  <2>2. "Revoked" \in DelegationStatus
    BY DEF DelegationStatus
  <2>3. /\ [r EXCEPT !.status = "Revoked"] \in DelegationRecord
        /\ [r EXCEPT !.status = "Revoked"].status \in DelegationStatus
        /\ SameLife([r EXCEPT !.status = "Revoked"], delegation[id])
    BY <1>1, <2>2, RecordUpdates DEF r
  <2> QED
    BY <2>1, <2>3, SaveOneKeepsTrail DEF TrailStep
<1>5. ASSUME NEW permissions \in SUBSET Flags, UpdatePermissions(id, permissions)
      PROVE  TrailStep
  <2>1. Exists(id) /\ SaveOne(id, [r EXCEPT !.permissions = permissions])
    BY <1>5 DEF UpdatePermissions, r
  <2>2. /\ [r EXCEPT !.permissions = permissions] \in DelegationRecord
        /\ [r EXCEPT !.permissions = permissions].status = r.status
        /\ SameLife([r EXCEPT !.permissions = permissions], r)
    BY <1>1, RecordUpdates
  <2>3. r.status \in DelegationStatus
    BY <2>1 DEF Exists, r
  <2>4. SameLife([r EXCEPT !.permissions = permissions], delegation[id])
    BY <2>2 DEF r
  <2> QED
    BY <2>1, <2>2, <2>3, <2>4, SaveOneKeepsTrail DEF TrailStep
<1>6. ASSUME RevokeDelegationKey(id)
      PROVE  TrailStep
  <2>1. Exists(id) /\ SaveOne(id, [r EXCEPT !.nonce = @ + 1])
    BY <1>6 DEF RevokeDelegationKey, r
  <2>2. /\ [r EXCEPT !.nonce = @ + 1] \in DelegationRecord
        /\ [r EXCEPT !.nonce = @ + 1].status = r.status
        /\ SameLife([r EXCEPT !.nonce = @ + 1], r)
    BY <1>1, RecordUpdates
  <2>3. r.status \in DelegationStatus
    BY <2>1 DEF Exists, r
  <2>4. SameLife([r EXCEPT !.nonce = @ + 1], delegation[id])
    BY <2>2 DEF r
  <2> QED
    BY <2>1, <2>2, <2>3, <2>4, SaveOneKeepsTrail DEF TrailStep
<1>7. ASSUME NEW target \in 1..MaxTrail, RollbackDelegation(id, target)
      PROVE  TrailStep
  <2> DEFINE earlier == Snapshots(id)[target]
  <2>1. /\ Exists(id) /\ target \in 1..(version[id] - 1)
        /\ SaveOne(id, Restored(earlier))
    BY <1>7 DEF RollbackDelegation
  <2>2. version[id] \in Nat /\ target \in 1..version[id]
    BY <2>1 DEF TrailTypes
  <2>3. /\ OfLife(earlier, r)
        /\ version[id] <= Len(Snapshots(id))
    BY <2>1, <2>2 DEF LifeKept, TrailMatchesRecord, r
  <2>4. earlier \in DelegationRecord
    <3>1. Snapshots(id) \in Seq(DelegationRecord)
      BY SnapshotsType
    <3>2. target \in 1..Len(Snapshots(id))
      BY <2>2, <2>3, <3>1
    <3> QED
      BY <3>1, <3>2
  <2> HIDE DEF earlier
  <2>5. /\ Restored(earlier) \in DelegationRecord
        /\ Restored(earlier).status \in DelegationStatus
        /\ SameLife(Restored(earlier), delegation[id])
    <3>1. SameLife(earlier, delegation[id]) /\ earlier.status \in DelegationStatus
      BY <2>3 DEF OfLife, r
    <3>2. "Expired" \in DelegationStatus
      BY DEF DelegationStatus
    <3>3. /\ [earlier EXCEPT !.status = "Expired"] \in DelegationRecord
          /\ [earlier EXCEPT !.status = "Expired"].status = "Expired"
          /\ SameLife([earlier EXCEPT !.status = "Expired"], earlier)
      BY <2>4, <3>2, RecordUpdates
    <3> QED
      BY <2>4, <3>1, <3>2, <3>3 DEF Restored, SameLife
  <2> QED
    BY <2>1, <2>5, SaveOneKeepsTrail DEF TrailStep
<1> QED
  BY <1>2, <1>3, <1>4, <1>5, <1>6, <1>7 DEF DelegationStep

LEMMA SweepKeepsTrail ==
  ASSUME TrailTypes, TrailMatchesRecord, LifeKept,
         NEW batch \in SUBSET Ids, SweepExpired(batch)
  PROVE  TrailStep
<1> DEFINE swept == {id \in batch : /\ delegation[id].status \in {"Pending", "Active", "Paused"}
                                    /\ Lapsed(delegation[id])}
           records == [id \in swept |-> [delegation[id] EXCEPT !.status = "Expired"]]
<1>1. Save(records) /\ DOMAIN records = swept /\ swept \subseteq Ids
  BY DEF SweepExpired
<1>2. ASSUME NEW id \in swept
      PROVE  /\ Exists(id)
             /\ records[id] \in DelegationRecord
             /\ records[id].status \in DelegationStatus
             /\ SameLife(records[id], delegation[id])
  <2>1. "Expired" \in DelegationStatus /\ Exists(id) /\ id \in Ids
    BY <1>1 DEF DelegationStatus, Exists
  <2>2. delegation[id] \in DelegationRecord
    BY <2>1, ExistingRecord
  <2>3. records[id] = [delegation[id] EXCEPT !.status = "Expired"]
    OBVIOUS
  <2>4. /\ [delegation[id] EXCEPT !.status = "Expired"] \in DelegationRecord
        /\ [delegation[id] EXCEPT !.status = "Expired"].status = "Expired"
        /\ SameLife([delegation[id] EXCEPT !.status = "Expired"], delegation[id])
    BY <2>1, <2>2, RecordUpdates
  <2> HIDE DEF records
  <2> QED
    BY <2>1, <2>3, <2>4
<1> HIDE DEF swept, records
<1> QED
  BY <1>1, <1>2, SaveKeepsTrail DEF TrailStep

(* A new delegation: its id starts a new life, the others go on. *)
LEMMA CreateKeepsTrail ==
  ASSUME TrailTypes, TrailMatchesRecord, LifeKept, ledger \in Nat,
         NEW owner \in Owners, NEW contract \in Contracts, NEW ttl \in Ttls,
         NEW permissions \in SUBSET Flags,
         CreateDelegation(owner, contract, ttl, permissions)
  PROVE  /\ TrailTypes' /\ TrailMatchesRecord' /\ LifeKept'
         /\ \A i \in Ids :
              \/ delegation'[i] = delegation[i]
              \/ Exists(i)' /\ Len(history'[i]) > Len(history[i]) /\ version'[i] = 1
<1> DEFINE r == NewDelegation(owner, contract, ttl, permissions)
           versions == [i \in {nextId} |-> 1]
           records == [i \in {nextId} |-> r]
<1>1. /\ nextId \in Ids
      /\ StoreSnapshots(versions, records)
  BY DEF CreateDelegation
<1>2. /\ DOMAIN records = {nextId} /\ versions[nextId] = 1 /\ records[nextId] = r
  OBVIOUS
<1>3. r \in DelegationRecord /\ r.version = 1 /\ r.status \in DelegationStatus
  <2>1. ttl \in Nat
    BY RegistryAssumption
  <2> QED
    BY <2>1 DEF NewDelegation, DelegationRecord, DelegationStatus
<1> HIDE DEF r, versions, records
<1>4. Writes(versions, records, nextId)
  BY <1>2, <1>3 DEF Writes
<1>5. TrailTypes' /\ TrailMatchesRecord' /\ LifeKept'
  BY <1>1, <1>2, <1>4, StoreKeepsTrail
<1>6. ASSUME NEW i \in Ids
      PROVE  \/ delegation'[i] = delegation[i]
             \/ Exists(i)' /\ Len(history'[i]) > Len(history[i]) /\ version'[i] = 1
  <2>1. CASE i = nextId
    <3>1. WrittenTypes(i, 1, r)
      BY <1>1, <1>2, <1>4, <2>1, StoreOne
    <3>2. history[i] \in Seq(Snapshot)
      BY DEF TrailTypes
    <3> QED
      BY <1>3, <3>1, <3>2 DEF WrittenTypes, Exists
  <2>2. CASE i # nextId
    BY <1>1, <1>2, <2>2, StoreOthers
  <2> QED
    BY <2>1, <2>2
<1> QED
  BY <1>5, <1>6

(* Steps that leave the trail alone. *)
LEMMA TrailUnchanged ==
  ASSUME TrailTypes, TrailMatchesRecord, LifeKept, UNCHANGED trailVars
  PROVE  TrailStep
<1>1. UNCHANGED <<delegation, version, snapshot, migrated, history>>
  BY DEF trailVars
<1>2. \A id \in Ids : Snapshots(id)' = Snapshots(id)
  BY <1>1 DEF Snapshots
<1>3. \A id \in Ids : Exists(id)' <=> Exists(id)
  BY <1>1 DEF Exists
<1>4. TrailTypes'
  BY <1>1 DEF TrailTypes
<1>5. TrailMatchesRecord'
  BY <1>1, <1>2, <1>3 DEF TrailMatchesRecord
<1>6. LifeKept'
  BY <1>1, <1>2, <1>3 DEF LifeKept
<1> QED
  BY <1>1, <1>4, <1>5, <1>6 DEF TrailStep, OfLife, SameLife, Exists

(* What one step may do to the terms: time only goes forward, and a        *)
(* delegation that exists lives on, with its owner and its expiry, unless  *)
(* its id starts over.                                                     *)
TermsKept ==
  /\ ledger' >= ledger
  /\ \A i \in Ids : Exists(i) =>
       \/ OfLife(delegation'[i], delegation[i])
       \/ Exists(i)' /\ Len(history'[i]) > Len(history[i]) /\ version'[i] = 1

LEMMA StepKeepsTrail ==
  ASSUME RegistryInv, [RegistryNext]_registryVars
  PROVE  TrailTypes' /\ TrailMatchesRecord' /\ LifeKept' /\ TermsKept
<1>1. TrailTypes /\ TrailMatchesRecord /\ LifeKept /\ ledger \in Nat
  BY TypesSplit DEF RegistryInv, RestTypes
<1>2. CASE CloseLedger
  BY <1>1, <1>2, TrailUnchanged DEF CloseLedger, TrailStep, TermsKept
<1>3. CASE AdminStep
  <2>1. UNCHANGED trailVars /\ ledger' = ledger
    BY <1>3 DEF AdminStep, Initialize, ProposeAdmin, AcceptAdmin
  <2> QED
    BY <1>1, <2>1, TrailUnchanged DEF TrailStep, TermsKept
<1>4. ASSUME NEW owner \in Owners, NEW contract \in Contracts, NEW ttl \in Ttls,
             NEW permissions \in SUBSET Flags,
             CreateDelegation(owner, contract, ttl, permissions)
      PROVE  TrailTypes' /\ TrailMatchesRecord' /\ LifeKept' /\ TermsKept
  <2>1. ledger' = ledger
    BY <1>4 DEF CreateDelegation
  <2> QED
    BY <1>1, <1>4, <2>1, CreateKeepsTrail DEF TermsKept, OfLife, SameLife, Exists
<1>5. ASSUME NEW id \in Ids, DelegationStep(id)
      PROVE  TrailTypes' /\ TrailMatchesRecord' /\ LifeKept' /\ TermsKept
  <2>1. ledger' = ledger
    BY <1>5 DEF DelegationStep, PauseDelegation, ResumeDelegation, RevokeDelegation,
                UpdatePermissions, RevokeDelegationKey, RollbackDelegation
  <2> QED
    BY <1>1, <1>5, <2>1, DelegationStepKeepsTrail DEF TrailStep, TermsKept
<1>6. ASSUME NEW batch \in SUBSET Ids, SweepExpired(batch)
      PROVE  TrailTypes' /\ TrailMatchesRecord' /\ LifeKept' /\ TermsKept
  <2>1. ledger' = ledger
    BY <1>6 DEF SweepExpired
  <2> QED
    BY <1>1, <1>6, <2>1, SweepKeepsTrail DEF TrailStep, TermsKept
<1>7. ASSUME NEW owner \in Owners, SubAccountStep(owner)
      PROVE  TrailTypes' /\ TrailMatchesRecord' /\ LifeKept' /\ TermsKept
  <2>1. UNCHANGED trailVars /\ ledger' = ledger
    BY <1>7 DEF SubAccountStep, CreateSubAccount, DeactivateSubAccount, ReactivateSubAccount
  <2> QED
    BY <1>1, <2>1, TrailUnchanged DEF TrailStep, TermsKept
<1>8. CASE UNCHANGED registryVars
  <2>1. UNCHANGED trailVars /\ ledger' = ledger
    BY <1>8 DEF registryVars
  <2> QED
    BY <1>1, <2>1, TrailUnchanged DEF TrailStep, TermsKept
<1> QED
  BY <1>2, <1>3, <1>4, <1>5, <1>6, <1>7, <1>8 DEF RegistryNext

-----------------------------------------------------------------------------
(* The types of the other variables. *)

LEMMA StepKeepsRestTypes ==
  ASSUME RegistryInv, [RegistryNext]_registryVars
  PROVE  RestTypes'
<1>1. TrailTypes /\ RestTypes
  BY TypesSplit DEF RegistryInv
<1>2. CASE CloseLedger
  BY <1>1, <1>2 DEF CloseLedger, RestTypes
<1>3. CASE AdminStep
  <2>1. 1 \in 1..(MaxId + 1)
    BY RegistryAssumption
  <2> QED
    BY <1>1, <1>3, <2>1 DEF AdminStep, Initialize, ProposeAdmin, AcceptAdmin, RestTypes
<1>4. ASSUME NEW owner \in Owners, NEW contract \in Contracts, NEW ttl \in Ttls,
             NEW permissions \in SUBSET Flags,
             CreateDelegation(owner, contract, ttl, permissions)
      PROVE  RestTypes'
  <2>1. nextId \in Ids /\ nextId' \in 1..(MaxId + 1)
    BY <1>4, RegistryAssumption DEF CreateDelegation, Ids
  <2>2. owned' \in [Owners -> Seq(Ids)]
    <3>1. owned[owner] \in Seq(Ids)
      BY <1>1 DEF RestTypes
    <3>2. Append(owned[owner], nextId) \in Seq(Ids)
      BY <2>1, <3>1
    <3> QED
      BY <1>1, <1>4, <3>2 DEF CreateDelegation, RestTypes
  <2> QED
    BY <1>1, <1>4, <2>1, <2>2 DEF CreateDelegation, RestTypes
<1>5. ASSUME NEW id \in Ids, DelegationStep(id)
      PROVE  RestTypes'
  <2>1. CASE RevokeDelegationKey(id)
    <3>1. delegation[id].nonce + 1 \in Nat
      BY <1>1, ExistingRecord DEF DelegationRecord
    <3> QED
      BY <1>1, <2>1, <3>1 DEF RevokeDelegationKey, RestTypes
  <2>2. CASE ~RevokeDelegationKey(id)
    <3>1. UNCHANGED <<ledger, admin, proposed, nextId, nonceKey, owned, subAccounts>>
      BY <1>5, <2>2 DEF DelegationStep, PauseDelegation, ResumeDelegation, RevokeDelegation,
                        UpdatePermissions, RollbackDelegation
    <3> QED
      BY <1>1, <3>1 DEF RestTypes
  <2> QED
    BY <2>1, <2>2
<1>6. ASSUME NEW batch \in SUBSET Ids, SweepExpired(batch)
      PROVE  RestTypes'
  BY <1>1, <1>6 DEF SweepExpired, RestTypes
<1>7. ASSUME NEW owner \in Owners, SubAccountStep(owner)
      PROVE  RestTypes'
  <2>1. subAccounts[owner] \in Seq(SubAccountRecord)
    BY <1>1 DEF RestTypes
  <2>2. ASSUME NEW id \in Ids, CreateSubAccount(owner, id)
        PROVE  subAccounts' \in [Owners -> Seq(SubAccountRecord)]
    <3>1. [delegation |-> id, active |-> TRUE] \in SubAccountRecord
      BY DEF SubAccountRecord
    <3>2. Append(subAccounts[owner], [delegation |-> id, active |-> TRUE])
            \in Seq(SubAccountRecord)
      BY <2>1, <3>1
    <3> QED
      BY <1>1, <2>2, <3>2 DEF CreateSubAccount, RestTypes
  <2>3. ASSUME NEW i \in DOMAIN subAccounts[owner], NEW active \in BOOLEAN,
               subAccounts' = [subAccounts EXCEPT ![owner][i].active = active]
        PROVE  subAccounts' \in [Owners -> Seq(SubAccountRecord)]
    <3> DEFINE sub == [subAccounts[owner][i] EXCEPT !.active = active]
    <3>1. subAccounts[owner][i] \in SubAccountRecord
      BY <2>1
    <3>2. sub \in SubAccountRecord
      BY <3>1 DEF SubAccountRecord
    <3>3. [subAccounts[owner] EXCEPT ![i] = sub] \in Seq(SubAccountRecord)
      BY <2>1, <3>2, ExceptSeq
    <3> QED
      BY <1>1, <2>3, <3>3 DEF RestTypes
  <2>4. UNCHANGED <<ledger, admin, proposed, nextId, nonceKey, owned>>
    BY <1>7 DEF SubAccountStep, CreateSubAccount, DeactivateSubAccount, ReactivateSubAccount
  <2>5. subAccounts' \in [Owners -> Seq(SubAccountRecord)]
    BY <1>7, <2>2, <2>3 DEF SubAccountStep, DeactivateSubAccount, ReactivateSubAccount
  <2> QED
    BY <1>1, <2>4, <2>5 DEF RestTypes
<1>8. CASE UNCHANGED registryVars
  BY <1>1, <1>8 DEF registryVars, RestTypes
<1> QED
  BY <1>2, <1>3, <1>4, <1>5, <1>6, <1>7, <1>8 DEF RegistryNext

-----------------------------------------------------------------------------
(* Sub-accounts. *)

(* A history is only ever appended to. *)
HistoryKept ==
  \A i \in Ids : /\ Len(history'[i]) >= Len(history[i])
                 /\ \A k \in 1..Len(history[i]) : history'[i][k] = history[i][k]

LEMMA StoreKeepsHistory ==
  ASSUME TrailTypes, NEW versions, NEW records, StoreSnapshots(versions, records)
  PROVE  HistoryKept
<1> SUFFICES ASSUME NEW i \in Ids
             PROVE  /\ Len(history'[i]) >= Len(history[i])
                    /\ \A k \in 1..Len(history[i]) : history'[i][k] = history[i][k]
  BY DEF HistoryKept
<1> DEFINE h == history[i]
           entry == [version |-> versions[i], record |-> records[i]]
<1>1. h \in Seq(Snapshot)
  BY DEF TrailTypes
<1>2. history'[i] = Append(h, entry) \/ history'[i] = h
  BY DEF StoreSnapshots
<1> HIDE DEF h, entry
<1>3. /\ Len(h) \in Nat
      /\ Len(Append(h, entry)) = Len(h) + 1
      /\ \A k \in 1..Len(h) : Append(h, entry)[k] = h[k]
  BY <1>1
<1> QED
  BY <1>2, <1>3 DEF h

LEMMA StepKeepsHistory ==
  ASSUME RegistryInv, [RegistryNext]_registryVars
  PROVE  HistoryKept
<1>1. TrailTypes
  BY TypesSplit DEF RegistryInv
<1>2. CASE UNCHANGED trailVars
  <2>1. \A i \in Ids : Len(history[i]) \in Nat
    BY <1>1 DEF TrailTypes
  <2> QED
    BY <1>2, <2>1 DEF trailVars, HistoryKept
<1>3. ASSUME NEW versions, NEW records, StoreSnapshots(versions, records)
      PROVE  HistoryKept
  BY <1>1, <1>3, StoreKeepsHistory
<1>4. ASSUME NEW records, Save(records)
      PROVE  HistoryKept
  BY <1>3, <1>4 DEF Save
<1>5. ASSUME NEW id \in Ids, DelegationStep(id)
      PROVE  HistoryKept
  BY <1>4, <1>5 DEF DelegationStep, PauseDelegation, ResumeDelegation, RevokeDelegation,
                    UpdatePermissions, RevokeDelegationKey, RollbackDelegation, SaveOne
<1>6. ASSUME NEW batch \in SUBSET Ids, SweepExpired(batch)
      PROVE  HistoryKept
  BY <1>4, <1>6 DEF SweepExpired
<1>7. ASSUME NEW owner \in Owners, NEW contract \in Contracts, NEW ttl \in Ttls,
             NEW permissions \in SUBSET Flags,
             CreateDelegation(owner, contract, ttl, permissions)
      PROVE  HistoryKept
  BY <1>3, <1>7 DEF CreateDelegation
<1>8. CASE CloseLedger \/ AdminStep \/ UNCHANGED registryVars
  BY <1>2, <1>8 DEF CloseLedger, AdminStep, Initialize, ProposeAdmin, AcceptAdmin, registryVars
<1>9. ASSUME NEW owner \in Owners, SubAccountStep(owner)
      PROVE  HistoryKept
  BY <1>2, <1>9 DEF SubAccountStep, CreateSubAccount, DeactivateSubAccount,
                    ReactivateSubAccount
<1> QED
  BY <1>5, <1>6, <1>7, <1>8, <1>9 DEF RegistryNext

(* What a sub-account relies on: the delegation is there, and its owner's  *)
(* unless the id was handed out again.                                     *)
Hangs(o, id) == Exists(id) /\ (delegation[id].owner = o \/ Reissued(id))

SubAccountsHang ==
  \A o \in Owners : \A i \in DOMAIN subAccounts[o] : Hangs(o, subAccounts[o][i].delegation)

(* An id that starts over leaves a second version 1 in its history, where  *)
(* it stays; any other step keeps the owner.                               *)
LEMMA StepKeepsHang ==
  ASSUME RegistryInv, [RegistryNext]_registryVars,
         NEW o \in Owners, NEW id \in Ids, Hangs(o, id)
  PROVE  Hangs(o, id)'
<1>1. /\ TrailTypes /\ TrailTypes' /\ TrailMatchesRecord /\ TrailMatchesRecord'
      /\ TermsKept /\ HistoryKept
  BY TypesSplit, StepKeepsTrail, StepKeepsHistory DEF RegistryInv
<1>2. /\ Len(history[id]) \in Nat /\ Len(history'[id]) \in Nat
      /\ version[id] \in Nat
  BY <1>1 DEF TrailTypes
<1>3. Reissued(id) => Reissued(id)'
  BY <1>1, <1>2 DEF Reissued, HistoryKept
<1>4. CASE OfLife(delegation'[id], delegation[id])
  BY <1>3, <1>4 DEF Hangs, OfLife, SameLife, Exists
<1>5. CASE Exists(id)' /\ Len(history'[id]) > Len(history[id]) /\ version'[id] = 1
  <2>1. Len(history[id]) >= 1
    BY <1>1, <1>2 DEF Hangs, TrailMatchesRecord
  <2>2. history'[id][Len(history'[id]) - version'[id] + 1].version = 1
    BY <1>1, <1>5 DEF TrailMatchesRecord
  <2>3. Len(history'[id]) - version'[id] + 1 = Len(history'[id])
    BY <1>2, <1>5
  <2>4. Len(history'[id]) \in 2..Len(history'[id])
    BY <1>2, <1>5, <2>1
  <2> QED
    BY <1>5, <2>2, <2>3, <2>4 DEF Hangs, Reissued
<1> QED
  BY <1>1, <1>4, <1>5 DEF TermsKept, Hangs

LEMMA StepKeepsSubAccounts ==
  ASSUME RegistryInv, SubAccountsHang, [RegistryNext]_registryVars
  PROVE  SubAccountsHang'
<1>1. subAccounts \in [Owners -> Seq(SubAccountRecord)]
  BY DEF RegistryInv, RegistryTypeOK
<1>2. ASSUME NEW o \in Owners, NEW i \in DOMAIN subAccounts[o], NEW id,
             id = subAccounts[o][i].delegation
      PROVE  Hangs(o, id)'
  <2>1. subAccounts[o][i] \in SubAccountRecord
    BY <1>1
  <2>2. id \in Ids
    BY <1>2, <2>1 DEF SubAccountRecord
  <2>3. Hangs(o, id)
    BY <1>2 DEF SubAccountsHang
  <2> QED
    BY <2>2, <2>3, StepKeepsHang
<1>3. CASE UNCHANGED subAccounts
  BY <1>2, <1>3 DEF SubAccountsHang, Hangs, Exists, Reissued
<1>4. ASSUME NEW owner \in Owners, NEW id \in Ids, CreateSubAccount(owner, id)
      PROVE  SubAccountsHang'
  <2> DEFINE sub == [delegation |-> id, active |-> TRUE]
  <2>1. Hangs(owner, id)
    BY <1>4 DEF CreateSubAccount, Hangs
  <2>2. Hangs(owner, id)'
    BY <2>1, StepKeepsHang
  <2>3. /\ subAccounts'[owner] = Append(subAccounts[owner], sub)
        /\ \A o \in Owners : o # owner => subAccounts'[o] = subAccounts[o]
    BY <1>1, <1>4 DEF CreateSubAccount
  <2>4. subAccounts[owner] \in Seq(SubAccountRecord) /\ sub.delegation = id
    BY <1>1
  <2> HIDE DEF sub
  <2> SUFFICES ASSUME NEW o \in Owners, NEW i \in DOMAIN subAccounts'[o]
               PROVE  Hangs(o, subAccounts[o][i].delegation)'
    BY DEF SubAccountsHang
  <2>5. CASE i \in DOMAIN subAccounts[o] /\ subAccounts'[o][i] = subAccounts[o][i]
    BY <1>2, <2>5 DEF Hangs, Exists, Reissued
  <2>6. CASE o = owner /\ subAccounts'[o][i] = sub
    BY <2>2, <2>4, <2>6 DEF Hangs, Exists, Reissued
  <2>7. CASE o # owner
    BY <2>3, <2>5, <2>7
  <2>8. CASE o = owner
    BY <2>3, <2>4, <2>5, <2>6, <2>8
  <2> QED
    BY <2>7, <2>8
<1>5. ASSUME NEW owner \in Owners, NEW j \in DOMAIN subAccounts[owner], NEW active,
             subAccounts' = [subAccounts EXCEPT ![owner][j].active = active]
      PROVE  SubAccountsHang'
  <2>1. subAccounts[owner][j] \in SubAccountRecord
    BY <1>1
  <2>2. ASSUME NEW o \in Owners
        PROVE  /\ DOMAIN subAccounts'[o] = DOMAIN subAccounts[o]
               /\ \A i \in DOMAIN subAccounts[o] :
                    subAccounts'[o][i].delegation = subAccounts[o][i].delegation
    BY <1>1, <1>5, <2>1 DEF SubAccountRecord
  <2> QED
    BY <1>2, <2>2 DEF SubAccountsHang, Hangs, Exists, Reissued
<1>6. ASSUME NEW owner \in Owners, SubAccountStep(owner)
      PROVE  SubAccountsHang'
  BY <1>4, <1>5, <1>6 DEF SubAccountStep, DeactivateSubAccount, ReactivateSubAccount
<1>7. CASE CloseLedger \/ AdminStep \/ UNCHANGED registryVars
  BY <1>3, <1>7 DEF CloseLedger, AdminStep, Initialize, ProposeAdmin, AcceptAdmin, registryVars
<1>8. ASSUME NEW owner \in Owners, NEW contract \in Contracts, NEW ttl \in Ttls,
             NEW permissions \in SUBSET Flags,
             CreateDelegation(owner, contract, ttl, permissions)
      PROVE  SubAccountsHang'
  BY <1>3, <1>8 DEF CreateDelegation
<1>9. ASSUME NEW id \in Ids, DelegationStep(id)
      PROVE  SubAccountsHang'
  BY <1>3, <1>9 DEF DelegationStep, PauseDelegation, ResumeDelegation, RevokeDelegation,
                    UpdatePermissions, RevokeDelegationKey, RollbackDelegation
<1>10. ASSUME NEW batch \in SUBSET Ids, SweepExpired(batch)
       PROVE  SubAccountsHang'
  BY <1>3, <1>10 DEF SweepExpired
<1> QED
  BY <1>6, <1>7, <1>8, <1>9, <1>10 DEF RegistryNext

-----------------------------------------------------------------------------
(* The theorems. *)

LEMMA InitInv == RegistryInit => RegistryInv
<1> SUFFICES ASSUME RegistryInit
             PROVE  RegistryInv
  OBVIOUS
<1>1. PICK legacy \in Legacies :
        LET n == Len(legacy)
            First(x, none) == [id \in Ids |-> IF id = 1 /\ n > 0 THEN x ELSE none]
        IN  /\ ledger = 0
            /\ admin = NoOne
            /\ proposed = NoOne
            /\ nextId = IF n > 0 THEN 2 ELSE 1
            /\ delegation = First(legacy[n], Blank)
            /\ version = First(n, 0)
            /\ snapshot = [id \in Ids |-> <<>>]
            /\ migrated = [id \in Ids |-> FALSE]
            /\ history = First([k \in 1..n |-> [version |-> k, record |-> legacy[k]]], <<>>)
            /\ nonceKey = [id \in Ids |-> 0]
            /\ owned = [o \in Owners |-> IF n > 0 /\ legacy[1].owner = o THEN <<1>> ELSE <<>>]
            /\ subAccounts = [o \in Owners |-> <<>>]
  BY DEF RegistryInit
<1> DEFINE n == Len(legacy)
           entries == [k \in 1..n |-> [version |-> k, record |-> legacy[k]]]
<1>2. /\ legacy \in Seq(DelegationRecord) /\ n \in Nat
      /\ \A k \in 1..n : legacy[k].version = k /\ OfLife(legacy[k], legacy[n])
  <2>1. legacy \in Seq(DelegationRecord) /\ n \in Nat
    BY LegacyAssumption
  <2>2. ASSUME NEW k \in 1..n
        PROVE  legacy[k].version = k /\ OfLife(legacy[k], legacy[n])
    <3>1. n \in 1..n
      BY <2>1, <2>2
    <3> QED
      BY <2>2, <3>1, LegacyAssumption DEF OfLife, SameLife
  <2> QED
    BY <2>1, <2>2
<1>3. entries \in Seq(Snapshot) /\ Len(entries) = n
  <2>1. ASSUME NEW k \in 1..n
        PROVE  [version |-> k, record |-> legacy[k]] \in Snapshot
    <3>1. legacy[k] \in DelegationRecord /\ k \in Nat
      BY <1>2
    <3> QED
      BY <3>1 DEF Snapshot
  <2> QED
    BY <1>2, <2>1
<1>4. Ids \subseteq Nat /\ 1 \in Ids
  BY RegistryAssumption DEF Ids
<1>5. Blank \in DelegationRecord
  BY DEF Blank, DelegationRecord
<1>6. n > 0 => legacy[n] \in DelegationRecord /\ legacy[n].status \in DelegationStatus
  BY <1>2 DEF OfLife
<1>7. TrailTypes
  <2>1. delegation \in [Ids -> DelegationRecord]
    BY <1>1, <1>5, <1>6
  <2>2. version \in [Ids -> Nat] /\ snapshot \in [Ids -> Seq(DelegationRecord)]
        /\ migrated \in [Ids -> BOOLEAN]
    BY <1>1, <1>2
  <2>3. history \in [Ids -> Seq(Snapshot)]
    BY <1>1, <1>3
  <2> QED
    BY <2>1, <2>2, <2>3 DEF TrailTypes
<1>8. RestTypes
  BY <1>1, <1>4, RegistryAssumption DEF RestTypes
<1>9. ASSUME NEW id \in Ids, Exists(id)
      PROVE  /\ version[id] = n /\ n > 0
             /\ history[id] = entries
             /\ delegation[id] = legacy[n]
             /\ Snapshots(id) = [k \in 1..n |-> legacy[k]]
  <2>1. id = 1 /\ n > 0
    BY <1>1, <1>9 DEF Exists, Blank, DelegationStatus
  <2>2. version[id] = n /\ delegation[id] = legacy[n] /\ history[id] = entries
        /\ ~migrated[id]
    BY <1>1, <2>1
  <2>3. Snapshots(id) = [k \in 1..Len(entries) |-> entries[k].record]
    BY <2>2 DEF Snapshots
  <2> QED
    BY <1>3, <2>1, <2>2, <2>3
<1>10. TrailMatchesRecord /\ LifeKept
  <2> SUFFICES ASSUME NEW id \in Ids, Exists(id)
               PROVE  /\ version[id] > 0
                      /\ Len(history[id]) - version[id] >= 0
                      /\ version[id] <= Len(Snapshots(id))
                      /\ Snapshots(id)[version[id]] = delegation[id]
                      /\ \A k \in 1..version[id] :
                           /\ history[id][Len(history[id]) - version[id] + k].version = k
                           /\ history[id][Len(history[id]) - version[id] + k].record
                                = Snapshots(id)[k]
                           /\ Snapshots(id)[k].version = k
                           /\ OfLife(Snapshots(id)[k], delegation[id])
    BY DEF TrailMatchesRecord, LifeKept
  <2>1. Len(history[id]) = n /\ Len(Snapshots(id)) = n
    <3>1. n \in Nat /\ Snapshots(id) = [k \in 1..n |-> legacy[k]]
      BY <1>2, <1>9
    <3>2. history[id] = entries
      BY <1>9
    <3> HIDE DEF n, entries
    <3> QED
      BY <1>3, <3>1, <3>2
  <2>2. ASSUME NEW k \in 1..n
        PROVE  /\ n - n + k = k
               /\ Snapshots(id)[k] = legacy[k]
               /\ entries[k].version = k /\ entries[k].record = legacy[k]
    <3>1. Snapshots(id) = [j \in 1..n |-> legacy[j]]
      BY <1>9
    <3>2. n - n + k = k
      BY <1>2
    <3>3. entries[k] = [version |-> k, record |-> legacy[k]]
      OBVIOUS
    <3> QED
      BY <3>1, <3>2, <3>3
  <2>3. n \in 1..n
    BY <1>2, <1>9
  <2> HIDE DEF entries, n
  <2> QED
    BY <1>2, <1>9, <2>1, <2>2, <2>3
<1> QED
  BY <1>7, <1>8, <1>10, TypesSplit DEF RegistryInv

(* The registry's inductive invariant: types, a complete trail, and one    *)
(* life per trail.                                                         *)
THEOREM RegistryInvariant == RegistrySpec => []RegistryInv
<1>1. RegistryInit => RegistryInv
  BY InitInv
<1>2. RegistryInv /\ [RegistryNext]_registryVars => RegistryInv'
  <2> SUFFICES ASSUME RegistryInv, [RegistryNext]_registryVars
               PROVE  RegistryInv'
    OBVIOUS
  <2>1. TrailTypes' /\ TrailMatchesRecord' /\ LifeKept'
    BY StepKeepsTrail
  <2>2. RestTypes'
    BY StepKeepsRestTypes
  <2>3. RegistryTypeOK'
    BY <2>1, <2>2 DEF RegistryTypeOK, TrailTypes, RestTypes
  <2> QED
    BY <2>1, <2>3 DEF RegistryInv
<1> QED
  BY <1>1, <1>2, PTL DEF RegistrySpec

(* Every variable always holds a value of its storage type. *)
THEOREM RegistryTypes == RegistrySpec => []RegistryTypeOK
<1>1. RegistryInv => RegistryTypeOK
  BY DEF RegistryInv
<1> QED
  BY <1>1, RegistryInvariant, PTL

(* The history and the keyed snapshots agree with the record and with each *)
(* other: every version below the current one can be rolled back to.       *)
THEOREM RegistryTrail == RegistrySpec => []TrailMatchesRecord
<1>1. RegistryInv => TrailMatchesRecord
  BY DEF RegistryInv
<1> QED
  BY <1>1, RegistryInvariant, PTL

(* What has lapsed never authorises again, rollback or not. *)
THEOREM RegistryLapsedStaysDead == RegistrySpec => LapsedStaysDead
<1>1. RegistryInv /\ [RegistryNext]_registryVars =>
        [\A id \in Ids :
           Exists(id) /\ Lapsed(delegation[id]) =>
             \/ ~Authorized(id, {}, delegation[id].nonce)'
             \/ Len(history'[id]) > Len(history[id]) /\ version'[id] = 1]_registryVars
  <2> SUFFICES ASSUME RegistryInv, [RegistryNext]_registryVars,
                      NEW id \in Ids, Exists(id), Lapsed(delegation[id]),
                      ~(Len(history'[id]) > Len(history[id]) /\ version'[id] = 1)
               PROVE  ~Authorized(id, {}, delegation[id].nonce)'
    OBVIOUS
  <2>1. TermsKept /\ TrailTypes'
    BY StepKeepsTrail
  <2>2. ledger' >= ledger /\ delegation'[id].expires = delegation[id].expires
    BY <2>1 DEF TermsKept, OfLife, SameLife
  <2>3. ledger \in Nat /\ ledger' \in Nat /\ delegation[id].expires \in Nat
    <3>1. RestTypes /\ RestTypes' /\ TrailTypes
      BY TypesSplit, StepKeepsRestTypes DEF RegistryInv
    <3>2. delegation[id] \in DelegationRecord
      BY <3>1, ExistingRecord
    <3> QED
      BY <3>1, <3>2 DEF RestTypes, DelegationRecord
  <2>4. Lapsed(delegation[id])'
    BY <2>2, <2>3 DEF Lapsed
  <2> QED
    BY <2>4 DEF Authorized
<1> QED
  BY <1>1, RegistryInvariant, PTL DEF RegistrySpec, LapsedStaysDead

(* A sub-account stays under a delegation of its own owner, unless the id  *)
(* was handed out again, and an active one under an authorised agent.      *)
THEOREM RegistrySubAccounts == RegistrySpec => []SubAccountsFollowOwner
<1>1. RegistryInit => SubAccountsHang
  BY DEF RegistryInit, SubAccountsHang
<1>2. RegistryInv /\ SubAccountsHang /\ [RegistryNext]_registryVars => SubAccountsHang'
  BY StepKeepsSubAccounts
<1>3. SubAccountsHang => SubAccountsFollowOwner
  BY DEF SubAccountsHang, Hangs, SubAccountsFollowOwner, ActiveSubAccounts, Authorized
<1> QED
  BY <1>1, <1>2, <1>3, RegistryInvariant, PTL DEF RegistrySpec

=============================================================================
