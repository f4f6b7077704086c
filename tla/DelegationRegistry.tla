------------------------- MODULE DelegationRegistry -------------------------
(***************************************************************************)
(* The delegation registry (delegation_registry/src/lib.rs): owners hand   *)
(* authority to agents for a while, pause, resume, revoke and re-key it,   *)
(* narrow or widen its permission flags, and roll it back to an earlier    *)
(* version; an admin may pause, resume and revoke too; anyone may sweep    *)
(* what has expired; owners hang sub-accounts under their delegations.     *)
(*                                                                         *)
(* Each action is one entry point, a single atomic transaction.  What is   *)
(* fixed when a delegation is created and never compared afterwards (its   *)
(* label, its agent) and the timestamps nothing reads are left out.        *)
(***************************************************************************)
EXTENDS Integers, FiniteSets, Sequences, Functions

CONSTANTS
  Owners,            \* addresses that create delegations
  Admins,            \* addresses that may become admin
  NoOne,             \* no address stored
  Contracts,         \* permissions contracts a delegation may name
  Flags,             \* the permission bits
  Ttls,              \* ttl_ledgers arguments
  Legacies,          \* histories written before Snapshot keys existed; <<>>: none
  MaxSweepBatch,     \* MAX_SWEEP_BATCH_SIZE
  MaxId,             \* bound: delegations handed out between two resets
  MaxTrail,          \* bound: snapshots written, all delegations together
  MaxSubAccounts,    \* bound: sub-accounts, all owners together
  MaxLedger          \* bound: the last ledger of a run

Ids == 1..MaxId

DelegationStatus == {"Pending", "Active", "Paused", "Revoked", "Expired"}

DelegationRecord ==
  [owner       : Owners \cup {NoOne},
   contract    : Contracts \cup {NoOne},   \* permissions_contract
   status      : DelegationStatus \cup {"None"},
   expires     : Nat,                      \* expires_at_ledger
   version     : Nat,
   permissions : SUBSET Flags,
   nonce       : Nat]

ASSUME RegistryAssumption ==
  /\ NoOne \notin Owners \cup Admins \cup Contracts
  /\ Ttls \subseteq Nat \ {0}
  /\ MaxId \in Nat \ {0}
  /\ MaxTrail \in Nat
  /\ MaxSubAccounts \in Nat
  /\ MaxLedger \in Nat
  /\ MaxSweepBatch \in Nat

(* A legacy history tells one delegation's life from version 1 on. *)
ASSUME LegacyAssumption ==
  \A h \in Legacies :
    /\ h \in Seq(DelegationRecord)
    /\ \A k \in 1..Len(h) :
         /\ h[k].version = k
         /\ h[k].status \in DelegationStatus
         /\ h[k].owner = h[1].owner
         /\ h[k].owner \in Owners
         /\ h[k].contract = h[1].contract
         /\ h[k].expires = h[1].expires

VARIABLES
  ledger,       \* the current ledger
  admin,        \* Admin
  proposed,     \* ProposedAdmin
  nextId,       \* NextId
  delegation,   \* Delegation(id)
  version,      \* DelegationVersion(id)
  snapshot,     \* Snapshot(id, v): keyed by the versions 1, 2, ...
  migrated,     \* SnapshotSchemaVersion(id) = 1
  history,      \* DelegationHistory(id)
  nonceKey,     \* DelegationNonce(id)
  owned,        \* UserDelegations(owner)
  subAccounts   \* SubAccount(owner, 1), SubAccount(owner, 2), ...

trailVars == <<delegation, version, snapshot, migrated, history>>
registryVars == <<ledger, admin, proposed, nextId, trailVars, nonceKey, owned, subAccounts>>

Blank == [owner |-> NoOne, contract |-> NoOne, status |-> "None", expires |-> 0,
          version |-> 0, permissions |-> {}, nonce |-> 0]

Snapshot == [version : Nat, record : DelegationRecord]
SubAccountRecord == [delegation : Ids, active : BOOLEAN]

Exists(id) == delegation[id].status \in DelegationStatus
Lapsed(record) == ledger >= record.expires

(* is_authorized_for_with_nonce; with no flag, or with the nonce the       *)
(* record holds, it is the answer of the weaker checks too.                *)
Authorized(id, flags, nonce) ==
  /\ delegation[id].status = "Active"
  /\ ~Lapsed(delegation[id])
  /\ flags \subseteq delegation[id].permissions
  /\ delegation[id].nonce = nonce

-----------------------------------------------------------------------------
(* A fresh contract, or one whose delegation 1 was written by a build that *)
(* kept the history but no Snapshot keys.                                  *)
RegistryInit ==
  \E legacy \in Legacies :
    LET n == Len(legacy)
        First(x, none) == [id \in Ids |-> IF id = 1 /\ n > 0 THEN x ELSE none]
    IN  /\ ledger = 0
        /\ admin = NoOne
        /\ proposed = NoOne
        /\ nextId = IF n > 0 THEN 2 ELSE 1
        /\ delegation = First(legacy[n], Blank)
        /\ version = First(n, 0)
        /\ snapshot = [id \in Ids |-> <<>>]
        /\ migrated = [id \in Ids |-> FALSE]
        /\ history = First([k \in 1..n |-> [version |-> k, record |-> legacy[k]]], <<>>)
        /\ nonceKey = [id \in Ids |-> 0]
        /\ owned = [o \in Owners |-> IF n > 0 /\ legacy[1].owner = o THEN <<1>> ELSE <<>>]
        /\ subAccounts = [o \in Owners |-> <<>>]

(* The network closes a ledger. *)
CloseLedger ==
  /\ ledger < MaxLedger
  /\ ledger' = ledger + 1
  /\ UNCHANGED <<admin, proposed, nextId, trailVars, nonceKey, owned, subAccounts>>

-----------------------------------------------------------------------------
(* The version trail. *)

(* Snapshot(id, _) as migrate_snapshot_keys leaves it. *)
Snapshots(id) ==
  IF migrated[id] THEN snapshot[id]
  ELSE [k \in 1..Len(history[id]) |-> history[id][k].record]

(* The key of version v is set, whether or not one was there. *)
Keyed(snapshots, v, record) ==
  IF v \in DOMAIN snapshots THEN [snapshots EXCEPT ![v] = record]
  ELSE Append(snapshots, record)

(* store_snapshot: the record joins the keyed snapshots and the history.   *)
(* "versions" gives the delegations written in this call their versions.   *)
StoreSnapshots(versions, records) ==
  /\ SumFunction([id \in Ids |-> Len(history[id])]) + Cardinality(DOMAIN records) <= MaxTrail
  /\ version' = [id \in Ids |-> IF id \in DOMAIN records THEN versions[id] ELSE version[id]]
  /\ delegation' = [id \in Ids |-> IF id \in DOMAIN records THEN records[id] ELSE delegation[id]]
  /\ snapshot' = [id \in Ids |->
       IF id \in DOMAIN records THEN Keyed(Snapshots(id), versions[id], records[id])
       ELSE snapshot[id]]
  /\ migrated' = [id \in Ids |-> id \in DOMAIN records \/ migrated[id]]
  /\ history' = [id \in Ids |->
       IF id \in DOMAIN records
       THEN Append(history[id], [version |-> versions[id], record |-> records[id]])
       ELSE history[id]]

(* Every mutation of a record takes the next version (increment_version),  *)
(* saves it and stores its snapshot.                                       *)
Save(records) ==
  StoreSnapshots([id \in DOMAIN records |-> version[id] + 1],
                 [id \in DOMAIN records |->
                    [records[id] EXCEPT !.version = version[id] + 1]])

SaveOne(id, record) == Save([i \in {id} |-> record])

-----------------------------------------------------------------------------
(* The admin. *)

(* initialize: anyone, once; the id counter is seeded at 1, even when      *)
(* delegations were already created.                                       *)
Initialize(a) ==
  /\ admin = NoOne
  /\ admin' = a
  /\ nextId' = 1
  /\ UNCHANGED <<ledger, proposed, trailVars, nonceKey, owned, subAccounts>>

(* propose_admin and accept_admin: the two steps of a transfer. *)
ProposeAdmin(a) ==
  /\ admin # NoOne
  /\ proposed' = a
  /\ UNCHANGED <<ledger, admin, nextId, trailVars, nonceKey, owned, subAccounts>>

AcceptAdmin ==
  /\ proposed # NoOne
  /\ admin # NoOne
  /\ admin' = proposed
  /\ proposed' = NoOne
  /\ UNCHANGED <<ledger, nextId, trailVars, nonceKey, owned, subAccounts>>

-----------------------------------------------------------------------------
(* The life of a delegation. *)

NewDelegation(owner, contract, ttl, permissions) ==
  [owner |-> owner, contract |-> contract, status |-> "Active", expires |-> ledger + ttl,
   version |-> 1, permissions |-> permissions, nonce |-> 0]

(* create_delegation and create_scoped_delegation: the next id, whatever   *)
(* is stored under it, gets a record at version 1.                         *)
CreateDelegation(owner, contract, ttl, permissions) ==
  LET id == nextId
  IN  /\ id \in Ids
      /\ nextId' = id + 1
      /\ StoreSnapshots([i \in {id} |-> 1],
                        [i \in {id} |-> NewDelegation(owner, contract, ttl, permissions)])
      /\ owned' = [owned EXCEPT ![owner] = Append(@, id)]
      /\ UNCHANGED <<ledger, admin, proposed, nonceKey, subAccounts>>

(* The owner, or an admin once there is one. *)
Controllers == IF admin = NoOne THEN {"owner"} ELSE {"owner", "admin"}

(* pause_delegation, admin_pause_delegation *)
PauseDelegation(id, by) ==
  /\ by \in Controllers
  /\ delegation[id].status = "Active"
  /\ SaveOne(id, [delegation[id] EXCEPT !.status = "Paused"])
  /\ UNCHANGED <<ledger, admin, proposed, nextId, nonceKey, owned, subAccounts>>

(* resume_delegation, admin_resume_delegation *)
ResumeDelegation(id, by) ==
  /\ by \in Controllers
  /\ delegation[id].status = "Paused"
  /\ ~Lapsed(delegation[id])
  /\ SaveOne(id, [delegation[id] EXCEPT !.status = "Active"])
  /\ UNCHANGED <<ledger, admin, proposed, nextId, nonceKey, owned, subAccounts>>

(* revoke_delegation, admin_revoke: from any other status. *)
RevokeDelegation(id, by) ==
  /\ by \in Controllers
  /\ Exists(id)
  /\ delegation[id].status # "Revoked"
  /\ SaveOne(id, [delegation[id] EXCEPT !.status = "Revoked"])
  /\ UNCHANGED <<ledger, admin, proposed, nextId, nonceKey, owned, subAccounts>>

(* set_permission_flag and clear_permission_flag, when they change a bit. *)
UpdatePermissions(id, permissions) ==
  /\ Exists(id)
  /\ permissions # delegation[id].permissions
  /\ \/ delegation[id].permissions \subseteq permissions
     \/ permissions \subseteq delegation[id].permissions
  /\ SaveOne(id, [delegation[id] EXCEPT !.permissions = permissions])
  /\ UNCHANGED <<ledger, admin, proposed, nextId, nonceKey, owned, subAccounts>>

(* revoke_delegation_key: the next nonce, in the record and under its key. *)
RevokeDelegationKey(id) ==
  /\ Exists(id)
  /\ SaveOne(id, [delegation[id] EXCEPT !.nonce = @ + 1])
  /\ nonceKey' = [nonceKey EXCEPT ![id] = delegation[id].nonce + 1]
  /\ UNCHANGED <<ledger, admin, proposed, nextId, owned, subAccounts>>

(* sweep_expired: anyone, a batch of ids; what has lapsed turns Expired. *)
SweepExpired(batch) ==
  LET swept == {id \in batch : /\ delegation[id].status \in {"Pending", "Active", "Paused"}
                               /\ Lapsed(delegation[id])}
  IN  /\ Cardinality(batch) \in 1..MaxSweepBatch
      /\ swept # {}
      /\ Save([id \in swept |-> [delegation[id] EXCEPT !.status = "Expired"]])
      /\ UNCHANGED <<ledger, admin, proposed, nextId, nonceKey, owned, subAccounts>>

(* Mutant: the restored record starts a new term. *)
RestoredAfresh(record) == [record EXCEPT !.expires = ledger + 1]

(* The record rollback_delegation restores: the snapshot, dead if its term *)
(* is over.                                                                *)
Restored(record) == IF Lapsed(record) THEN [record EXCEPT !.status = "Expired"] ELSE record

(* Mutant: the snapshot's own version number is kept. *)
RollbackToSnapshotVersion(id, target) ==
  LET earlier == Snapshots(id)[target]
  IN  /\ Exists(id)
      /\ target \in 1..(version[id] - 1)
      /\ target \in DOMAIN Snapshots(id)
      /\ earlier.contract = delegation[id].contract
      /\ earlier.status # "Expired"
      /\ StoreSnapshots([i \in {id} |-> target], [i \in {id} |-> Restored(earlier)])
      /\ UNCHANGED <<ledger, admin, proposed, nextId, nonceKey, owned, subAccounts>>

(* rollback_delegation: the owner restores an earlier version, under a new *)
(* version number.                                                         *)
RollbackDelegation(id, target) ==
  LET earlier == Snapshots(id)[target]
  IN  /\ Exists(id)
      /\ target \in 1..(version[id] - 1)
      /\ target \in DOMAIN Snapshots(id)
      /\ earlier.contract = delegation[id].contract
      /\ earlier.status # "Expired"
      /\ SaveOne(id, Restored(earlier))
      /\ UNCHANGED <<ledger, admin, proposed, nextId, nonceKey, owned, subAccounts>>

-----------------------------------------------------------------------------
(* Sub-accounts. *)

(* Mutant: the owner of the delegation is not looked at. *)
CreateSubAccountAnywhere(owner, id) ==
  /\ Exists(id)
  /\ SumFunction([o \in Owners |-> Len(subAccounts[o])]) < MaxSubAccounts
  /\ subAccounts' = [subAccounts EXCEPT ![owner] =
                       Append(@, [delegation |-> id, active |-> TRUE])]
  /\ UNCHANGED <<ledger, admin, proposed, nextId, trailVars, nonceKey, owned>>

(* create_sub_account: under any delegation of its owner, whatever its status. *)
CreateSubAccount(owner, id) ==
  /\ Exists(id)
  /\ delegation[id].owner = owner
  /\ SumFunction([o \in Owners |-> Len(subAccounts[o])]) < MaxSubAccounts
  /\ subAccounts' = [subAccounts EXCEPT ![owner] =
                       Append(@, [delegation |-> id, active |-> TRUE])]
  /\ UNCHANGED <<ledger, admin, proposed, nextId, trailVars, nonceKey, owned>>

(* deactivate_sub_account *)
DeactivateSubAccount(owner, i) ==
  /\ i \in DOMAIN subAccounts[owner]
  /\ subAccounts[owner][i].active
  /\ subAccounts' = [subAccounts EXCEPT ![owner][i].active = FALSE]
  /\ UNCHANGED <<ledger, admin, proposed, nextId, trailVars, nonceKey, owned>>

(* reactivate_sub_account: not under a delegation marked dead. *)
ReactivateSubAccount(owner, i) ==
  /\ i \in DOMAIN subAccounts[owner]
  /\ ~subAccounts[owner][i].active
  /\ Exists(subAccounts[owner][i].delegation)
  /\ delegation[subAccounts[owner][i].delegation].status \notin {"Revoked", "Expired"}
  /\ subAccounts' = [subAccounts EXCEPT ![owner][i].active = TRUE]
  /\ UNCHANGED <<ledger, admin, proposed, nextId, trailVars, nonceKey, owned>>

(* get_active_sub_accounts *)
ActiveSubAccounts(owner) ==
  {i \in DOMAIN subAccounts[owner] :
     LET sub == subAccounts[owner][i]
     IN  /\ sub.active
         /\ delegation[sub.delegation].status = "Active"
         /\ ~Lapsed(delegation[sub.delegation])}

-----------------------------------------------------------------------------

AdminStep ==
  \/ \E a \in Admins : Initialize(a) \/ ProposeAdmin(a)
  \/ AcceptAdmin

DelegationStep(id) ==
  \/ \E by \in {"owner", "admin"} :
        PauseDelegation(id, by) \/ ResumeDelegation(id, by) \/ RevokeDelegation(id, by)
  \/ \E permissions \in SUBSET Flags : UpdatePermissions(id, permissions)
  \/ RevokeDelegationKey(id)
  \/ \E target \in 1..MaxTrail : RollbackDelegation(id, target)

SubAccountStep(owner) ==
  \/ \E id \in Ids : CreateSubAccount(owner, id)
  \/ \E i \in 1..MaxSubAccounts : DeactivateSubAccount(owner, i) \/ ReactivateSubAccount(owner, i)

RegistryNext ==
  \/ CloseLedger
  \/ AdminStep
  \/ \E owner \in Owners, contract \in Contracts, ttl \in Ttls, permissions \in SUBSET Flags :
        CreateDelegation(owner, contract, ttl, permissions)
  \/ \E id \in Ids : DelegationStep(id)
  \/ \E batch \in SUBSET Ids : SweepExpired(batch)
  \/ \E owner \in Owners : SubAccountStep(owner)

RegistrySpec == RegistryInit /\ [][RegistryNext]_registryVars

-----------------------------------------------------------------------------

(* Every variable holds a value of its storage type. *)
RegistryTypeOK ==
  /\ ledger \in Nat
  /\ admin \in Admins \cup {NoOne}
  /\ proposed \in Admins \cup {NoOne}
  /\ nextId \in 1..(MaxId + 1)
  /\ delegation \in [Ids -> DelegationRecord]
  /\ version \in [Ids -> Nat]
  /\ snapshot \in [Ids -> Seq(DelegationRecord)]
  /\ migrated \in [Ids -> BOOLEAN]
  /\ history \in [Ids -> Seq(Snapshot)]
  /\ nonceKey \in [Ids -> Nat]
  /\ owned \in [Owners -> Seq(Ids)]
  /\ subAccounts \in [Owners -> Seq(SubAccountRecord)]

(* Two trails of a delegation's versions are kept, the keyed snapshots     *)
(* that a rollback reads and the history that an auditor reads, and they   *)
(* agree with each other and with the record: the last "version" entries   *)
(* of the history are the snapshots of the versions 1 to the current one,  *)
(* and the newest is the record itself.  So a rollback to any lower        *)
(* version finds its snapshot, also in a contract whose keys are migrated  *)
(* on the way, and never one left by a delegation that had the id before.  *)
TrailMatchesRecord ==
  \A id \in Ids : Exists(id) =>
    LET v == version[id]
        before == Len(history[id]) - v
    IN  /\ v > 0
        /\ before >= 0
        /\ v <= Len(Snapshots(id))
        /\ Snapshots(id)[v] = delegation[id]
        /\ \A k \in 1..v :
             /\ history[id][before + k].version = k
             /\ history[id][before + k].record = Snapshots(id)[k]
             /\ Snapshots(id)[k].version = k

(* The id was handed out again: initialize reset the counter. *)
Reissued(id) == \E k \in 2..Len(history[id]) : history[id][k].version = 1

(* A sub-account stays under a delegation of its own owner, and one that   *)
(* is reported active hangs on an agent that is authorised right now.      *)
SubAccountsFollowOwner ==
  \A o \in Owners : \A i \in DOMAIN subAccounts[o] :
    LET id == subAccounts[o][i].delegation
    IN  /\ Exists(id)
        /\ delegation[id].owner = o \/ Reissued(id)
        /\ i \in ActiveSubAccounts(o) => Authorized(id, {}, delegation[id].nonce)

(* Whatever is resumed, re-keyed, rolled back or swept, in whatever order: *)
(* a delegation that has lapsed never authorises anyone again.  Only a new *)
(* delegation under the same id can.                                       *)
LapsedStaysDead ==
  [][\A id \in Ids :
       Exists(id) /\ Lapsed(delegation[id]) =>
         \/ ~Authorized(id, {}, delegation[id].nonce)'
         \/ Len(history'[id]) > Len(history[id]) /\ version'[id] = 1]_registryVars

=============================================================================
