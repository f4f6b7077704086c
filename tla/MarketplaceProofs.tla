------------------------- MODULE MarketplaceProofs -------------------------
(***************************************************************************)
(* Proofs about Marketplace, for any owners, names, verifiers, deposits    *)
(* and bounds.  The types and what a merchant nobody registered looks like *)
(* come first; on them rest the counters, the indexes, the tokens and the  *)
(* verifications, each an invariant of its own.                            *)
(***************************************************************************)
EXTENDS Marketplace, SumLemmas

-----------------------------------------------------------------------------
(* Types. *)

Merchant ==
  [owner : Owners \cup {NoOne}, name : Names \cup {NoOne}, category : Categories \cup {NoOne},
   status : MerchantStatus \cup {"None"}, verified : BOOLEAN]
Stats == [total : Nat, active : Nat, suspended : Nat, closed : Nat]
Policy == [required : Nat, raisedAt : Nat \cup {Never}]
Appeal == [status : {"None", "Pending", "UpheldAndReinstated", "RejectedAndSlashed"}, bond : Nat]

IndexTypes ==
  /\ ownerOf \in [Owners -> 0..MaxId] /\ nameOf \in [Names -> 0..MaxId]
  /\ listed \in SUBSET Ids /\ shelf \in [Categories -> SUBSET Ids]
  /\ repointed \in SUBSET Owners

VerificationTypes ==
  /\ verifiers \in SUBSET Verifiers
  /\ policy \in [Ids -> Policy]
  /\ attested \in [Ids -> SUBSET Verifiers] /\ count \in [Ids -> Nat]

MoneyTypes ==
  /\ deposit \in [Ids -> Nat] /\ appeal \in [Ids -> Appeal] /\ vault \in Int

(* A merchant exists from its registration on, with a known status, owner, *)
(* name and category.                                                      *)
RecordTypes ==
  /\ now \in Nat /\ nextId \in 1..(MaxId + 1)
  /\ merchant \in [Ids -> Merchant]
  /\ \A i \in Ids :
       /\ Exists(i) => /\ merchant[i].owner \in Owners /\ merchant[i].name \in Names
                       /\ merchant[i].category \in Categories /\ Status(i) \in MerchantStatus
       /\ ~Exists(i) => /\ merchant[i] = NoMerchant
                        /\ attested[i] = {} /\ count[i] = 0 /\ deposit[i] = 0

MarketTypes ==
  /\ RecordTypes /\ IndexTypes /\ VerificationTypes /\ MoneyTypes
  /\ stats \in Stats /\ open \in [Ids -> Nat]

LEMMA MarketConstants ==
  /\ MaxId \in Nat /\ Ids \subseteq Nat /\ IsFiniteSet(Ids) /\ MaxOpen \in Nat /\ Counts \subseteq Nat
  /\ Deposits \subseteq Nat /\ Bonds \subseteq Nat /\ Required \subseteq Nat
  /\ \A c \in Categories : Normal[c] \in Categories
  /\ NoOne \notin Owners \cup Names \cup Categories
<1>1. /\ MaxId \in Nat /\ MaxOpen \in Nat /\ Counts \subseteq Nat /\ Required \subseteq Nat
      /\ Deposits \subseteq Nat /\ Bonds \subseteq Nat
  BY MarketplaceAssumption
<1>2. Ids \subseteq Nat /\ IsFiniteSet(Ids)
  BY <1>1, FS_Interval DEF Ids
<1>3. \A c \in Categories : Normal[c] \in Categories
  BY MarketplaceAssumption
<1> QED
  BY <1>1, <1>2, <1>3, MarketplaceAssumption

LEMMA MarketInitTypes == MarketplaceInit => MarketTypes
<1> SUFFICES ASSUME MarketplaceInit PROVE MarketTypes
  OBVIOUS
<1>1. RecordTypes
  BY MarketConstants DEF MarketplaceInit, RecordTypes, NoMerchant, Merchant, Exists, Ids
<1>2. IndexTypes
  BY MarketConstants DEF MarketplaceInit, IndexTypes
<1>3. VerificationTypes
  BY MarketConstants DEF MarketplaceInit, VerificationTypes, NoPolicy, Policy, Never
<1>4. MoneyTypes
  BY MarketConstants DEF MarketplaceInit, MoneyTypes, NoAppeal, Appeal
<1> QED
  BY <1>1, <1>2, <1>3, <1>4 DEF MarketplaceInit, MarketTypes, Stats

(* What stays as it is keeps its type. *)
LEMMA IndexTypesKept == IndexTypes /\ UNCHANGED <<indexVars, repointed>> => IndexTypes'
  BY DEF IndexTypes, indexVars
LEMMA VerificationTypesKept == VerificationTypes /\ UNCHANGED verificationVars => VerificationTypes'
  BY DEF VerificationTypes, verificationVars
LEMMA MoneyTypesKept == MoneyTypes /\ UNCHANGED moneyVars => MoneyTypes'
  BY DEF MoneyTypes, moneyVars

(* One record is written over by another; the rest stays. *)
Recorded(i, r) ==
  /\ merchant' = [merchant EXCEPT ![i] = r] /\ nextId' = nextId
  /\ r.owner = merchant[i].owner

LEMMA RecordKept ==
  ASSUME RecordTypes, NEW i \in Ids, Exists(i), NEW r, Recorded(i, r), now' \in Nat,
         r \in Merchant, r.name \in Names, r.category \in Categories, r.status \in MerchantStatus,
         \A j \in Ids : ~Exists(j) => attested'[j] = {} /\ count'[j] = 0 /\ deposit'[j] = 0
  PROVE  RecordTypes'
  BY MarketConstants DEF RecordTypes, Recorded, Exists, Status

LEMMA RecordsUntouched ==
  ASSUME RecordTypes, UNCHANGED <<merchant, nextId>>, now' \in Nat,
         \A j \in Ids : ~Exists(j) => attested'[j] = {} /\ count'[j] = 0 /\ deposit'[j] = 0
  PROVE  RecordTypes'
  BY DEF RecordTypes, Exists, Status

(* Only the status of a merchant changes. *)
Restated(i, s) ==
  /\ Exists(i) /\ s \in MerchantStatus
  /\ SetStatus(i, s) /\ nextId' = nextId

LEMMA Restatement ==
  ASSUME RecordTypes, NEW i \in Ids, NEW s, Restated(i, s)
  PROVE  /\ merchant' \in [Ids -> Merchant] /\ Status(i)' = s
         /\ \A j \in Ids : /\ merchant'[j].owner = merchant[j].owner
                           /\ merchant'[j].name = merchant[j].name
                           /\ merchant'[j].category = merchant[j].category
                           /\ merchant'[j].verified = merchant[j].verified
                           /\ j # i => merchant'[j] = merchant[j] /\ Status(j)' = Status(j)
  BY DEF RecordTypes, Restated, SetStatus, Status, Merchant

LEMMA RestatementTypes ==
  ASSUME RecordTypes, NEW i \in Ids, NEW s, Restated(i, s), now' = now,
         UNCHANGED <<attested, count>>, \A j \in Ids : ~Exists(j) => deposit'[j] = 0
  PROVE  RecordTypes'
<1>1. /\ merchant' \in [Ids -> Merchant] /\ Status(i)' = s
      /\ \A j \in Ids : /\ merchant'[j].owner = merchant[j].owner
                        /\ merchant'[j].name = merchant[j].name
                        /\ merchant'[j].category = merchant[j].category
                        /\ j # i => merchant'[j] = merchant[j] /\ Status(j)' = Status(j)
  BY Restatement
<1> QED
  BY <1>1 DEF RecordTypes, Restated, Exists, Status

-----------------------------------------------------------------------------
(* The steps, by what they are about. *)

Registers == \E o \in Owners, n \in Names, c \in Categories, r \in Required, d \in Deposits :
               RegisterMerchant(o, n, c, r, d)
Rules ==
  \/ \E v \in Verifiers : AddVerifier(v) \/ RemoveVerifier(v)
  \/ \E i \in Ids, r \in Required : SetVerificationPolicy(i, r)
Renames(i) == \E n \in Names, c \in Categories : UpdateMerchantProfile(i, n, c)
Attests(i) ==
  \/ \E v \in Verifiers : VerifyMerchant(i, v)
  \/ RevokeVerification(i) \/ RevalidateMerchantStatus(i)
Enforces(i) ==
  \/ SuspendMerchant(i) \/ UnsuspendMerchant(i) \/ BanMerchant(i) \/ DeactivateMerchant(i)
Appeals(i) == (\E b \in Bonds : FileAppeal(i, b)) \/ UpholdAppeal(i) \/ RejectAppeal(i)
Reports(i) ==
  \/ ReportEscrowOpened(i) \/ ReportEscrowSettled(i)
  \/ \E n \in Counts : SetActiveEscrowCount(i, n)
Ends(i) == CloseMerchant(i) \/ DeregisterMerchant(i)
Prunes == \E ids \in SUBSET Ids : PruneClosedMerchants(ids)

LEMMA MarketSteps ==
  ASSUME MarketplaceNext
  PROVE  \/ Registers \/ Rules \/ Prunes \/ Tick
         \/ \E i \in Ids : \/ Renames(i) \/ Attests(i) \/ Enforces(i)
                           \/ Appeals(i) \/ Reports(i) \/ Ends(i)
  BY DEF MarketplaceNext, Registers, Rules, Renames, Attests, Enforces, Appeals, Reports, Ends,
         Prunes

(* What calls make of the counters, field by field. *)
Reads(st, t, a, s, c) ==
  st \in Stats /\ st.total = t /\ st.active = a /\ st.suspended = s /\ st.closed = c

LEMMA ReadsOne ==
  ASSUME NEW st \in Stats, NEW x \in Nat
  PROVE  /\ Reads([st EXCEPT !.active = x], st.total, x, st.suspended, st.closed)
         /\ Reads([st EXCEPT !.suspended = x], st.total, st.active, x, st.closed)
         /\ Reads([st EXCEPT !.closed = x], st.total, st.active, st.suspended, x)
  BY DEF Stats, Reads

LEMMA ReadsTwo ==
  ASSUME NEW st \in Stats, NEW x \in Nat, NEW y \in Nat
  PROVE  /\ Reads([st EXCEPT !.total = x, !.active = y], x, y, st.suspended, st.closed)
         /\ Reads([st EXCEPT !.active = x, !.suspended = y], st.total, x, y, st.closed)
         /\ Reads([st EXCEPT !.suspended = x, !.active = y], st.total, y, x, st.closed)
         /\ Reads([st EXCEPT !.suspended = x, !.closed = y], st.total, st.active, x, y)
         /\ Reads([st EXCEPT !.active = x, !.closed = y], st.total, x, st.suspended, y)
  BY DEF Stats, Reads

LEMMA LessType == \A n \in Nat : Less(n) \in Nat /\ (n > 0 => Less(n) = n - 1)
  BY DEF Less

LEMMA Counters ==
  ASSUME NEW st \in Stats
  PROVE  /\ Reads([st EXCEPT !.total = @ + 1, !.active = @ + 1],
                  st.total + 1, st.active + 1, st.suspended, st.closed)
         /\ Reads(Suspend(st), st.total, Less(st.active), st.suspended + 1, st.closed)
         /\ Reads(Unsuspend(st), st.total, st.active + 1, Less(st.suspended), st.closed)
         /\ Reads([st EXCEPT !.suspended = @ + 1], st.total, st.active, st.suspended + 1, st.closed)
         /\ Reads([st EXCEPT !.suspended = Less(@)],
                  st.total, st.active, Less(st.suspended), st.closed)
         /\ Reads([st EXCEPT !.active = Less(@)],
                  st.total, Less(st.active), st.suspended, st.closed)
         /\ Reads([st EXCEPT !.suspended = Less(@), !.closed = @ + 1],
                  st.total, st.active, Less(st.suspended), st.closed + 1)
         /\ Reads([st EXCEPT !.active = Less(@), !.closed = @ + 1],
                  st.total, Less(st.active), st.suspended, st.closed + 1)
         /\ Reads([st EXCEPT !.closed = @ + 1], st.total, st.active, st.suspended, st.closed + 1)
<1> DEFINE t == st.total + 1
           a == st.active + 1
           s == st.suspended + 1
           c == st.closed + 1
           fewerA == Less(st.active)
           fewerS == Less(st.suspended)
<1>1. t \in Nat /\ a \in Nat /\ s \in Nat /\ c \in Nat /\ fewerA \in Nat /\ fewerS \in Nat
  BY LessType DEF Stats
<1> HIDE DEF t, a, s, c, fewerA, fewerS
<1>2. Reads([st EXCEPT !.total = t, !.active = a], t, a, st.suspended, st.closed)
  BY <1>1, ReadsTwo
<1>3. Reads([st EXCEPT !.active = fewerA, !.suspended = s], st.total, fewerA, s, st.closed)
  BY <1>1, ReadsTwo
<1>4. Reads([st EXCEPT !.suspended = fewerS, !.active = a], st.total, a, fewerS, st.closed)
  BY <1>1, ReadsTwo
<1>5. Reads([st EXCEPT !.suspended = fewerS, !.closed = c], st.total, st.active, fewerS, c)
  BY <1>1, ReadsTwo
<1>6. Reads([st EXCEPT !.active = fewerA, !.closed = c], st.total, fewerA, st.suspended, c)
  BY <1>1, ReadsTwo
<1>7. /\ Reads([st EXCEPT !.suspended = s], st.total, st.active, s, st.closed)
      /\ Reads([st EXCEPT !.suspended = fewerS], st.total, st.active, fewerS, st.closed)
      /\ Reads([st EXCEPT !.active = fewerA], st.total, fewerA, st.suspended, st.closed)
      /\ Reads([st EXCEPT !.closed = c], st.total, st.active, st.suspended, c)
  BY <1>1, ReadsOne
<1> USE DEF t, a, s, c, fewerA, fewerS
<1> QED
  BY <1>2, <1>3, <1>4, <1>5, <1>6, <1>7, Zenon DEF Suspend, Unsuspend

LEMMA RegisterTypes == ASSUME MarketTypes, Registers PROVE MarketTypes'
<1>1. PICK o \in Owners, n \in Names, c \in Categories, r \in Required, d \in Deposits :
        RegisterMerchant(o, n, c, r, d)
  BY DEF Registers
<1> DEFINE i == nextId
           asked == IF r = 0 THEN 1 ELSE r
           new == [owner |-> o, name |-> n, category |-> Normal[c],
                   status |-> "Registered", verified |-> FALSE]
<1>2. /\ i \in Ids /\ asked \in Nat /\ Normal[c] \in Categories /\ d \in Nat
      /\ merchant' = [merchant EXCEPT ![i] = new] /\ nextId' = i + 1 /\ now' = now
      /\ ownerOf' = [ownerOf EXCEPT ![o] = i] /\ nameOf' = [nameOf EXCEPT ![n] = i]
      /\ listed' = listed \cup {i} /\ shelf' = [shelf EXCEPT ![Normal[c]] = @ \cup {i}]
      /\ stats' = [stats EXCEPT !.total = @ + 1, !.active = @ + 1]
      /\ policy' = [policy EXCEPT ![i].required = asked]
      /\ attested' = attested /\ count' = [count EXCEPT ![i] = 0]
      /\ deposit' = [deposit EXCEPT ![i] = d] /\ vault' = vault + d
      /\ UNCHANGED <<verifiers, appeal, open, repointed>>
  BY <1>1, MarketConstants DEF RegisterMerchant, MarketTypes, RecordTypes, Ids
<1>3. new \in Merchant
  BY <1>2 DEF Merchant, MerchantStatus
<1> HIDE DEF asked
<1>4. RecordTypes'
  <2>1. /\ merchant' \in [Ids -> Merchant] /\ merchant'[i] = new
        /\ \A j \in Ids \ {i} : merchant'[j] = merchant[j]
    BY <1>2, <1>3 DEF MarketTypes, RecordTypes
  <2>2. nextId' \in 1..(MaxId + 1) /\ now' \in Nat
    BY <1>2, MarketConstants DEF MarketTypes, RecordTypes, Ids
  <2>3. \A j \in Ids : Exists(j)' <=> Exists(j) \/ j = i
    BY <1>2, MarketConstants DEF MarketTypes, RecordTypes, Exists, Ids
  <2>4. \A j \in Ids \ {i} : attested'[j] = attested[j] /\ count'[j] = count[j] /\ deposit'[j] = deposit[j]
    BY <1>2 DEF MarketTypes, VerificationTypes, MoneyTypes
  <2>5. ASSUME NEW j \in Ids, Exists(j)'
        PROVE  /\ merchant'[j].owner \in Owners /\ merchant'[j].name \in Names
               /\ merchant'[j].category \in Categories /\ Status(j)' \in MerchantStatus
    <3>1. CASE j = i
      BY <1>2, <2>1, <3>1 DEF Status, MerchantStatus
    <3>2. CASE j # i
      BY <2>1, <2>3, <2>5, <3>2 DEF MarketTypes, RecordTypes, Status
    <3> QED
      BY <3>1, <3>2
  <2>6. \A j \in Ids : ~Exists(j)' => /\ merchant'[j] = NoMerchant
                                     /\ attested'[j] = {} /\ count'[j] = 0 /\ deposit'[j] = 0
    BY <2>1, <2>3, <2>4 DEF MarketTypes, RecordTypes
  <2> QED
    BY <2>1, <2>2, <2>5, <2>6 DEF RecordTypes
<1>5. IndexTypes'
  BY <1>2, MarketConstants DEF MarketTypes, IndexTypes, Ids
<1>6. VerificationTypes'
  BY <1>2 DEF MarketTypes, VerificationTypes, Policy
<1>7. MoneyTypes'
  BY <1>2 DEF MarketTypes, MoneyTypes
<1>8. stats' \in Stats /\ open' \in [Ids -> Nat]
  <2>1. stats \in Stats /\ open' \in [Ids -> Nat]
    BY <1>2 DEF MarketTypes
  <2>2. stats' = [stats EXCEPT !.total = @ + 1, !.active = @ + 1]
    BY <1>2
  <2> QED
    BY <2>1, <2>2, Counters DEF Reads
<1> QED
  BY <1>4, <1>5, <1>6, <1>7, <1>8 DEF MarketTypes

LEMMA RenameTypes == ASSUME MarketTypes, NEW i \in Ids, Renames(i) PROVE MarketTypes'
<1>1. PICK n \in Names, c \in Categories : UpdateMerchantProfile(i, n, c)
  BY DEF Renames
<1>2. /\ Exists(i) /\ UNCHANGED <<now, nextId, verificationVars, moneyVars, stats, open>>
      /\ merchant' = [merchant EXCEPT ![i].name = n, ![i].category = c]
  BY <1>1 DEF UpdateMerchantProfile, InBusiness
<1>3. RecordTypes'
  <2> DEFINE r == [merchant[i] EXCEPT !.name = n, !.category = c]
  <2>1. merchant[i] \in Merchant /\ Status(i) \in MerchantStatus
    BY <1>2 DEF MarketTypes, RecordTypes
  <2>2. r \in Merchant /\ r.name = n /\ r.category = c /\ r.status = Status(i) /\ r.owner = merchant[i].owner
    BY <2>1 DEF Merchant, Status
  <2>3. merchant' = [merchant EXCEPT ![i] = r]
    BY <1>2 DEF MarketTypes, RecordTypes
  <2>4. Recorded(i, r)
    BY <1>2, <2>2, <2>3 DEF Recorded
  <2>5. /\ now' \in Nat
        /\ \A j \in Ids : ~Exists(j) => attested'[j] = {} /\ count'[j] = 0 /\ deposit'[j] = 0
    BY <1>2 DEF MarketTypes, RecordTypes, verificationVars, moneyVars
  <2> HIDE DEF r
  <2> QED
    BY <1>2, <2>1, <2>2, <2>4, <2>5, RecordKept DEF MarketTypes
<1>4. IndexTypes'
  <2>1. nameOf' \in [Names -> 0..MaxId]
    <3>1. i \in 0..MaxId /\ 0 \in 0..MaxId
      BY MarketConstants DEF Ids
    <3>2. nameOf \in [Names -> 0..MaxId]
      BY DEF MarketTypes, IndexTypes
    <3>3. nameOf' = nameOf \/ nameOf' = [nameOf EXCEPT ![merchant[i].name] = 0, ![n] = i]
      BY <1>1 DEF UpdateMerchantProfile
    <3> QED
      BY ONLY <3>1, <3>2, <3>3
  <2>2. shelf' \in [Categories -> SUBSET Ids]
    BY <1>1 DEF UpdateMerchantProfile, MarketTypes, IndexTypes
  <2> QED
    BY <1>1, <2>1, <2>2 DEF UpdateMerchantProfile, MarketTypes, IndexTypes
<1> QED
  BY <1>2, <1>3, <1>4, VerificationTypesKept, MoneyTypesKept DEF MarketTypes

LEMMA RuleTypes == ASSUME MarketTypes, Rules PROVE MarketTypes'
<1>1. /\ UNCHANGED <<now, merchant, nextId, indexVars, stats, attested, count, moneyVars, open, repointed>>
      /\ verifiers' \in SUBSET Verifiers /\ policy' \in [Ids -> Policy]
  <2>1. CASE \E v \in Verifiers : AddVerifier(v) \/ RemoveVerifier(v)
    BY <2>1 DEF AddVerifier, RemoveVerifier, MarketTypes, VerificationTypes
  <2>2. ASSUME NEW i \in Ids, NEW r \in Required, SetVerificationPolicy(i, r)
        PROVE  <1>1!:
    <3>1. [required |-> r, raisedAt |-> IF r > policy[i].required THEN now ELSE policy[i].raisedAt]
            \in Policy
      BY MarketConstants DEF MarketTypes, VerificationTypes, RecordTypes, Policy
    <3> QED
      BY <2>2, <3>1 DEF SetVerificationPolicy, MarketTypes, VerificationTypes
  <2> QED
    BY <2>1, <2>2 DEF Rules
<1>2. RecordTypes'
  BY <1>1, RecordsUntouched DEF MarketTypes, RecordTypes, moneyVars
<1> QED
  BY <1>1, <1>2, IndexTypesKept, MoneyTypesKept DEF MarketTypes, VerificationTypes

LEMMA AttestTypes == ASSUME MarketTypes, NEW i \in Ids, Attests(i) PROVE MarketTypes'
<1>1. /\ UNCHANGED <<now, nextId, indexVars, stats, verifiers, policy, moneyVars, open, repointed>>
      /\ Exists(i)
      /\ attested' \in [Ids -> SUBSET Verifiers] /\ count' \in [Ids -> Nat]
      /\ \A j \in Ids \ {i} : attested'[j] = attested[j] /\ count'[j] = count[j]
  <2>1. ASSUME NEW v \in Verifiers, VerifyMerchant(i, v)
        PROVE  <1>1!:
    BY <2>1 DEF VerifyMerchant, InBusiness, MarketTypes, VerificationTypes
  <2>2. CASE RevokeVerification(i)
    BY <2>2 DEF RevokeVerification, InBusiness, MarketTypes, VerificationTypes
  <2>3. CASE RevalidateMerchantStatus(i)
    BY <2>3 DEF RevalidateMerchantStatus, InBusiness, MarketTypes, VerificationTypes, verificationVars
  <2> QED
    BY <2>1, <2>2, <2>3 DEF Attests
<1>2. \E verified \in BOOLEAN, s \in MerchantStatus :
        \/ merchant' = merchant
        \/ merchant' = [merchant EXCEPT ![i].verified = verified, ![i].status = s]
  BY DEF Attests, VerifyMerchant, RevokeVerification, RevalidateMerchantStatus, MerchantStatus
<1>3. PICK verified \in BOOLEAN, s \in MerchantStatus :
        \/ merchant' = merchant
        \/ merchant' = [merchant EXCEPT ![i].verified = verified, ![i].status = s]
  BY <1>2
<1>4. /\ now' \in Nat /\ nextId' = nextId
      /\ \A j \in Ids : ~Exists(j) => attested'[j] = {} /\ count'[j] = 0 /\ deposit'[j] = 0
  BY <1>1 DEF MarketTypes, RecordTypes, moneyVars
<1>5. RecordTypes'
  <2>1. CASE merchant' = merchant
    BY <1>4, <2>1, RecordsUntouched DEF MarketTypes
  <2>2. CASE merchant' = [merchant EXCEPT ![i].verified = verified, ![i].status = s]
    <3> DEFINE r == [merchant[i] EXCEPT !.verified = verified, !.status = s]
    <3>1. /\ merchant[i] \in Merchant /\ merchant[i].name \in Names
          /\ merchant[i].category \in Categories
      BY <1>1 DEF MarketTypes, RecordTypes
    <3>2. /\ r \in Merchant /\ r.name = merchant[i].name /\ r.category = merchant[i].category
          /\ r.status = s /\ r.owner = merchant[i].owner
      BY <3>1 DEF Merchant
    <3>3. merchant' = [merchant EXCEPT ![i] = r]
      BY <2>2 DEF MarketTypes, RecordTypes
    <3>4. Recorded(i, r)
      BY <1>4, <3>2, <3>3 DEF Recorded
    <3> HIDE DEF r
    <3> QED
      BY <1>1, <1>4, <3>1, <3>2, <3>4, RecordKept DEF MarketTypes
  <2> QED
    BY <1>3, <2>1, <2>2
<1>6. VerificationTypes'
  BY <1>1 DEF MarketTypes, VerificationTypes
<1> QED
  BY <1>1, <1>5, <1>6, IndexTypesKept, MoneyTypesKept DEF MarketTypes

(* An enforcement action moves a merchant that is not Closed among the     *)
(* statuses short of Closed.                                               *)
LEMMA EnforceRestates ==
  ASSUME MarketTypes, NEW i \in Ids, Enforces(i)
  PROVE  \E s \in MerchantStatus \ {"Closed"} :
           /\ Restated(i, s) /\ PointOwnerAt(i) /\ Status(i) # "Closed"
           /\ UNCHANGED <<now, nameOf, listed, shelf, verificationVars, moneyVars, open, repointed>>
<1>1. CASE SuspendMerchant(i)
  BY <1>1 DEF SuspendMerchant, Restated, MerchantStatus
<1>2. CASE UnsuspendMerchant(i)
  BY <1>2 DEF UnsuspendMerchant, Restated, MerchantStatus, Reinstated
<1>3. CASE BanMerchant(i)
  BY <1>3 DEF BanMerchant, Restated, MerchantStatus
<1>4. CASE DeactivateMerchant(i)
  BY <1>4 DEF DeactivateMerchant, Restated, MerchantStatus
<1> QED
  BY <1>1, <1>2, <1>3, <1>4 DEF Enforces

LEMMA EnforceTypes == ASSUME MarketTypes, NEW i \in Ids, Enforces(i) PROVE MarketTypes'
<1>1. PICK s \in MerchantStatus \ {"Closed"} :
        /\ Restated(i, s) /\ PointOwnerAt(i) /\ Status(i) # "Closed"
        /\ UNCHANGED <<now, nameOf, listed, shelf, verificationVars, moneyVars, open, repointed>>
  BY EnforceRestates
<1>2. RecordTypes'
  <2>1. RecordTypes /\ \A j \in Ids : ~Exists(j) => deposit'[j] = 0
    BY <1>1 DEF MarketTypes, RecordTypes, moneyVars
  <2> QED
    BY <1>1, <2>1, RestatementTypes DEF verificationVars
<1>3. IndexTypes'
  <2>1. ownerOf' \in [Owners -> 0..MaxId]
    BY <1>1, MarketConstants DEF PointOwnerAt, Restated, MarketTypes, RecordTypes, IndexTypes, Ids
  <2> QED
    BY <1>1, <2>1 DEF MarketTypes, IndexTypes
<1>4. stats' \in Stats
  <2>1. CASE SuspendMerchant(i)
    BY <2>1, Counters DEF SuspendMerchant, MarketTypes, Reads
  <2>2. CASE UnsuspendMerchant(i)
    BY <2>2, Counters DEF UnsuspendMerchant, MarketTypes, Reads
  <2>3. CASE BanMerchant(i)
    BY <2>3, Counters DEF BanMerchant, MarketTypes, Reads
  <2>4. CASE DeactivateMerchant(i)
    BY <2>4, Counters DEF DeactivateMerchant, MarketTypes, Reads
  <2> QED
    BY <2>1, <2>2, <2>3, <2>4 DEF Enforces
<1> QED
  BY <1>1, <1>2, <1>3, <1>4, VerificationTypesKept, MoneyTypesKept DEF MarketTypes

LEMMA AppealTypes == ASSUME MarketTypes, NEW i \in Ids, Appeals(i) PROVE MarketTypes'
<1>1. /\ UNCHANGED <<now, nextId, indexVars, verificationVars, deposit, open, repointed>>
      /\ appeal' \in [Ids -> Appeal] /\ vault' \in Int /\ stats' \in Stats
      /\ \/ merchant' = merchant
         \/ Restated(i, Reinstated(i))
  <2>1. ASSUME NEW b \in Bonds, FileAppeal(i, b)
        PROVE  <1>1!:
    <3>1. [status |-> "Pending", bond |-> b] \in Appeal /\ b \in Nat
      BY MarketConstants DEF Appeal
    <3> QED
      BY <2>1, <3>1 DEF FileAppeal, MarketTypes, MoneyTypes
  <2>2. CASE UpholdAppeal(i)
    <3>1. appeal' \in [Ids -> Appeal] /\ vault' \in Int
      BY <2>2 DEF UpholdAppeal, MarketTypes, MoneyTypes, Appeal
    <3>2. stats' \in Stats
      BY <2>2, Counters DEF UpholdAppeal, MarketTypes, Reads
    <3>3. Status(i) = "Suspended" => Exists(i)
      BY DEF MarketTypes, RecordTypes, Status, NoMerchant
    <3>4. merchant' = merchant \/ Restated(i, Reinstated(i))
      BY <2>2, <3>3 DEF UpholdAppeal, Restated, Reinstated, MerchantStatus
    <3> QED
      BY <2>2, <3>1, <3>2, <3>4 DEF UpholdAppeal
  <2>3. CASE RejectAppeal(i)
    BY <2>3 DEF RejectAppeal, MarketTypes, MoneyTypes, Appeal
  <2> QED
    BY <2>1, <2>2, <2>3 DEF Appeals
<1>2. \A j \in Ids : ~Exists(j) => attested'[j] = {} /\ count'[j] = 0 /\ deposit'[j] = 0
  BY <1>1 DEF MarketTypes, RecordTypes, verificationVars
<1>3. RecordTypes'
  <2>1. CASE merchant' = merchant
    BY <1>1, <1>2, <2>1, RecordsUntouched DEF MarketTypes, RecordTypes
  <2>2. CASE Restated(i, Reinstated(i))
    BY <1>1, <1>2, <2>2, RestatementTypes DEF MarketTypes, verificationVars
  <2> QED
    BY <1>1, <2>1, <2>2
<1>4. MoneyTypes'
  BY <1>1 DEF MarketTypes, MoneyTypes
<1> QED
  BY <1>1, <1>3, <1>4, IndexTypesKept, VerificationTypesKept DEF MarketTypes

LEMMA ReportTypes == ASSUME MarketTypes, NEW i \in Ids, Reports(i) PROVE MarketTypes'
<1>1. PICK n \in Nat : SetOpen(i, n)
  BY MarketConstants, LessType
     DEF Reports, ReportEscrowOpened, ReportEscrowSettled, SetActiveEscrowCount, MarketTypes
<1>2. RecordTypes'
  BY <1>1, RecordsUntouched
     DEF SetOpen, MarketTypes, RecordTypes, verificationVars, moneyVars
<1> QED
  BY <1>1, <1>2, IndexTypesKept, VerificationTypesKept, MoneyTypesKept DEF SetOpen, MarketTypes

(* The end of a storefront, whichever way. *)
LEMMA EndRestates ==
  ASSUME MarketTypes, NEW i \in Ids, Ends(i)
  PROVE  /\ Restated(i, "Closed") /\ stats' = Retired(Status(i)) /\ Delist({i})
         /\ UNCHANGED <<now, nameOf, verificationVars, appeal, open>>
         /\ \/ /\ PointOwnerAt(i) /\ UNCHANGED <<deposit, vault>>
               /\ repointed' = IF ownerOf[merchant[i].owner] = i THEN repointed
                               ELSE repointed \cup {merchant[i].owner}
            \/ /\ UNCHANGED <<ownerOf, repointed>>
               /\ vault' = vault - deposit[i] /\ deposit' = [deposit EXCEPT ![i] = 0]
  BY DEF Ends, CloseMerchant, DeregisterMerchant, Restated, MerchantStatus, moneyVars

LEMMA DelistTypes ==
  ASSUME IndexTypes, NEW gone, Delist(gone)
  PROVE  listed' \in SUBSET Ids /\ shelf' \in [Categories -> SUBSET Ids]
  BY DEF IndexTypes, Delist

LEMMA EndTypes == ASSUME MarketTypes, NEW i \in Ids, Ends(i) PROVE MarketTypes'
<1>1. /\ Restated(i, "Closed") /\ stats' = Retired(Status(i)) /\ Delist({i})
      /\ UNCHANGED <<now, nameOf, verificationVars, appeal, open>>
      /\ \/ /\ PointOwnerAt(i) /\ UNCHANGED <<deposit, vault>>
            /\ repointed' = IF ownerOf[merchant[i].owner] = i THEN repointed
                            ELSE repointed \cup {merchant[i].owner}
         \/ /\ UNCHANGED <<ownerOf, repointed>>
            /\ vault' = vault - deposit[i] /\ deposit' = [deposit EXCEPT ![i] = 0]
  BY EndRestates
<1>2. MoneyTypes'
  BY <1>1 DEF MarketTypes, MoneyTypes
<1>3. RecordTypes'
  <2>1. \A j \in Ids : ~Exists(j) => deposit'[j] = 0
    BY <1>1 DEF MarketTypes, RecordTypes, MoneyTypes
  <2> QED
    BY <1>1, <2>1, RestatementTypes DEF MarketTypes, verificationVars
<1>4. IndexTypes'
  <2>1. listed' \in SUBSET Ids /\ shelf' \in [Categories -> SUBSET Ids]
    BY <1>1, DelistTypes DEF MarketTypes
  <2>2. merchant[i].owner \in Owners /\ i \in 0..MaxId
    BY <1>1, MarketConstants DEF Restated, MarketTypes, RecordTypes, Ids
  <2>3. ownerOf' \in [Owners -> 0..MaxId] /\ repointed' \in SUBSET Owners
    BY <1>1, <2>2 DEF MarketTypes, IndexTypes, PointOwnerAt
  <2> QED
    BY <1>1, <2>1, <2>3 DEF MarketTypes, IndexTypes
<1>5. stats' \in Stats
  <2>1. Status(i) \in MerchantStatus /\ stats \in Stats
    BY <1>1 DEF Restated, MarketTypes, RecordTypes
  <2> QED
    BY <1>1, <2>1, Counters DEF Retired, MerchantStatus, Reads
<1> QED
  BY <1>1, <1>2, <1>3, <1>4, <1>5, VerificationTypesKept DEF MarketTypes

LEMMA PruneTypes == ASSUME MarketTypes, Prunes PROVE MarketTypes'
<1>1. PICK ids \in SUBSET Ids : PruneClosedMerchants(ids)
  BY DEF Prunes
<1>2. IndexTypes'
  BY <1>1, DelistTypes DEF PruneClosedMerchants, MarketTypes, IndexTypes
<1>3. RecordTypes'
  BY <1>1, RecordsUntouched
     DEF PruneClosedMerchants, MarketTypes, RecordTypes, verificationVars, moneyVars
<1> QED
  BY <1>1, <1>2, <1>3, VerificationTypesKept, MoneyTypesKept DEF PruneClosedMerchants, MarketTypes

LEMMA TickTypes == ASSUME MarketTypes, Tick PROVE MarketTypes'
<1>1. RecordTypes'
  BY RecordsUntouched DEF Tick, MarketTypes, RecordTypes, verificationVars, moneyVars
<1> QED
  BY <1>1, IndexTypesKept, VerificationTypesKept, MoneyTypesKept DEF Tick, MarketTypes

LEMMA MarketTypesStep == MarketTypes /\ [MarketplaceNext]_marketVars => MarketTypes'
<1> SUFFICES ASSUME MarketTypes, [MarketplaceNext]_marketVars PROVE MarketTypes'
  OBVIOUS
<1>1. CASE UNCHANGED marketVars
  <2>1. RecordTypes'
    BY <1>1, RecordsUntouched DEF marketVars, MarketTypes, RecordTypes, verificationVars, moneyVars
  <2> QED
    BY <1>1, <2>1, IndexTypesKept, VerificationTypesKept, MoneyTypesKept DEF marketVars, MarketTypes
<1>2. CASE MarketplaceNext
  <2>1. ASSUME NEW i \in Ids, \/ Renames(i) \/ Attests(i) \/ Enforces(i)
                              \/ Appeals(i) \/ Reports(i) \/ Ends(i)
        PROVE  MarketTypes'
    BY <2>1, RenameTypes, AttestTypes, EnforceTypes, AppealTypes, ReportTypes, EndTypes
  <2> QED
    BY <1>2, <2>1, MarketSteps, RegisterTypes, RuleTypes, PruneTypes, TickTypes
<1> QED
  BY <1>1, <1>2

(* Every field holds a value of its storage type, and what nobody has      *)
(* registered has no record, votes or deposit.                             *)
THEOREM MarketTypesInvariant == MarketplaceSpec => []MarketTypes
<1> QED
  BY MarketInitTypes, MarketTypesStep, PTL DEF MarketplaceSpec

-----------------------------------------------------------------------------
(* Verifications. *)

(* What VerifiedIsEarned says of one merchant. *)
Earned(i) ==
  /\ count[i] = Cardinality(attested[i])
  /\ merchant[i].verified => count[i] >= policy[i].required \/ policy[i].raisedAt # Never
  /\ InBusiness(i) => Status(i) = Reinstated(i)

(* A merchant of whom nothing changes that counts stays as it is. *)
LEMMA EarnedKept ==
  ASSUME NEW i, Earned(i), Exists(i)' <=> Exists(i),
         merchant'[i].verified = merchant[i].verified,
         attested'[i] = attested[i], count'[i] = count[i], policy'[i] = policy[i],
         Status(i)' = Status(i) \/ Status(i)' \notin {"Registered", "Verified"}
                                \/ Status(i)' = Reinstated(i)
  PROVE  Earned(i)'
<1>1. Reinstated(i)' = Reinstated(i)
  BY DEF Reinstated
<1>2. Cardinality(attested'[i]) = Cardinality(attested[i])
  OBVIOUS
<1> QED
  BY <1>1, <1>2 DEF Earned, InBusiness

(* What a merchant's verification is read from. *)
Vouched(i) == <<merchant[i].verified, Status(i), attested[i], count[i], policy[i]>>

LEMMA NothingVouched ==
  ASSUME MarketTypes, VerifiedIsEarned, nextId' = nextId,
         \A i \in Ids : Vouched(i)' = Vouched(i)
  PROVE  VerifiedIsEarned'
<1> SUFFICES ASSUME NEW i \in Ids, Exists(i)' PROVE Earned(i)'
  BY DEF VerifiedIsEarned, Registered, Earned
<1>1. Exists(i) /\ Earned(i)
  BY DEF Exists, VerifiedIsEarned, Registered, Earned
<1> QED
  BY <1>1, EarnedKept DEF Vouched

(* Only the status of one merchant moves. *)
LEMMA RestatedVouched ==
  ASSUME MarketTypes, VerifiedIsEarned, NEW i \in Ids, NEW s, Restated(i, s),
         UNCHANGED <<attested, count, policy>>,
         s \notin {"Registered", "Verified"} \/ s = Reinstated(i)
  PROVE  VerifiedIsEarned'
<1> SUFFICES ASSUME NEW j \in Ids, Exists(j)' PROVE Earned(j)'
  BY DEF VerifiedIsEarned, Registered, Earned
<1>1. Exists(j) /\ Earned(j)
  BY DEF Restated, Exists, VerifiedIsEarned, Registered, Earned
<1>2. /\ merchant'[j].verified = merchant[j].verified /\ (Exists(j)' <=> Exists(j))
      /\ Status(i)' = s /\ (j # i => Status(j)' = Status(j))
  BY Restatement DEF MarketTypes, Restated, Exists
<1> QED
  BY <1>1, <1>2, EarnedKept

LEMMA RegisterVouched == ASSUME MarketTypes, VerifiedIsEarned, Registers PROVE VerifiedIsEarned'
<1>1. PICK o \in Owners, n \in Names, c \in Categories, r \in Required, d \in Deposits :
        RegisterMerchant(o, n, c, r, d)
  BY DEF Registers
<1>2. /\ nextId \in Ids /\ ~Exists(nextId) /\ nextId' = nextId + 1
      /\ attested' = attested /\ count' = [count EXCEPT ![nextId] = 0]
      /\ merchant' = [merchant EXCEPT ![nextId] =
           [owner |-> o, name |-> n, category |-> Normal[c],
            status |-> "Registered", verified |-> FALSE]]
      /\ \A j \in Ids \ {nextId} : policy'[j] = policy[j]
  BY <1>1, MarketConstants DEF RegisterMerchant, MarketTypes, RecordTypes, VerificationTypes, Ids, Exists
<1> SUFFICES ASSUME NEW j \in Ids, Exists(j)' PROVE Earned(j)'
  BY DEF VerifiedIsEarned, Registered, Earned
<1>3. CASE j = nextId
  <2>1. attested'[j] = {} /\ count'[j] = 0
    BY <1>2, <1>3 DEF MarketTypes, RecordTypes, VerificationTypes
  <2>2. merchant'[j].verified = FALSE /\ Status(j)' = "Registered"
    BY <1>2, <1>3 DEF MarketTypes, RecordTypes, Status
  <2>3. Cardinality(attested'[j]) = 0
    BY <2>1, FS_EmptySet
  <2> QED
    BY <2>1, <2>2, <2>3 DEF Earned, Reinstated
<1>4. CASE j # nextId
  <2>1. Exists(j)
    BY <1>2, <1>4, MarketConstants DEF Exists, MarketTypes, RecordTypes, Ids
  <2>2. merchant'[j] = merchant[j] /\ count'[j] = count[j]
    BY <1>2, <1>4 DEF MarketTypes, RecordTypes, VerificationTypes
  <2>3. Earned(j)
    BY <2>1 DEF VerifiedIsEarned, Registered, Earned
  <2> QED
    BY <1>2, <1>4, <2>1, <2>2, <2>3, EarnedKept DEF Status
<1> QED
  BY <1>3, <1>4

LEMMA RulesVouched == ASSUME MarketTypes, VerifiedIsEarned, Rules PROVE VerifiedIsEarned'
<1>1. CASE \E v \in Verifiers : AddVerifier(v) \/ RemoveVerifier(v)
  BY <1>1, NothingVouched DEF AddVerifier, RemoveVerifier, Vouched, Status
<1>2. ASSUME NEW i \in Ids, NEW r \in Required, SetVerificationPolicy(i, r)
      PROVE  VerifiedIsEarned'
  <2> SUFFICES ASSUME NEW j \in Ids, Exists(j)' PROVE Earned(j)'
    BY DEF VerifiedIsEarned, Registered, Earned
  <2>1. /\ UNCHANGED <<merchant, nextId, attested, count>> /\ Exists(j) /\ Earned(j)
        /\ policy' = [policy EXCEPT ![i] =
             [required |-> r,
              raisedAt |-> IF r > policy[i].required THEN now ELSE policy[i].raisedAt]]
    BY <1>2 DEF SetVerificationPolicy, Exists, VerifiedIsEarned, Registered, Earned
  <2>2. CASE j # i
    <3>1. policy'[j] = policy[j]
      BY <2>1, <2>2 DEF MarketTypes, VerificationTypes
    <3> QED
      BY <2>1, <3>1, EarnedKept DEF Exists, Status
  <2>3. CASE j = i
    <3>1. /\ policy'[j].required = r
          /\ policy'[j].raisedAt = IF r > policy[j].required THEN now ELSE policy[j].raisedAt
      BY <2>1, <2>3 DEF MarketTypes, VerificationTypes
    <3>2. /\ now \in Nat /\ r \in Nat /\ policy[j].required \in Nat /\ count[j] \in Nat
          /\ now # Never
      BY MarketConstants DEF MarketTypes, RecordTypes, VerificationTypes, Policy, Never
    <3>3. count[j] >= policy[j].required \/ policy[j].raisedAt # Never
            => count[j] >= policy'[j].required \/ policy'[j].raisedAt # Never
      BY <3>1, <3>2
    <3>4. Cardinality(attested'[j]) = Cardinality(attested[j]) /\ Reinstated(j)' = Reinstated(j)
      BY <2>1 DEF Reinstated
    <3> QED
      BY <2>1, <3>3, <3>4 DEF Earned, InBusiness, Exists, Status
  <2> QED
    BY <2>2, <2>3
<1> QED
  BY <1>1, <1>2 DEF Rules

(* A merchant's own verification changes: the others are as they were.     *)
LEMMA OthersVouched ==
  ASSUME MarketTypes, VerifiedIsEarned, NEW i \in Ids, Exists(i), nextId' = nextId,
         \A j \in Ids \ {i} : Vouched(j)' = Vouched(j), Earned(i)'
  PROVE  VerifiedIsEarned'
<1> SUFFICES ASSUME NEW j \in Ids, Exists(j)' PROVE Earned(j)'
  BY DEF VerifiedIsEarned, Registered, Earned
<1>1. CASE j = i
  BY <1>1
<1>2. CASE j # i
  <2>1. Exists(j) /\ Earned(j)
    BY DEF Exists, VerifiedIsEarned, Registered, Earned
  <2> QED
    BY <1>2, <2>1, EarnedKept DEF Vouched
<1> QED
  BY <1>1, <1>2

LEMMA AttestsVouched ==
  ASSUME MarketTypes, VerifiedIsEarned, NEW i \in Ids, Attests(i) PROVE VerifiedIsEarned'
<1>1. /\ Exists(i) /\ InBusiness(i) /\ nextId' = nextId /\ policy' = policy
      /\ \A j \in Ids \ {i} : merchant'[j] = merchant[j] /\ attested'[j] = attested[j]
                              /\ count'[j] = count[j]
  <2>1. ASSUME NEW v \in Verifiers, VerifyMerchant(i, v)
        PROVE  <1>1!:
    BY <2>1 DEF VerifyMerchant, InBusiness, MarketTypes, RecordTypes, VerificationTypes
  <2>2. CASE RevokeVerification(i)
    BY <2>2 DEF RevokeVerification, InBusiness, MarketTypes, RecordTypes, VerificationTypes
  <2>3. CASE RevalidateMerchantStatus(i)
    BY <2>3 DEF RevalidateMerchantStatus, InBusiness, MarketTypes, RecordTypes,
                VerificationTypes, verificationVars
  <2> QED
    BY <2>1, <2>2, <2>3 DEF Attests
<1>2. \A j \in Ids \ {i} : Vouched(j)' = Vouched(j)
  BY <1>1 DEF Vouched, Status
<1>3. /\ Earned(i) /\ IsFiniteSet(attested[i]) /\ merchant[i] \in Merchant
      /\ count[i] \in Nat /\ policy[i].required \in Nat
  <2>1. attested[i] \in SUBSET Verifiers /\ IsFiniteSet(Verifiers)
    BY MarketplaceAssumption DEF MarketTypes, VerificationTypes
  <2>2. IsFiniteSet(attested[i])
    BY <2>1, FS_Subset
  <2> QED
    BY <1>1, <2>2 DEF VerifiedIsEarned, Registered, Earned, MarketTypes, RecordTypes,
                      VerificationTypes, Policy
<1>4. Earned(i)'
  <2>1. ASSUME NEW v \in Verifiers, VerifyMerchant(i, v)
        PROVE  Earned(i)'
    <3>1. /\ v \notin attested[i] /\ attested'[i] = attested[i] \cup {v} /\ count'[i] = count[i] + 1
          /\ ~merchant[i].verified
          /\ merchant' = IF count[i] + 1 >= policy[i].required
                         THEN [merchant EXCEPT ![i].verified = TRUE, ![i].status = "Verified"]
                         ELSE merchant
      BY <2>1 DEF VerifyMerchant, MarketTypes, VerificationTypes
    <3>2. Cardinality(attested'[i]) = Cardinality(attested[i]) + 1
      BY <1>3, <3>1, FS_AddElement
    <3>3. count'[i] = Cardinality(attested'[i])
      BY <1>3, <3>1, <3>2 DEF Earned
    <3>4. CASE count[i] + 1 >= policy[i].required
      <4>1. merchant'[i].verified = TRUE /\ Status(i)' = "Verified"
        BY <3>1, <3>4 DEF MarketTypes, RecordTypes, Merchant, Status
      <4> QED
        BY <1>1, <3>1, <3>3, <3>4, <4>1 DEF Earned, Reinstated
    <3>5. CASE ~(count[i] + 1 >= policy[i].required)
      BY <1>1, <1>3, <3>1, <3>3, <3>5 DEF Earned, InBusiness, Reinstated, Status
    <3> QED
      BY <3>4, <3>5
  <2>2. CASE RevokeVerification(i)
    <3>1. /\ merchant'[i].verified = FALSE /\ Status(i)' = "Registered"
          /\ attested'[i] = {} /\ count'[i] = 0
      BY <2>2 DEF RevokeVerification, MarketTypes, RecordTypes, VerificationTypes, Merchant, Status
    <3>2. Cardinality(attested'[i]) = 0
      BY <3>1, FS_EmptySet
    <3> QED
      BY <3>1, <3>2 DEF Earned, Reinstated
  <2>3. CASE RevalidateMerchantStatus(i)
    <3>1. attested' = attested /\ count' = count
      BY <2>3 DEF RevalidateMerchantStatus, verificationVars
    <3>2. count'[i] = Cardinality(attested'[i])
      BY <1>3, <3>1 DEF Earned
    <3>3. CASE merchant' = merchant
      BY <1>1, <1>3, <3>1, <3>2, <3>3 DEF Earned, InBusiness, Reinstated, Status, Exists
    <3>4. CASE /\ merchant' = [merchant EXCEPT ![i].verified = TRUE, ![i].status = "Verified"]
               /\ count[i] >= policy[i].required
      <4>1. merchant'[i].verified = TRUE /\ Status(i)' = "Verified"
        BY <3>4 DEF MarketTypes, RecordTypes, Merchant, Status
      <4> QED
        BY <1>1, <3>1, <3>2, <3>4, <4>1 DEF Earned, Reinstated
    <3>5. CASE merchant' = [merchant EXCEPT ![i].verified = FALSE, ![i].status = "Registered"]
      <4>1. merchant'[i].verified = FALSE /\ Status(i)' = "Registered"
        BY <3>5 DEF MarketTypes, RecordTypes, Merchant, Status
      <4> QED
        BY <3>2, <4>1 DEF Earned, Reinstated
    <3> QED
      BY <2>3, <3>3, <3>4, <3>5 DEF RevalidateMerchantStatus
  <2> QED
    BY <2>1, <2>2, <2>3 DEF Attests
<1> QED
  BY <1>1, <1>2, <1>4, OthersVouched

LEMMA EnforceVouched ==
  ASSUME MarketTypes, VerifiedIsEarned, NEW i \in Ids, Enforces(i) PROVE VerifiedIsEarned'
<1>1. \E s : Restated(i, s) /\ (s \notin {"Registered", "Verified"} \/ s = Reinstated(i))
  BY EnforceRestates
     DEF Enforces, SuspendMerchant, UnsuspendMerchant, BanMerchant, DeactivateMerchant,
         Restated, MerchantStatus, Reinstated
<1>2. UNCHANGED <<attested, count, policy>>
  BY EnforceRestates DEF verificationVars
<1> QED
  BY <1>1, <1>2, RestatedVouched

LEMMA AppealVouched ==
  ASSUME MarketTypes, VerifiedIsEarned, NEW i \in Ids, Appeals(i) PROVE VerifiedIsEarned'
<1>1. UNCHANGED <<nextId, attested, count, policy>>
  BY DEF Appeals, FileAppeal, UpholdAppeal, RejectAppeal, verificationVars
<1>2. merchant' = merchant \/ Restated(i, Reinstated(i))
  <2>1. Status(i) = "Suspended" => Exists(i)
    BY DEF MarketTypes, RecordTypes, Status, NoMerchant
  <2> QED
    BY <2>1 DEF Appeals, FileAppeal, UpholdAppeal, RejectAppeal, Restated, Reinstated, MerchantStatus
<1>3. CASE merchant' = merchant
  BY <1>1, <1>3, NothingVouched DEF Vouched, Status
<1> QED
  BY <1>1, <1>2, <1>3, RestatedVouched

LEMMA RenameVouched ==
  ASSUME MarketTypes, VerifiedIsEarned, NEW i \in Ids, Renames(i) PROVE VerifiedIsEarned'
<1>1. PICK n \in Names, c \in Categories : UpdateMerchantProfile(i, n, c)
  BY DEF Renames
<1>2. /\ merchant' = [merchant EXCEPT ![i].name = n, ![i].category = c]
      /\ UNCHANGED <<nextId, attested, count, policy>>
  BY <1>1 DEF UpdateMerchantProfile, verificationVars
<1>3. \A j \in Ids : merchant'[j].verified = merchant[j].verified /\ Status(j)' = Status(j)
  BY <1>2 DEF MarketTypes, RecordTypes, Merchant, Status
<1> QED
  BY <1>2, <1>3, NothingVouched DEF Vouched

LEMMA VouchedStep ==
  MarketTypes /\ VerifiedIsEarned /\ [MarketplaceNext]_marketVars => VerifiedIsEarned'
<1> SUFFICES ASSUME MarketTypes, VerifiedIsEarned, [MarketplaceNext]_marketVars
             PROVE  VerifiedIsEarned'
  OBVIOUS
<1>1. CASE UNCHANGED marketVars
  BY <1>1, NothingVouched DEF marketVars, verificationVars, Vouched, Status
<1>2. CASE Prunes \/ Tick
  BY <1>2, NothingVouched DEF Prunes, PruneClosedMerchants, Tick, verificationVars, Vouched, Status
<1>3. ASSUME NEW i \in Ids, Reports(i) PROVE VerifiedIsEarned'
  BY <1>3, NothingVouched
     DEF Reports, ReportEscrowOpened, ReportEscrowSettled, SetActiveEscrowCount, SetOpen,
         verificationVars, Vouched, Status
<1>4. ASSUME NEW i \in Ids, Ends(i) PROVE VerifiedIsEarned'
  BY <1>4, EndRestates, RestatedVouched DEF verificationVars
<1> QED
  BY <1>1, <1>2, <1>3, <1>4, MarketSteps, RegisterVouched, RulesVouched, RenameVouched,
     AttestsVouched, EnforceVouched, AppealVouched

(* A merchant counts as verified only with the verifications its policy    *)
(* asks for, each by another verifier, or since its policy was raised.     *)
THEOREM MarketVerifiedIsEarned == MarketplaceSpec => []VerifiedIsEarned
<1>1. MarketplaceInit => VerifiedIsEarned
  BY MarketConstants DEF MarketplaceInit, VerifiedIsEarned, Registered, Exists, Ids
<1> QED
  BY <1>1, VouchedStep, MarketTypesInvariant, PTL DEF MarketplaceSpec

-----------------------------------------------------------------------------
(* Tokens. *)

Debts == [i \in Ids |-> Owed(i)]

(* A call that changes what one storefront is owed moves as many tokens.   *)
LEMMA DebtMoves ==
  ASSUME MarketTypes, MarketTypes', VaultHoldsDepositsAndBonds, NEW i \in Ids,
         \A j \in Ids \ {i} : deposit'[j] = deposit[j] /\ appeal'[j] = appeal[j],
         vault' = vault + (Owed(i)' - Owed(i))
  PROVE  VaultHoldsDepositsAndBonds'
<1> DEFINE f == Debts
           h == Debts'
<1>1. f \in [Ids -> Nat] /\ h \in [Ids -> Nat] /\ f[i] = Owed(i) /\ h[i] = Owed(i)'
  <2>1. ASSUME NEW j \in Ids PROVE Owed(j) \in Nat /\ Owed(j)' \in Nat
    <3>1. /\ deposit[j] \in Nat /\ appeal[j].bond \in Nat
          /\ deposit'[j] \in Nat /\ appeal'[j].bond \in Nat
      BY DEF MarketTypes, MoneyTypes, Appeal
    <3> QED
      BY <3>1 DEF Owed
  <2> QED
    BY <2>1 DEF Debts
<1>2. \A j \in Ids \ {i} : f[j] = h[j]
  BY DEF Debts, Owed
<1>3. vault = SumFunctionOnSet(f, Ids) /\ vault \in Int
  BY DEF VaultHoldsDepositsAndBonds, Debts, MarketTypes, MoneyTypes
<1> HIDE DEF f, h
<1>4. IsFiniteSet(Ids) /\ \A x \in Ids : f[x] \in Int /\ h[x] \in Int
  BY <1>1, MarketConstants
<1>5. SumFunctionOnSet(h, Ids) = SumFunctionOnSet(f, Ids) + h[i] - f[i]
  BY <1>2, <1>4, SumChange
<1>6. SumFunctionOnSet(f, Ids) \in Int /\ h[i] \in Int /\ f[i] \in Int
  BY <1>3, <1>4
<1>7. vault' = SumFunctionOnSet(h, Ids)
  BY <1>1, <1>3, <1>5, <1>6
<1> QED
  BY <1>7 DEF VaultHoldsDepositsAndBonds, Debts, h

LEMMA MoneyUntouched ==
  VaultHoldsDepositsAndBonds /\ UNCHANGED moneyVars => VaultHoldsDepositsAndBonds'
  BY DEF VaultHoldsDepositsAndBonds, Owed, moneyVars

LEMMA RegisterMoney ==
  ASSUME MarketTypes, MarketTypes', VaultHoldsDepositsAndBonds, Registers
  PROVE  VaultHoldsDepositsAndBonds'
<1>1. PICK d \in Deposits : /\ nextId \in Ids /\ ~Exists(nextId) /\ appeal' = appeal
                            /\ deposit' = [deposit EXCEPT ![nextId] = d] /\ vault' = vault + d
  <2>1. PICK o \in Owners, n \in Names, c \in Categories, r \in Required, d \in Deposits :
          RegisterMerchant(o, n, c, r, d)
    BY DEF Registers
  <2>2. nextId \in Ids /\ ~Exists(nextId)
    BY <2>1, MarketConstants DEF RegisterMerchant, MarketTypes, RecordTypes, Ids, Exists
  <2> QED
    BY <2>1, <2>2 DEF RegisterMerchant
<1>2. PICK i \in Ids : i = nextId
  BY <1>1
<1>3. /\ deposit[i] = 0 /\ deposit'[i] = d /\ appeal'[i] = appeal[i] /\ d \in Nat
      /\ appeal[i].bond \in Nat
      /\ \A j \in Ids \ {i} : deposit'[j] = deposit[j] /\ appeal'[j] = appeal[j]
  BY <1>1, <1>2, MarketConstants DEF MarketTypes, RecordTypes, MoneyTypes, Appeal
<1>4. Owed(i)' - Owed(i) = d
  BY <1>3 DEF Owed
<1> QED
  BY <1>1, <1>3, <1>4, DebtMoves

LEMMA AppealMoney ==
  ASSUME MarketTypes, MarketTypes', VaultHoldsDepositsAndBonds, NEW i \in Ids, Appeals(i)
  PROVE  VaultHoldsDepositsAndBonds'
<1>1. deposit' = deposit /\ \A j \in Ids \ {i} : appeal'[j] = appeal[j]
  BY DEF Appeals, FileAppeal, UpholdAppeal, RejectAppeal, MarketTypes, MoneyTypes
<1>2. deposit[i] \in Nat /\ appeal[i].bond \in Nat /\ vault \in Int
  BY DEF MarketTypes, MoneyTypes, Appeal
<1>3. vault' = vault + (Owed(i)' - Owed(i))
  <2>1. ASSUME NEW b \in Bonds, FileAppeal(i, b)
        PROVE  <1>3!:
    <3>1. /\ appeal'[i].status = "Pending" /\ appeal'[i].bond = b /\ vault' = vault + b /\ b \in Nat
          /\ appeal[i].status # "Pending"
      BY <2>1, MarketConstants DEF FileAppeal, MarketTypes, MoneyTypes
    <3> QED
      BY <1>1, <1>2, <3>1 DEF Owed
  <2>2. CASE UpholdAppeal(i) \/ RejectAppeal(i)
    <3>1. /\ appeal[i].status = "Pending" /\ vault' = vault - appeal[i].bond
          /\ appeal'[i].status # "Pending"
      BY <2>2 DEF UpholdAppeal, RejectAppeal, MarketTypes, MoneyTypes, Appeal
    <3> QED
      BY <1>1, <1>2, <3>1 DEF Owed
  <2> QED
    BY <2>1, <2>2 DEF Appeals
<1> QED
  BY <1>1, <1>3, DebtMoves

LEMMA EndMoney ==
  ASSUME MarketTypes, MarketTypes', VaultHoldsDepositsAndBonds, NEW i \in Ids, Ends(i)
  PROVE  VaultHoldsDepositsAndBonds'
<1>1. CASE CloseMerchant(i)
  BY <1>1, MoneyUntouched DEF CloseMerchant
<1>2. CASE DeregisterMerchant(i)
  <2>1. /\ vault' = vault - deposit[i] /\ appeal' = appeal /\ deposit'[i] = 0
        /\ \A j \in Ids \ {i} : deposit'[j] = deposit[j]
    BY <1>2 DEF DeregisterMerchant, MarketTypes, MoneyTypes
  <2>2. deposit[i] \in Nat /\ appeal[i].bond \in Nat /\ vault \in Int
    BY DEF MarketTypes, MoneyTypes, Appeal
  <2>3. vault' = vault + (Owed(i)' - Owed(i))
    BY <2>1, <2>2 DEF Owed
  <2> QED
    BY <2>1, <2>3, DebtMoves
<1> QED
  BY <1>1, <1>2 DEF Ends

LEMMA MoneyStep ==
  MarketTypes /\ MarketTypes' /\ VaultHoldsDepositsAndBonds /\ [MarketplaceNext]_marketVars
    => VaultHoldsDepositsAndBonds'
<1> SUFFICES ASSUME MarketTypes, MarketTypes', VaultHoldsDepositsAndBonds,
                    [MarketplaceNext]_marketVars
             PROVE  VaultHoldsDepositsAndBonds'
  OBVIOUS
<1>1. CASE UNCHANGED marketVars \/ Rules \/ Prunes \/ Tick
  BY <1>1, MoneyUntouched
     DEF marketVars, Rules, AddVerifier, RemoveVerifier, SetVerificationPolicy, Prunes,
         PruneClosedMerchants, Tick
<1>2. ASSUME NEW i \in Ids, Renames(i) \/ Attests(i) \/ Enforces(i) \/ Reports(i)
      PROVE  UNCHANGED moneyVars
  BY <1>2, EnforceRestates
     DEF Renames, UpdateMerchantProfile, Attests, VerifyMerchant, RevokeVerification,
         RevalidateMerchantStatus, Reports, ReportEscrowOpened, ReportEscrowSettled,
         SetActiveEscrowCount, SetOpen
<1> QED
  BY <1>1, <1>2, MarketSteps, MoneyUntouched, RegisterMoney, AppealMoney, EndMoney

(* Every token of the contract is a deposit or the bond of an appeal       *)
(* nobody has decided.                                                     *)
THEOREM MarketVaultIsOwed == MarketplaceSpec => []VaultHoldsDepositsAndBonds
<1>1. MarketplaceInit => VaultHoldsDepositsAndBonds
  <2> SUFFICES ASSUME MarketplaceInit PROVE VaultHoldsDepositsAndBonds
    OBVIOUS
  <2>1. \A i \in Ids : Debts[i] = 0
    BY DEF MarketplaceInit, Debts, Owed, NoAppeal
  <2>2. SumFunctionOnSet(Debts, Ids) = 0
    BY <2>1, MarketConstants, SumOfZeros
  <2> QED
    BY <2>2 DEF MarketplaceInit, VaultHoldsDepositsAndBonds, Debts
<1> QED
  BY <1>1, MoneyStep, MarketTypesInvariant, PTL DEF MarketplaceSpec

-----------------------------------------------------------------------------
(* Counters. *)

Trading == {"Registered", "Verified"}
Stopped == {"Suspended", "Banned"}

(* StatsMatchStatuses, counter by counter. *)
Tallied(st) ==
  /\ st.total = Cardinality(Registered) /\ st.active = Bucket(Trading)
  /\ st.suspended = Bucket(Stopped) /\ st.closed = Bucket({"Closed"})

LEMMA TalliedIsMatch == StatsMatchStatuses <=> Tallied(stats)
  BY DEF StatsMatchStatuses, Tallied, Trading, Stopped

(* Of one merchant at most the status changes; s is what it was before. *)
Moves(i, s) ==
  /\ Exists(i) /\ Status(i) = s /\ nextId' = nextId
  /\ \A j \in Ids \ {i} : Status(j)' = Status(j)

(* A bucket loses the merchant or gains it, or does neither. *)
LEMMA BucketMoves ==
  ASSUME NEW i \in Ids, NEW s, Moves(i, s), NEW T
  PROVE  /\ Bucket(T) \in Nat /\ Bucket(T)' \in Nat
         /\ s \in T /\ Status(i)' \notin T => Bucket(T) > 0 /\ Bucket(T)' = Bucket(T) - 1
         /\ s \notin T /\ Status(i)' \in T => Bucket(T)' = Bucket(T) + 1
         /\ (s \in T <=> Status(i)' \in T) => Bucket(T)' = Bucket(T)
<1> DEFINE A == {j \in Registered : Status(j) \in T}
           B == {j \in Registered' : Status(j)' \in T}
<1>1. IsFiniteSet(A) /\ IsFiniteSet(B)
  BY MarketConstants, FS_Subset DEF Registered
<1>2. Bucket(T) = Cardinality(A) /\ Bucket(T)' = Cardinality(B)
  BY DEF Bucket
<1>3. Cardinality(A) \in Nat /\ Cardinality(B) \in Nat
  BY <1>1, FS_CardinalityType
<1>4. /\ i \in A <=> s \in T
      /\ i \in B <=> Status(i)' \in T
      /\ A \ {i} = B \ {i}
  BY DEF Moves, Registered, Exists
<1>5. /\ i \in A /\ i \notin B => B = A \ {i}
      /\ i \notin A /\ i \in B => B = A \cup {i}
      /\ (i \in A <=> i \in B) => A = B
  BY <1>4
<1> HIDE DEF A, B
<1>6. /\ i \in A /\ i \notin B => Cardinality(B) = Cardinality(A) - 1
      /\ i \notin A /\ i \in B => Cardinality(B) = Cardinality(A) + 1
  BY <1>1, <1>5, FS_AddElement, FS_RemoveElement
<1> QED
  BY <1>2, <1>3, <1>4, <1>5, <1>6

LEMMA TalliesStand ==
  ASSUME MarketTypes, StatsMatchStatuses, stats' = stats, nextId' = nextId,
         \A j \in Ids : Status(j)' = Status(j)
  PROVE  StatsMatchStatuses'
<1>1. Registered' = Registered
  BY DEF Registered, Exists
<1>2. ASSUME NEW T PROVE Bucket(T)' = Bucket(T)
  <2>1. {j \in Registered : Status(j) \in T}' = {j \in Registered : Status(j) \in T}
    BY <1>1 DEF Registered
  <2> QED
    BY <2>1 DEF Bucket
<1> QED
  BY <1>1, <1>2 DEF StatsMatchStatuses

(* The group a status is counted in. *)
Side(status, T) == IF status \in T THEN 1 ELSE 0

(* The counters follow a move of one merchant from s to u when each is     *)
(* taken down for the group left and up for the group entered.             *)
LEMMA TallyMoves ==
  ASSUME MarketTypes, StatsMatchStatuses, NEW i \in Ids, NEW s, NEW u,
         Moves(i, s), Status(i)' = u,
         LET a == Side(s, Trading)  b == Side(u, Trading)
             c == Side(s, Stopped)  d == Side(u, Stopped)
             e == Side(s, {"Closed"})  f == Side(u, {"Closed"})
         IN  stats.active >= a /\ stats.suspended >= c /\ stats.closed >= e =>
             /\ stats'.total = stats.total
             /\ stats'.active = stats.active + (b - a)
             /\ stats'.suspended = stats.suspended + (d - c)
             /\ stats'.closed = stats.closed + (f - e)
  PROVE  StatsMatchStatuses'
<1>1. Registered' = Registered
  BY DEF Moves, Registered, Exists
<1>2. ASSUME NEW T
      PROVE  /\ Bucket(T) \in Nat /\ Bucket(T) >= Side(s, T)
             /\ Bucket(T)' = Bucket(T) + (Side(u, T) - Side(s, T))
  <2>1. /\ Bucket(T) \in Nat /\ Bucket(T)' \in Nat
        /\ s \in T => Bucket(T) > 0
    <3>1. s \in T => Bucket(T) > 0
      <4> SUFFICES ASSUME s \in T PROVE Bucket(T) # 0
        BY BucketMoves
      <4>1. i \in {j \in Registered : Status(j) \in T}
        BY DEF Moves, Registered
      <4>2. IsFiniteSet({j \in Registered : Status(j) \in T})
        BY MarketConstants, FS_Subset DEF Registered
      <4> QED
        BY <4>1, <4>2, FS_EmptySet DEF Bucket
    <3> QED
      BY <3>1, BucketMoves
  <2> QED
    BY <2>1, BucketMoves DEF Side
<1>3. Tallied(stats) /\ Cardinality(Registered') = Cardinality(Registered)
  BY <1>1, TalliedIsMatch
<1>4. /\ stats'.total = stats.total
      /\ stats'.active = stats.active + (Side(u, Trading) - Side(s, Trading))
      /\ stats'.suspended = stats.suspended + (Side(u, Stopped) - Side(s, Stopped))
      /\ stats'.closed = stats.closed + (Side(u, {"Closed"}) - Side(s, {"Closed"}))
  BY <1>2, <1>3 DEF Tallied
<1>5. /\ stats'.total = Cardinality(Registered') /\ stats'.active = Bucket(Trading)'
      /\ stats'.suspended = Bucket(Stopped)' /\ stats'.closed = Bucket({"Closed"})'
  BY <1>2, <1>3, <1>4 DEF Tallied
<1> QED
  BY <1>5 DEF StatsMatchStatuses, Trading, Stopped

LEMMA RestatedMoves ==
  ASSUME MarketTypes, NEW i \in Ids, NEW u, Restated(i, u)
  PROVE  Moves(i, Status(i)) /\ Status(i)' = u /\ Status(i) \in MerchantStatus
  BY Restatement DEF MarketTypes, RecordTypes, Restated, Moves

LEMMA EnforceTallied ==
  ASSUME MarketTypes, StatsMatchStatuses, NEW i \in Ids, Enforces(i) PROVE StatsMatchStatuses'
<1> DEFINE s == Status(i)
<1>1. /\ stats \in Stats /\ stats.active \in Nat /\ stats.suspended \in Nat
      /\ stats.total \in Nat /\ stats.closed \in Nat
  BY DEF MarketTypes, Stats
<1>2. CASE SuspendMerchant(i)
  <2>1. Restated(i, "Suspended") /\ s \notin {"Closed", "Banned", "Inactive"}
    BY <1>2 DEF SuspendMerchant, Restated, MerchantStatus
  <2>2. Moves(i, s) /\ Status(i)' = "Suspended" /\ s \in MerchantStatus
    BY <2>1, RestatedMoves
  <2>3. stats' = IF s = "Suspended" THEN stats ELSE Suspend(stats)
    BY <1>2 DEF SuspendMerchant
  <2>4. Reads(Suspend(stats), stats.total, Less(stats.active), stats.suspended + 1, stats.closed)
    BY <1>1, Counters
  <2> QED
    BY <1>1, <2>1, <2>2, <2>3, <2>4, TallyMoves, LessType
       DEF Reads, Side, Trading, Stopped, MerchantStatus
<1>3. CASE UnsuspendMerchant(i)
  <2>1. Restated(i, Reinstated(i)) /\ s \notin {"Closed", "Banned", "Inactive"}
    BY <1>3 DEF UnsuspendMerchant, Restated, Reinstated, MerchantStatus
  <2>2. Moves(i, s) /\ Status(i)' \in Trading /\ s \in MerchantStatus
    BY <2>1, RestatedMoves DEF Reinstated, Trading
  <2>3. stats' = IF s = "Suspended" THEN Unsuspend(stats) ELSE stats
    BY <1>3 DEF UnsuspendMerchant
  <2>4. Reads(Unsuspend(stats), stats.total, stats.active + 1, Less(stats.suspended), stats.closed)
    BY <1>1, Counters
  <2> QED
    BY <1>1, <2>1, <2>2, <2>3, <2>4, TallyMoves, LessType
       DEF Reads, Side, Trading, Stopped, MerchantStatus
<1>4. CASE BanMerchant(i)
  <2>1. Restated(i, "Banned") /\ s # "Closed"
    BY <1>4 DEF BanMerchant, Restated, MerchantStatus
  <2>2. Moves(i, s) /\ Status(i)' = "Banned" /\ s \in MerchantStatus
    BY <2>1, RestatedMoves
  <2>3. stats' = CASE s \in {"Banned", "Suspended"} -> stats
                   [] s = "Inactive" -> [stats EXCEPT !.suspended = @ + 1]
                   [] OTHER -> Suspend(stats)
    BY <1>4 DEF BanMerchant
  <2>4. /\ Reads(Suspend(stats), stats.total, Less(stats.active), stats.suspended + 1, stats.closed)
        /\ Reads([stats EXCEPT !.suspended = @ + 1],
                 stats.total, stats.active, stats.suspended + 1, stats.closed)
    BY <1>1, Counters
  <2> QED
    BY <1>1, <2>1, <2>2, <2>3, <2>4, TallyMoves, LessType
       DEF Reads, Side, Trading, Stopped, MerchantStatus
<1>5. CASE DeactivateMerchant(i)
  <2>1. Restated(i, "Inactive") /\ s \notin {"Inactive", "Closed", "Banned"}
    BY <1>5 DEF DeactivateMerchant, Restated, MerchantStatus
  <2>2. Moves(i, s) /\ Status(i)' = "Inactive" /\ s \in MerchantStatus
    BY <2>1, RestatedMoves
  <2>3. stats' = IF s = "Suspended" THEN [stats EXCEPT !.suspended = Less(@)]
                 ELSE [stats EXCEPT !.active = Less(@)]
    BY <1>5 DEF DeactivateMerchant
  <2>4. /\ Reads([stats EXCEPT !.suspended = Less(@)],
                 stats.total, stats.active, Less(stats.suspended), stats.closed)
        /\ Reads([stats EXCEPT !.active = Less(@)],
                 stats.total, Less(stats.active), stats.suspended, stats.closed)
    BY <1>1, Counters
  <2> QED
    BY <1>1, <2>1, <2>2, <2>3, <2>4, TallyMoves, LessType
       DEF Reads, Side, Trading, Stopped, MerchantStatus
<1> QED
  BY <1>2, <1>3, <1>4, <1>5 DEF Enforces

LEMMA EndTallied ==
  ASSUME MarketTypes, StatsMatchStatuses, NEW i \in Ids, Ends(i) PROVE StatsMatchStatuses'
<1> DEFINE s == Status(i)
<1>1. /\ stats \in Stats /\ stats.active \in Nat /\ stats.suspended \in Nat
      /\ stats.total \in Nat /\ stats.closed \in Nat
  BY DEF MarketTypes, Stats
<1>2. Restated(i, "Closed") /\ stats' = Retired(s)
  BY EndRestates
<1>3. Moves(i, s) /\ Status(i)' = "Closed" /\ s \in MerchantStatus
  BY <1>2, RestatedMoves
<1>4. /\ Reads([stats EXCEPT !.suspended = Less(@), !.closed = @ + 1],
               stats.total, stats.active, Less(stats.suspended), stats.closed + 1)
      /\ Reads([stats EXCEPT !.active = Less(@), !.closed = @ + 1],
               stats.total, Less(stats.active), stats.suspended, stats.closed + 1)
      /\ Reads([stats EXCEPT !.closed = @ + 1],
               stats.total, stats.active, stats.suspended, stats.closed + 1)
  BY <1>1, Counters
<1> QED
  BY <1>1, <1>2, <1>3, <1>4, TallyMoves, LessType
     DEF Retired, Reads, Side, Trading, Stopped, MerchantStatus

LEMMA AppealTallied ==
  ASSUME MarketTypes, StatsMatchStatuses, NEW i \in Ids, Appeals(i) PROVE StatsMatchStatuses'
<1>1. CASE UNCHANGED <<merchant, nextId, stats>>
  BY <1>1, TalliesStand DEF Status
<1>2. CASE UpholdAppeal(i) /\ Status(i) = "Suspended"
  <2>1. stats \in Stats /\ stats.active \in Nat /\ stats.suspended \in Nat
    BY DEF MarketTypes, Stats
  <2>2. Exists(i)
    BY <1>2 DEF MarketTypes, RecordTypes, Status, NoMerchant
  <2>3. Restated(i, Reinstated(i)) /\ stats' = Unsuspend(stats)
    BY <1>2, <2>2 DEF UpholdAppeal, Restated, Reinstated, MerchantStatus
  <2>4. Moves(i, "Suspended") /\ Status(i)' \in Trading
    BY <1>2, <2>3, RestatedMoves DEF Reinstated, Trading
  <2>5. Reads(Unsuspend(stats), stats.total, stats.active + 1, Less(stats.suspended), stats.closed)
    BY <2>1, Counters
  <2>6. stats.total \in Nat /\ stats.closed \in Nat
    BY DEF MarketTypes, Stats
  <2> QED
    BY <2>1, <2>3, <2>4, <2>5, <2>6, TallyMoves, LessType DEF Reads, Side, Trading, Stopped
<1> QED
  BY <1>1, <1>2 DEF Appeals, FileAppeal, UpholdAppeal, RejectAppeal

LEMMA AttestTallied ==
  ASSUME MarketTypes, StatsMatchStatuses, NEW i \in Ids, Attests(i) PROVE StatsMatchStatuses'
<1>1. /\ Exists(i) /\ Status(i) \in Trading /\ nextId' = nextId /\ stats' = stats
      /\ \/ merchant' = merchant
         \/ \E b \in BOOLEAN, u \in Trading :
              merchant' = [merchant EXCEPT ![i].verified = b, ![i].status = u]
  BY DEF Attests, VerifyMerchant, RevokeVerification, RevalidateMerchantStatus, InBusiness, Trading
<1>2. CASE merchant' = merchant
  BY <1>1, <1>2, TalliesStand DEF Status
<1>3. ASSUME NEW b \in BOOLEAN, NEW u \in Trading,
             merchant' = [merchant EXCEPT ![i].verified = b, ![i].status = u]
      PROVE  StatsMatchStatuses'
  <2>1. Status(i)' = u /\ \A j \in Ids \ {i} : Status(j)' = Status(j)
    BY <1>3 DEF MarketTypes, RecordTypes, Merchant, Status
  <2>2. Moves(i, Status(i)) /\ Status(i)' \in Trading
    BY <1>1, <2>1 DEF Moves
  <2>3. /\ stats.total \in Nat /\ stats.active \in Nat /\ stats.suspended \in Nat
        /\ stats.closed \in Nat
    BY DEF MarketTypes, Stats
  <2> QED
    BY <1>1, <2>2, <2>3, TallyMoves DEF Side, Trading, Stopped
<1> QED
  BY <1>1, <1>2, <1>3

LEMMA RegisterTallied ==
  ASSUME MarketTypes, StatsMatchStatuses, Registers PROVE StatsMatchStatuses'
<1>1. PICK i \in Ids : /\ i = nextId /\ ~Exists(i) /\ nextId' = i + 1
                       /\ stats' = [stats EXCEPT !.total = @ + 1, !.active = @ + 1]
                       /\ Status(i)' = "Registered"
                       /\ \A j \in Ids \ {i} : Status(j)' = Status(j)
  <2>1. PICK o \in Owners, n \in Names, c \in Categories, r \in Required, d \in Deposits :
          RegisterMerchant(o, n, c, r, d)
    BY DEF Registers
  <2>2. nextId \in Ids /\ ~Exists(nextId)
    BY <2>1, MarketConstants DEF RegisterMerchant, MarketTypes, RecordTypes, Ids, Exists
  <2> QED
    BY <2>1, <2>2 DEF RegisterMerchant, MarketTypes, RecordTypes, Status
<1>2. Registered' = Registered \cup {i} /\ i \notin Registered
  BY <1>1, MarketConstants DEF Registered, Exists, Ids
<1>3. IsFiniteSet(Registered)
  BY MarketConstants, FS_Subset DEF Registered
<1>4. Cardinality(Registered') = Cardinality(Registered) + 1
  BY <1>2, <1>3, FS_AddElement
<1>5. ASSUME NEW T
      PROVE  Bucket(T)' = IF "Registered" \in T THEN Bucket(T) + 1 ELSE Bucket(T)
  <2> DEFINE A == {j \in Registered : Status(j) \in T}
             B == {j \in Registered' : Status(j)' \in T}
  <2>1. IsFiniteSet(A) /\ i \notin A
    BY <1>2, <1>3, FS_Subset
  <2>2. B = IF "Registered" \in T THEN A \cup {i} ELSE A
    BY <1>1, <1>2 DEF Registered
  <2>3. Bucket(T) = Cardinality(A) /\ Bucket(T)' = Cardinality(B)
    BY DEF Bucket
  <2> HIDE DEF A, B
  <2> QED
    BY <2>1, <2>2, <2>3, FS_AddElement
<1>6. /\ stats'.total = stats.total + 1 /\ stats'.active = stats.active + 1
      /\ stats'.suspended = stats.suspended /\ stats'.closed = stats.closed
  BY <1>1, Counters DEF MarketTypes, Reads
<1>7. /\ Bucket(Trading)' = Bucket(Trading) + 1 /\ Bucket(Stopped)' = Bucket(Stopped)
      /\ Bucket({"Closed"})' = Bucket({"Closed"})
  BY <1>5 DEF Trading, Stopped
<1> QED
  BY <1>4, <1>6, <1>7 DEF StatsMatchStatuses, Trading, Stopped

LEMMA RenameTallied ==
  ASSUME MarketTypes, StatsMatchStatuses, NEW i \in Ids, Renames(i) PROVE StatsMatchStatuses'
<1>1. PICK n \in Names, c \in Categories : UpdateMerchantProfile(i, n, c)
  BY DEF Renames
<1>2. /\ merchant' = [merchant EXCEPT ![i].name = n, ![i].category = c]
      /\ UNCHANGED <<nextId, stats>>
  BY <1>1 DEF UpdateMerchantProfile
<1>3. \A j \in Ids : Status(j)' = Status(j)
  BY <1>2 DEF MarketTypes, RecordTypes, Merchant, Status
<1> QED
  BY <1>2, <1>3, TalliesStand

LEMMA TallyStep ==
  MarketTypes /\ StatsMatchStatuses /\ [MarketplaceNext]_marketVars => StatsMatchStatuses'
<1> SUFFICES ASSUME MarketTypes, StatsMatchStatuses, [MarketplaceNext]_marketVars
             PROVE  StatsMatchStatuses'
  OBVIOUS
<1>1. CASE UNCHANGED marketVars \/ Rules \/ Prunes \/ Tick
  BY <1>1, TalliesStand
     DEF marketVars, Rules, AddVerifier, RemoveVerifier, SetVerificationPolicy, Prunes,
         PruneClosedMerchants, Tick, Status
<1>2. ASSUME NEW i \in Ids, Reports(i) PROVE StatsMatchStatuses'
  BY <1>2, TalliesStand
     DEF Reports, ReportEscrowOpened, ReportEscrowSettled, SetActiveEscrowCount, SetOpen, Status
<1> QED
  BY <1>1, <1>2, MarketSteps, RegisterTallied, RenameTallied, AttestTallied, EnforceTallied,
     AppealTallied, EndTallied

(* The counters of get_merchant_stats are the numbers of merchants in each *)
(* status, whatever the way into it.                                       *)
THEOREM MarketStatsMatch == MarketplaceSpec => []StatsMatchStatuses
<1>1. MarketplaceInit => StatsMatchStatuses
  <2> SUFFICES ASSUME MarketplaceInit PROVE StatsMatchStatuses
    OBVIOUS
  <2>1. Registered = {}
    BY DEF MarketplaceInit, Registered, Exists, Ids
  <2>2. Cardinality(Registered) = 0 /\ \A T : Bucket(T) = 0
    BY <2>1, FS_EmptySet DEF Bucket
  <2> QED
    BY <2>2 DEF MarketplaceInit, StatsMatchStatuses
<1> QED
  BY <1>1, TallyStep, MarketTypesInvariant, PTL DEF MarketplaceSpec

-----------------------------------------------------------------------------
(* Indexes. *)

(* What an owner or a name leads to is a merchant, of that owner.          *)
PointersHit ==
  /\ \A o \in Owners : ownerOf[o] # 0 =>
       ownerOf[o] \in Registered /\ merchant[ownerOf[o]].owner = o
  /\ \A n \in Names : nameOf[n] # 0 => nameOf[n] \in Registered

IndexInv == IndexesFollowMerchants /\ PointersHit

LEMMA IndexInvUnfolds ==
  IndexInv <=>
    /\ listed = Live
    /\ \A c \in Categories : shelf[c] = {i \in Live : merchant[i].category = c}
    /\ \A n \in Names, i \in Ids : Exists(i) => (nameOf[n] = i <=> merchant[i].name = n)
    /\ \A i \in Ids : /\ Exists(i) /\ Status(i) # "Closed"
                      /\ merchant[i].owner \notin repointed
                      => ownerOf[merchant[i].owner] = i
    /\ PointersHit
  BY DEF IndexInv, IndexesFollowMerchants, Live, Registered

(* Who exists, and is live. *)
LEMMA LiveIs == ASSUME NEW i PROVE i \in Live <=> i \in Ids /\ Exists(i) /\ Status(i) # "Closed"
  BY DEF Live, Registered

(* Nothing changes that the indexes are made of. *)
Shelved(i) == <<merchant[i].owner, merchant[i].name, merchant[i].category, Status(i) = "Closed">>

LEMMA IndexKept ==
  ASSUME MarketTypes, IndexInv, nextId' = nextId, \A i \in Ids : Shelved(i)' = Shelved(i),
         UNCHANGED <<nameOf, listed, shelf, repointed>>,
         \/ ownerOf' = ownerOf
         \/ \E i \in Live : PointOwnerAt(i)
  PROVE  IndexInv'
<1>1. /\ \A i \in Ids : /\ merchant'[i].owner = merchant[i].owner
                        /\ merchant'[i].name = merchant[i].name
                        /\ merchant'[i].category = merchant[i].category
                        /\ Status(i)' = "Closed" <=> Status(i) = "Closed"
      /\ \A i \in Ids : Exists(i)' <=> Exists(i)
  BY DEF Shelved, Exists
<1>2. Live' = Live /\ Registered' = Registered
  BY <1>1 DEF Live, Registered
<1>3. listed' = Live'
  BY <1>2, IndexInvUnfolds
<1>4. ASSUME NEW c \in Categories
      PROVE  shelf'[c] = {i \in Live' : merchant'[i].category = c}
  <2>1. {i \in Live' : merchant'[i].category = c} = {i \in Live : merchant[i].category = c}
    BY <1>1, <1>2, LiveIs
  <2> QED
    BY <2>1, IndexInvUnfolds
<1>5. \A n \in Names, i \in Ids : Exists(i)' => (nameOf'[n] = i <=> merchant'[i].name = n)
  BY <1>1, IndexInvUnfolds
<1>6. \A n \in Names : nameOf'[n] # 0 => nameOf'[n] \in Registered'
  BY <1>2, IndexInvUnfolds DEF PointersHit
<1>7. /\ \A i \in Ids : /\ Exists(i)' /\ Status(i)' # "Closed"
                        /\ merchant'[i].owner \notin repointed'
                        => ownerOf'[merchant'[i].owner] = i
      /\ \A o \in Owners : ownerOf'[o] # 0 =>
           ownerOf'[o] \in Registered' /\ merchant'[ownerOf'[o]].owner = o
  <2>1. CASE ownerOf' = ownerOf
    BY <1>1, <1>2, <2>1, IndexInvUnfolds DEF PointersHit, Registered
  <2>2. ASSUME NEW i \in Live, PointOwnerAt(i)
        PROVE  <1>7!:
    <3> DEFINE own == merchant[i].owner
    <3>1. i \in Ids /\ Exists(i) /\ Status(i) # "Closed" /\ own \in Owners
      BY LiveIs DEF MarketTypes, RecordTypes
    <3>2. ownerOf'[own] = i /\ \A o \in Owners \ {own} : ownerOf'[o] = ownerOf[o]
      BY <2>2, <3>1 DEF PointOwnerAt, MarketTypes, IndexTypes
    <3>3. ASSUME NEW j \in Ids, Exists(j)', Status(j)' # "Closed", merchant'[j].owner \notin repointed'
          PROVE  ownerOf'[merchant'[j].owner] = j
      <4>1. /\ Exists(j) /\ Status(j) # "Closed" /\ merchant[j].owner \notin repointed
            /\ merchant'[j].owner = merchant[j].owner
        BY <1>1, <3>3
      <4>2. ownerOf[merchant[j].owner] = j /\ merchant[j].owner \in Owners
        BY <4>1, IndexInvUnfolds DEF MarketTypes, RecordTypes
      <4>3. CASE merchant[j].owner = own
        <5>1. ownerOf[own] = i
          BY <3>1, <4>1, <4>3, IndexInvUnfolds
        <5> QED
          BY <3>2, <4>1, <4>2, <4>3, <5>1
      <4>4. CASE merchant[j].owner # own
        BY <3>2, <4>1, <4>2, <4>4
      <4> QED
        BY <4>3, <4>4
    <3>4. ASSUME NEW o \in Owners, ownerOf'[o] # 0
          PROVE  ownerOf'[o] \in Registered' /\ merchant'[ownerOf'[o]].owner = o
      <4>1. CASE o = own
        BY <1>1, <1>2, <3>1, <3>2, <4>1 DEF Registered
      <4>2. CASE o # own
        <5>1. ownerOf[o] \in Registered /\ merchant[ownerOf[o]].owner = o
          BY <3>2, <3>4, <4>2, IndexInvUnfolds DEF PointersHit
        <5> QED
          BY <1>1, <1>2, <3>2, <4>2, <5>1 DEF Registered
      <4> QED
        BY <4>1, <4>2
    <3> QED
      BY <3>3, <3>4
  <2> QED
    BY <2>1, <2>2
<1> QED
  BY <1>3, <1>4, <1>5, <1>6, <1>7
     DEF IndexInv, IndexesFollowMerchants, PointersHit, Live, Registered

LEMMA RegisterIndexed == ASSUME MarketTypes, IndexInv, Registers PROVE IndexInv'
<1>1. PICK o \in Owners, n \in Names, c \in Categories, r \in Required, d \in Deposits :
        RegisterMerchant(o, n, c, r, d)
  BY DEF Registers
<1>2. PICK i \in Ids : i = nextId /\ ~Exists(i) /\ i # 0
  BY <1>1, MarketConstants DEF RegisterMerchant, MarketTypes, RecordTypes, Ids, Exists
<1>3. /\ nextId' = i + 1 /\ Normal[c] \in Categories /\ nameOf[n] = 0 /\ repointed' = repointed
      /\ ownerOf[o] # 0 => Status(ownerOf[o]) = "Closed"
      /\ merchant'[i].owner = o /\ merchant'[i].name = n
      /\ merchant'[i].category = Normal[c] /\ Status(i)' = "Registered"
      /\ \A j \in Ids \ {i} : merchant'[j] = merchant[j] /\ Status(j)' = Status(j)
      /\ ownerOf'[o] = i /\ \A p \in Owners \ {o} : ownerOf'[p] = ownerOf[p]
      /\ nameOf'[n] = i /\ \A m \in Names \ {n} : nameOf'[m] = nameOf[m]
      /\ listed' = listed \cup {i}
      /\ shelf' = [shelf EXCEPT ![Normal[c]] = @ \cup {i}]
  BY <1>1, <1>2, MarketConstants
     DEF RegisterMerchant, MarketTypes, RecordTypes, IndexTypes, Status
<1>4. \A j \in Ids : Exists(j)' <=> Exists(j) \/ j = i
  BY <1>2, <1>3, MarketConstants DEF Exists, Ids
<1>5. Live' = Live \cup {i} /\ Registered' = Registered \cup {i} /\ i \notin Registered
  BY <1>2, <1>3, <1>4 DEF Live, Registered
<1>6. listed' = Live'
  BY <1>3, <1>5, IndexInvUnfolds
<1>7. ASSUME NEW k \in Categories
      PROVE  shelf'[k] = {j \in Live' : merchant'[j].category = k}
  <2>1. shelf[k] = {j \in Live : merchant[j].category = k}
    BY IndexInvUnfolds
  <2>2. \A j \in Live : j # i /\ merchant'[j] = merchant[j]
    BY <1>2, <1>3, LiveIs
  <2>3. shelf'[k] = IF k = Normal[c] THEN shelf[k] \cup {i} ELSE shelf[k]
    BY <1>3 DEF MarketTypes, IndexTypes
  <2> QED
    BY <1>3, <1>5, <2>1, <2>2, <2>3
<1>8. ASSUME NEW m \in Names, NEW j \in Ids, Exists(j)'
      PROVE  nameOf'[m] = j <=> merchant'[j].name = m
  <2>1. CASE j = i
    <3>1. m # n => nameOf'[m] # i
      BY <1>2, <1>3, <1>5, IndexInvUnfolds DEF PointersHit
    <3> QED
      BY <1>3, <2>1, <3>1
  <2>2. CASE j # i
    <3>1. /\ Exists(j) /\ merchant'[j] = merchant[j] /\ j # 0
          /\ nameOf[m] = j <=> merchant[j].name = m
      BY <1>3, <1>4, <1>8, <2>2, IndexInvUnfolds DEF Ids
    <3> QED
      BY <1>3, <2>2, <3>1
  <2> QED
    BY <2>1, <2>2
<1>9. ASSUME NEW j \in Ids, Exists(j)', Status(j)' # "Closed", merchant'[j].owner \notin repointed'
      PROVE  ownerOf'[merchant'[j].owner] = j
  <2>1. CASE j = i
    BY <1>3, <2>1
  <2>2. CASE j # i
    <3>1. /\ Exists(j) /\ Status(j) # "Closed" /\ merchant'[j].owner = merchant[j].owner
          /\ merchant[j].owner \in Owners /\ ownerOf[merchant[j].owner] = j /\ j # 0
      BY <1>3, <1>4, <1>9, <2>2, IndexInvUnfolds DEF MarketTypes, RecordTypes, Ids
    <3>2. merchant[j].owner # o
      BY <1>3, <3>1
    <3> QED
      BY <1>3, <3>1, <3>2
  <2> QED
    BY <2>1, <2>2
<1>10. ASSUME NEW p \in Owners, ownerOf'[p] # 0
       PROVE  ownerOf'[p] \in Registered' /\ merchant'[ownerOf'[p]].owner = p
  <2>1. CASE p = o
    BY <1>3, <1>5, <2>1
  <2>2. CASE p # o
    <3>1. ownerOf'[p] = ownerOf[p] /\ ownerOf[p] \in Registered /\ merchant[ownerOf[p]].owner = p
      BY <1>3, <1>10, <2>2, IndexInvUnfolds DEF PointersHit
    <3> QED
      BY <1>3, <1>5, <3>1 DEF Registered
  <2> QED
    BY <2>1, <2>2
<1>11. ASSUME NEW m \in Names, nameOf'[m] # 0
       PROVE  nameOf'[m] \in Registered'
  BY <1>3, <1>5, <1>11, IndexInvUnfolds DEF PointersHit
<1> QED
  BY <1>6, <1>7, <1>8, <1>9, <1>10, <1>11
     DEF IndexInv, IndexesFollowMerchants, PointersHit, Live, Registered

LEMMA RenameIndexed ==
  ASSUME MarketTypes, IndexInv, NEW i \in Ids, Renames(i) PROVE IndexInv'
<1>1. PICK n \in Names, c \in Categories : UpdateMerchantProfile(i, n, c)
  BY DEF Renames
<1> DEFINE name == merchant[i].name
           category == merchant[i].category
<1>2. /\ Exists(i) /\ Status(i) # "Closed" /\ UNCHANGED <<nextId, ownerOf, listed, repointed>>
      /\ n # name => nameOf[n] = 0
      /\ nameOf' = IF n = name THEN nameOf ELSE [nameOf EXCEPT ![name] = 0, ![n] = i]
      /\ shelf' = IF c = category THEN shelf
                  ELSE [shelf EXCEPT ![category] = @ \ {i}, ![c] = @ \cup {i}]
      /\ merchant' = [merchant EXCEPT ![i].name = n, ![i].category = c]
  BY <1>1 DEF UpdateMerchantProfile, InBusiness
<1>3. /\ name \in Names /\ category \in Categories /\ i # 0
      /\ merchant'[i].name = n /\ merchant'[i].category = c
      /\ \A j \in Ids : /\ merchant'[j].owner = merchant[j].owner
                        /\ merchant'[j].status = merchant[j].status
                        /\ j # i => merchant'[j] = merchant[j]
  BY <1>2 DEF MarketTypes, RecordTypes, Merchant, Ids
<1>4. /\ Live' = Live /\ Registered' = Registered /\ i \in Live /\ i \in Registered
      /\ \A j \in Ids : (Exists(j)' <=> Exists(j)) /\ Status(j)' = Status(j)
  BY <1>2, <1>3 DEF Live, Registered, Exists, Status
<1>5. ASSUME NEW k \in Categories
      PROVE  shelf'[k] = {j \in Live' : merchant'[j].category = k}
  <2>1. shelf[k] = {j \in Live : merchant[j].category = k}
    BY IndexInvUnfolds
  <2>2. \A j \in Live \ {i} : merchant'[j] = merchant[j]
    BY <1>3, LiveIs
  <2>3. CASE c = category
    <3>1. shelf' = shelf /\ \A j \in Live : merchant'[j].category = merchant[j].category
      BY <1>2, <1>3, <2>2, <2>3
    <3> QED
      BY <1>4, <2>1, <3>1
  <2>4. CASE c # category
    <3>1. shelf'[k] = IF k = c THEN shelf[k] \cup {i}
                      ELSE IF k = category THEN shelf[k] \ {i} ELSE shelf[k]
      BY <1>2, <1>3, <2>4 DEF MarketTypes, IndexTypes
    <3> QED
      BY <1>3, <1>4, <2>1, <2>2, <2>4, <3>1
  <2> QED
    BY <2>3, <2>4
<1>6. /\ \A m \in Names, j \in Ids : Exists(j)' => (nameOf'[m] = j <=> merchant'[j].name = m)
      /\ \A m \in Names : nameOf'[m] # 0 => nameOf'[m] \in Registered'
  <2>1. CASE n = name
    <3>1. nameOf' = nameOf /\ \A j \in Ids : merchant'[j].name = merchant[j].name
      BY <1>2, <1>3, <2>1
    <3> QED
      BY <1>4, <3>1, IndexInvUnfolds DEF PointersHit
  <2>2. CASE n # name
    <3>1. \A m \in Names : nameOf'[m] = IF m = n THEN i ELSE IF m = name THEN 0 ELSE nameOf[m]
      BY <1>2, <1>3, <2>2 DEF MarketTypes, IndexTypes
    <3>2. \A m \in Names : nameOf'[m] # 0 => nameOf'[m] \in Registered'
      BY <1>4, <3>1, IndexInvUnfolds DEF PointersHit
    <3>3. ASSUME NEW m \in Names, NEW j \in Ids, Exists(j)'
          PROVE  nameOf'[m] = j <=> merchant'[j].name = m
      <4>1. Exists(j) /\ j # 0
        BY <1>4, <3>3 DEF Ids
      <4>2. /\ \A k \in Names : nameOf[k] = j <=> merchant[j].name = k
            /\ nameOf[name] = i /\ nameOf[n] = 0
        BY <1>2, <1>3, <1>4, <2>2, <4>1, IndexInvUnfolds
      <4>3. CASE j = i
        BY <1>3, <2>2, <3>1, <4>1, <4>2, <4>3
      <4>4. CASE j # i
        <5>1. merchant'[j] = merchant[j]
          BY <1>3, <4>4
        <5> QED
          BY <1>3, <3>1, <4>1, <4>2, <4>4, <5>1
      <4> QED
        BY <4>3, <4>4
    <3> QED
      BY <3>2, <3>3
  <2> QED
    BY <2>1, <2>2
<1>7. ASSUME NEW j \in Ids, Exists(j)', Status(j)' # "Closed", merchant'[j].owner \notin repointed'
      PROVE  ownerOf'[merchant'[j].owner] = j
  <2>1. Exists(j) /\ Status(j) # "Closed" /\ merchant'[j].owner = merchant[j].owner
    BY <1>3, <1>4, <1>7
  <2> QED
    BY <1>2, <1>7, <2>1, IndexInvUnfolds
<1>9. ASSUME NEW o \in Owners, ownerOf'[o] # 0
      PROVE  ownerOf'[o] \in Registered' /\ merchant'[ownerOf'[o]].owner = o
  <2>1. ownerOf[o] \in Registered /\ merchant[ownerOf[o]].owner = o
    BY <1>2, <1>9, IndexInvUnfolds DEF PointersHit
  <2> QED
    BY <1>2, <1>3, <1>4, <2>1 DEF Registered
<1>8. listed' = Live'
  BY <1>2, <1>4, IndexInvUnfolds
<1> QED
  BY <1>5, <1>6, <1>7, <1>8, <1>9
     DEF IndexInv, IndexesFollowMerchants, PointersHit, Live, Registered

LEMMA EndIndexed == ASSUME MarketTypes, IndexInv, NEW i \in Ids, Ends(i) PROVE IndexInv'
<1> DEFINE own == merchant[i].owner
<1>1. /\ Restated(i, "Closed") /\ Delist({i}) /\ nameOf' = nameOf
      /\ \/ /\ PointOwnerAt(i)
            /\ repointed' = IF ownerOf[own] = i THEN repointed ELSE repointed \cup {own}
         \/ UNCHANGED <<ownerOf, repointed>>
  BY EndRestates
<1>2. /\ Exists(i) /\ nextId' = nextId /\ Status(i)' = "Closed" /\ own \in Owners
      /\ \A j \in Ids : /\ merchant'[j].owner = merchant[j].owner
                        /\ merchant'[j].name = merchant[j].name
                        /\ merchant'[j].category = merchant[j].category
                        /\ j # i => Status(j)' = Status(j)
  BY <1>1, Restatement DEF Restated, MarketTypes, RecordTypes
<1>3. /\ Live' = Live \ {i} /\ Registered' = Registered /\ i \in Registered
      /\ \A j \in Ids : Exists(j)' <=> Exists(j)
  BY <1>2 DEF Live, Registered, Exists
<1>4. listed' = Live'
  BY <1>1, <1>3, IndexInvUnfolds DEF Delist
<1>5. ASSUME NEW c \in Categories
      PROVE  shelf'[c] = {j \in Live' : merchant'[j].category = c}
  <2>1. shelf[c] = {j \in Live : merchant[j].category = c}
    BY IndexInvUnfolds
  <2>2. shelf'[c] = shelf[c] \ {j \in {i} : merchant[j].category = c}
    BY <1>1 DEF Delist
  <2>3. \A j \in Live : merchant'[j].category = merchant[j].category
    BY <1>2, LiveIs
  <2> QED
    BY <1>3, <2>1, <2>2, <2>3
<1>6. \A m \in Names, j \in Ids : Exists(j)' => (nameOf'[m] = j <=> merchant'[j].name = m)
  BY <1>1, <1>2, <1>3, IndexInvUnfolds
<1>7. \A m \in Names : nameOf'[m] # 0 => nameOf'[m] \in Registered'
  BY <1>1, <1>3, IndexInvUnfolds DEF PointersHit
<1>8. ASSUME NEW o \in Owners, ownerOf'[o] # 0
      PROVE  ownerOf'[o] \in Registered' /\ merchant'[ownerOf'[o]].owner = o
  <2>1. ownerOf'[o] = ownerOf[o] \/ (o = own /\ ownerOf'[o] = i)
    BY <1>1, <1>2 DEF PointOwnerAt, MarketTypes, IndexTypes
  <2>2. CASE ownerOf'[o] = ownerOf[o]
    <3>1. ownerOf[o] \in Registered /\ merchant[ownerOf[o]].owner = o
      BY <1>8, <2>2, IndexInvUnfolds DEF PointersHit
    <3> QED
      BY <1>2, <1>3, <2>2, <3>1 DEF Registered
  <2>3. CASE o = own /\ ownerOf'[o] = i
    BY <1>2, <1>3, <2>3
  <2> QED
    BY <2>1, <2>2, <2>3
<1>9. ASSUME NEW j \in Ids, Exists(j)', Status(j)' # "Closed", merchant'[j].owner \notin repointed'
      PROVE  ownerOf'[merchant'[j].owner] = j
  <2>1. /\ j # i /\ Exists(j) /\ Status(j) # "Closed" /\ merchant'[j].owner = merchant[j].owner
        /\ merchant[j].owner \in Owners
    BY <1>2, <1>3, <1>9 DEF MarketTypes, RecordTypes
  <2>2. merchant[j].owner \notin repointed
    BY <1>1, <1>9, <2>1
  <2>3. ownerOf[merchant[j].owner] = j
    BY <2>1, <2>2, IndexInvUnfolds
  <2>4. CASE UNCHANGED <<ownerOf, repointed>>
    BY <2>1, <2>3, <2>4
  <2>5. CASE /\ PointOwnerAt(i)
             /\ repointed' = IF ownerOf[own] = i THEN repointed ELSE repointed \cup {own}
    <3>1. merchant[j].owner # own
      BY <1>9, <2>1, <2>3, <2>5
    <3> QED
      BY <1>2, <2>1, <2>3, <2>5, <3>1 DEF PointOwnerAt, MarketTypes, IndexTypes
  <2> QED
    BY <1>1, <2>4, <2>5
<1> QED
  BY <1>4, <1>5, <1>6, <1>7, <1>8, <1>9
     DEF IndexInv, IndexesFollowMerchants, PointersHit, Live, Registered

(* Only Closed merchants are pruned, and those are on no list any more.    *)
LEMMA PruneIndexed == ASSUME MarketTypes, IndexInv, Prunes PROVE IndexInv'
<1>1. PICK ids \in SUBSET Ids : PruneClosedMerchants(ids)
  BY DEF Prunes
<1> DEFINE gone == {i \in ids : Exists(i) /\ Status(i) = "Closed"}
<1>2. /\ Delist(gone) /\ UNCHANGED <<merchant, nextId, ownerOf, nameOf, repointed>>
  BY <1>1 DEF PruneClosedMerchants
<1>3. gone \cap Live = {}
  BY LiveIs
<1> HIDE DEF gone
<1>4. listed' = listed
  BY <1>2, <1>3, IndexInvUnfolds DEF Delist
<1>5. shelf' = shelf
  <2>1. \A c \in Categories : shelf[c] \subseteq Live
    BY IndexInvUnfolds
  <2>2. \A c \in Categories : shelf'[c] = shelf[c]
    BY <1>2, <1>3, <2>1 DEF Delist
  <2>3. shelf \in [Categories -> SUBSET Ids] /\ DOMAIN shelf' = Categories
        /\ shelf' = [c \in Categories |-> shelf'[c]]
    BY <1>2 DEF Delist, MarketTypes, IndexTypes
  <2> QED
    BY <2>2, <2>3
<1> QED
  BY <1>2, <1>4, <1>5, IndexKept DEF Shelved, Status

LEMMA IndexStep == MarketTypes /\ IndexInv /\ [MarketplaceNext]_marketVars => IndexInv'
<1> SUFFICES ASSUME MarketTypes, IndexInv, [MarketplaceNext]_marketVars PROVE IndexInv'
  OBVIOUS
<1>1. CASE UNCHANGED marketVars \/ Rules \/ Tick
  BY <1>1, IndexKept
     DEF marketVars, indexVars, Rules, AddVerifier, RemoveVerifier, SetVerificationPolicy, Tick,
         Shelved, Status
<1>2. ASSUME NEW i \in Ids, Reports(i) PROVE IndexInv'
  BY <1>2, IndexKept
     DEF Reports, ReportEscrowOpened, ReportEscrowSettled, SetActiveEscrowCount, SetOpen,
         indexVars, Shelved, Status
<1>3. ASSUME NEW i \in Ids, Attests(i) PROVE IndexInv'
  <2>1. /\ Status(i) \in {"Registered", "Verified"} /\ UNCHANGED <<nextId, indexVars, repointed>>
        /\ \/ merchant' = merchant
           \/ \E b \in BOOLEAN, u \in {"Registered", "Verified"} :
                merchant' = [merchant EXCEPT ![i].verified = b, ![i].status = u]
    BY <1>3 DEF Attests, VerifyMerchant, RevokeVerification, RevalidateMerchantStatus, InBusiness
  <2>2. \A j \in Ids : /\ merchant'[j].owner = merchant[j].owner
                       /\ merchant'[j].name = merchant[j].name
                       /\ merchant'[j].category = merchant[j].category
                       /\ Status(j)' = "Closed" <=> Status(j) = "Closed"
    <3>1. CASE merchant' = merchant
      BY <3>1 DEF Status
    <3>2. ASSUME NEW b \in BOOLEAN, NEW u \in {"Registered", "Verified"},
                 merchant' = [merchant EXCEPT ![i].verified = b, ![i].status = u]
          PROVE  <2>2!:
      <4>1. /\ \A j \in Ids : /\ merchant'[j].owner = merchant[j].owner
                              /\ merchant'[j].name = merchant[j].name
                              /\ merchant'[j].category = merchant[j].category
                              /\ j # i => merchant'[j] = merchant[j]
            /\ merchant'[i].status = u
        BY <3>2 DEF MarketTypes, RecordTypes, Merchant
      <4> QED
        BY <2>1, <4>1 DEF Status
    <3> QED
      BY <2>1, <3>1, <3>2
  <2>3. \A j \in Ids : Shelved(j)' = Shelved(j)
    BY <2>2 DEF Shelved
  <2> QED
    BY <2>1, <2>3, IndexKept DEF indexVars
<1>4. ASSUME NEW i \in Ids, Enforces(i) PROVE IndexInv'
  <2>1. PICK s \in MerchantStatus \ {"Closed"} :
          /\ Restated(i, s) /\ PointOwnerAt(i) /\ Status(i) # "Closed"
          /\ UNCHANGED <<nameOf, listed, shelf, repointed>>
    BY <1>4, EnforceRestates
  <2>2. \A j \in Ids : Shelved(j)' = Shelved(j)
    BY <2>1, Restatement DEF MarketTypes, Shelved
  <2>3. i \in Live /\ nextId' = nextId
    BY <2>1, LiveIs DEF Restated
  <2> QED
    BY <2>1, <2>2, <2>3, IndexKept
<1>5. ASSUME NEW i \in Ids, Appeals(i) PROVE IndexInv'
  <2>1. UNCHANGED <<nextId, indexVars, repointed>>
    BY <1>5 DEF Appeals, FileAppeal, UpholdAppeal, RejectAppeal
  <2>2. merchant' = merchant \/ (Status(i) = "Suspended" /\ Restated(i, Reinstated(i)))
    <3>1. Status(i) = "Suspended" => Exists(i)
      BY DEF MarketTypes, RecordTypes, Status, NoMerchant
    <3> QED
      BY <1>5, <3>1 DEF Appeals, FileAppeal, UpholdAppeal, RejectAppeal, Restated, Reinstated,
                        MerchantStatus
  <2>3. \A j \in Ids : Shelved(j)' = Shelved(j)
    <3>1. CASE merchant' = merchant
      BY <3>1 DEF Shelved, Status
    <3>2. CASE Status(i) = "Suspended" /\ Restated(i, Reinstated(i))
      BY <3>2, Restatement DEF MarketTypes, Shelved, Reinstated
    <3> QED
      BY <2>2, <3>1, <3>2
  <2> QED
    BY <2>1, <2>3, IndexKept DEF indexVars
<1> QED
  BY <1>1, <1>2, <1>3, <1>4, <1>5, MarketSteps, RegisterIndexed, RenameIndexed, EndIndexed,
     PruneIndexed

(* The lists, shelves, names and owners' entries agree with the records.   *)
THEOREM MarketIndexesFollow == MarketplaceSpec => []IndexesFollowMerchants
<1>1. MarketplaceInit => IndexInv
  <2> SUFFICES ASSUME MarketplaceInit PROVE IndexInv
    OBVIOUS
  <2>1. Registered = {} /\ Live = {}
    BY DEF MarketplaceInit, Live, Registered, Exists, Ids
  <2> QED
    BY <2>1 DEF MarketplaceInit, IndexInv, IndexesFollowMerchants, PointersHit
<1>2. IndexInv => IndexesFollowMerchants
  BY DEF IndexInv
<1> QED
  BY <1>1, <1>2, IndexStep, MarketTypesInvariant, PTL DEF MarketplaceSpec
=============================================================================
