---------------------------- MODULE Marketplace ----------------------------
(***************************************************************************)
(* The merchant registry (marketplace/src/lib.rs): owners register a       *)
(* storefront against a deposit, verifiers vouch for it, the admin (or a   *)
(* risk oracle) suspends and bans, a suspension can be appealed against a  *)
(* bond, and a storefront ends Closed, by the admin once its escrows have  *)
(* settled or by its owner, who gets the deposit back.                     *)
(*                                                                         *)
(* Left out: what is stored and read back only (texts, commission,         *)
(* metadata and its cooldown, reputation pairing), the category allowlist, *)
(* who the admin and the oracle are, and the maintenance and stock         *)
(* functions, which stand inside a test module.  Deposits and bonds are in *)
(* one token.                                                              *)
(***************************************************************************)
EXTENDS Integers, FiniteSets, Functions

CONSTANTS
  Owners, Names, Verifiers,
  Categories,   \* category symbols, in any spelling
  Normal,       \* normalize_symbol of each
  Deposits,     \* deposits paid, as far as they suffice
  Bonds,        \* bonds posted
  Required,     \* numbers of verifications asked for
  GracePeriod,  \* VERIFICATION_POLICY_GRACE_PERIOD_SECS
  Counts,       \* numbers of open escrows the admin sets
  MaxOpen,      \* bound on the escrows reported open
  MaxId,        \* bound on the merchants registered
  MaxTime       \* bound on the clock

Ids == 1..MaxId
NoOne == "none"
Never == -1
MerchantStatus == {"Registered", "Verified", "Suspended", "Banned", "Inactive", "Closed"}

ASSUME MarketplaceAssumption ==
  /\ NoOne \notin Owners \cup Names \cup Categories
  /\ Normal \in [Categories -> Categories] /\ \A c \in Categories : Normal[Normal[c]] = Normal[c]
  /\ Deposits \cup Bonds \subseteq Nat \ {0}
  /\ Required \cup Counts \cup {GracePeriod, MaxOpen, MaxId, MaxTime} \subseteq Nat
  /\ IsFiniteSet(Verifiers)

VARIABLES
  now,        \* ledger timestamp
  merchant,   \* Merchant: [owner, name, category, status, verified]
  nextId,     \* NextMerchantId
  ownerOf,    \* MerchantOwner: the merchant an owner is looked up as, or 0
  nameOf,     \* MerchantName: the merchant that has a name, or 0
  listed,     \* MerchantIds
  shelf,      \* CategoryIndex
  stats,      \* MerchantStats
  verifiers,  \* Verifiers
  policy,     \* VerificationPolicy and PolicyRaisedAt: [required, raisedAt]
  attested,   \* MerchantVerifier: who has vouched for a merchant
  count,      \* VerifiedCount
  deposit,    \* MerchantDeposit, 0 when there is none
  appeal,     \* AppealBond: [status, bond]
  open,       \* ActiveEscrowCount
  vault,      \* tokens the contract holds
  repointed   \* ghost: owners of whom a Closed storefront was closed again

indexVars == <<ownerOf, nameOf, listed, shelf>>
verificationVars == <<verifiers, policy, attested, count>>
moneyVars == <<deposit, appeal, vault>>
marketVars ==
  <<now, merchant, nextId, indexVars, stats, verificationVars, moneyVars, open, repointed>>

NoMerchant == [owner |-> NoOne, name |-> NoOne, category |-> NoOne,
               status |-> "None", verified |-> FALSE]
NoAppeal == [status |-> "None", bond |-> 0]
NoPolicy == [required |-> 1, raisedAt |-> Never]

MarketplaceInit ==
  /\ now = 0 /\ nextId = 1
  /\ merchant = [i \in Ids |-> NoMerchant]
  /\ ownerOf = [o \in Owners |-> 0] /\ nameOf = [n \in Names |-> 0]
  /\ listed = {} /\ shelf = [c \in Categories |-> {}]
  /\ stats = [total |-> 0, active |-> 0, suspended |-> 0, closed |-> 0]
  /\ verifiers = {}
  /\ policy = [i \in Ids |-> NoPolicy]
  /\ attested = [i \in Ids |-> {}] /\ count = [i \in Ids |-> 0]
  /\ deposit = [i \in Ids |-> 0] /\ appeal = [i \in Ids |-> NoAppeal]
  /\ open = [i \in Ids |-> 0] /\ vault = 0 /\ repointed = {}

-----------------------------------------------------------------------------
Exists(i) == i < nextId
Status(i) == merchant[i].status

(* check_not_frozen_or_closed *)
InBusiness(i) == Exists(i) /\ Status(i) \in {"Registered", "Verified"}

Less(n) == IF n = 0 THEN 0 ELSE n - 1
Suspend(s) == [s EXCEPT !.active = Less(@), !.suspended = @ + 1]
Unsuspend(s) == [s EXCEPT !.suspended = Less(@), !.active = @ + 1]

(* An enforcement action points the owner's index entry at the merchant.   *)
PointOwnerAt(i) == ownerOf' = [ownerOf EXCEPT ![merchant[i].owner] = i]

SetStatus(i, status) == merchant' = [merchant EXCEPT ![i].status = status]
Reinstated(i) == IF merchant[i].verified THEN "Verified" ELSE "Registered"

(* register_merchant: an owner has one storefront at a time. *)
RegisterMerchant(o, n, c, required, d) ==
  LET i == nextId
      asked == IF required = 0 THEN 1 ELSE required
  IN  /\ i <= MaxId
      /\ ownerOf[o] # 0 => Status(ownerOf[o]) = "Closed"
      /\ nameOf[n] = 0
      /\ verifiers # {} => asked <= Cardinality(verifiers)
      /\ merchant' = [merchant EXCEPT ![i] =
           [owner |-> o, name |-> n, category |-> Normal[c],
            status |-> "Registered", verified |-> FALSE]]
      /\ nextId' = i + 1
      /\ ownerOf' = [ownerOf EXCEPT ![o] = i]
      /\ nameOf' = [nameOf EXCEPT ![n] = i]
      /\ listed' = listed \cup {i}
      /\ shelf' = [shelf EXCEPT ![Normal[c]] = @ \cup {i}]
      /\ stats' = [stats EXCEPT !.total = @ + 1, !.active = @ + 1]
      /\ policy' = [policy EXCEPT ![i].required = asked]
      /\ attested' = attested /\ count' = [count EXCEPT ![i] = 0]
      /\ deposit' = [deposit EXCEPT ![i] = d]
      /\ vault' = vault + d
      /\ UNCHANGED <<now, verifiers, appeal, open, repointed>>

(* Mutant: the old shelf is not cleared. *)
ProfileOnBothShelves(i, n, c) ==
  /\ InBusiness(i)
  /\ n # merchant[i].name => nameOf[n] = 0
  /\ nameOf' = [nameOf EXCEPT ![merchant[i].name] = 0, ![n] = i]
  /\ shelf' = [shelf EXCEPT ![c] = @ \cup {i}]
  /\ merchant' = [merchant EXCEPT ![i].name = n, ![i].category = c]
  /\ UNCHANGED <<now, nextId, ownerOf, listed, stats, verificationVars, moneyVars, open, repointed>>

(* update_merchant_profile: the new category is taken as it is spelled.    *)
UpdateMerchantProfile(i, n, c) ==
  LET old == merchant[i]
  IN  /\ InBusiness(i)
      /\ n # old.name => nameOf[n] = 0
      /\ nameOf' = IF n = old.name THEN nameOf
                   ELSE [nameOf EXCEPT ![old.name] = 0, ![n] = i]
      /\ shelf' = IF c = old.category THEN shelf
                  ELSE [shelf EXCEPT ![old.category] = @ \ {i}, ![c] = @ \cup {i}]
      /\ merchant' = [merchant EXCEPT ![i].name = n, ![i].category = c]
      /\ UNCHANGED <<now, nextId, ownerOf, listed, stats, verificationVars, moneyVars, open,
                     repointed>>

-----------------------------------------------------------------------------
(***************************************************************************)
(* Verification.                                                           *)
(***************************************************************************)
AddVerifier(v) ==
  /\ v \notin verifiers
  /\ verifiers' = verifiers \cup {v}
  /\ UNCHANGED <<now, merchant, nextId, indexVars, stats, policy, attested, count, moneyVars,
                 open, repointed>>

RemoveVerifier(v) ==
  /\ v \in verifiers
  /\ \A i \in listed : policy[i].required < Cardinality(verifiers)
  /\ verifiers' = verifiers \ {v}
  /\ UNCHANGED <<now, merchant, nextId, indexVars, stats, policy, attested, count, moneyVars,
                 open, repointed>>

(* set_verification_policy: nobody asks whether the merchant exists yet.    *)
SetVerificationPolicy(i, required) ==
  /\ verifiers # {} => required <= Cardinality(verifiers)
  /\ policy' = [policy EXCEPT ![i] =
       [required |-> required,
        raisedAt |-> IF required > @.required THEN now ELSE @.raisedAt]]
  /\ UNCHANGED <<now, merchant, nextId, indexVars, stats, verifiers, attested, count, moneyVars,
                 open, repointed>>

VerifyMerchant(i, v) ==
  /\ v \in verifiers /\ InBusiness(i)
  /\ ~merchant[i].verified /\ v \notin attested[i]
  /\ attested' = [attested EXCEPT ![i] = @ \cup {v}]
  /\ count' = [count EXCEPT ![i] = @ + 1]
  /\ merchant' = IF count[i] + 1 >= policy[i].required
                 THEN [merchant EXCEPT ![i].verified = TRUE, ![i].status = "Verified"]
                 ELSE merchant
  /\ UNCHANGED <<now, nextId, indexVars, stats, verifiers, policy, moneyVars, open, repointed>>

(* Mutant: the count is not reset. *)
RevokeKeepingCount(i) ==
  /\ InBusiness(i)
  /\ merchant' = [merchant EXCEPT ![i].verified = FALSE, ![i].status = "Registered"]
  /\ attested' = [attested EXCEPT ![i] = {}]
  /\ UNCHANGED <<now, nextId, indexVars, stats, verifiers, policy, count, moneyVars, open, repointed>>

RevokeVerification(i) ==
  /\ InBusiness(i)
  /\ merchant' = [merchant EXCEPT ![i].verified = FALSE, ![i].status = "Registered"]
  /\ count' = [count EXCEPT ![i] = 0]
  /\ attested' = [attested EXCEPT ![i] = {}]
  /\ UNCHANGED <<now, nextId, indexVars, stats, verifiers, policy, moneyVars, open, repointed>>

(* A merchant short of its policy is given time from when it was raised.   *)
InGrace(i) == policy[i].raisedAt # Never /\ now < policy[i].raisedAt + GracePeriod

RevalidateMerchantStatus(i) ==
  LET meets == count[i] >= policy[i].required
  IN  /\ InBusiness(i)
      /\ merchant' =
           IF meets /\ ~merchant[i].verified
             THEN [merchant EXCEPT ![i].verified = TRUE, ![i].status = "Verified"]
           ELSE IF ~meets /\ ~InGrace(i)
             THEN [merchant EXCEPT ![i].verified = FALSE, ![i].status = "Registered"]
           ELSE merchant
      /\ UNCHANGED <<now, nextId, indexVars, stats, verificationVars, moneyVars, open, repointed>>

-----------------------------------------------------------------------------
(***************************************************************************)
(* Enforcement.                                                            *)
(***************************************************************************)
SuspendMerchant(i) ==
  /\ Exists(i) /\ Status(i) \notin {"Closed", "Banned", "Inactive"}
  /\ stats' = IF Status(i) = "Suspended" THEN stats ELSE Suspend(stats)
  /\ SetStatus(i, "Suspended") /\ PointOwnerAt(i)
  /\ UNCHANGED <<now, nextId, nameOf, listed, shelf, verificationVars, moneyVars, open, repointed>>

UnsuspendMerchant(i) ==
  /\ Exists(i) /\ Status(i) \notin {"Closed", "Banned", "Inactive"}
  /\ stats' = IF Status(i) = "Suspended" THEN Unsuspend(stats) ELSE stats
  /\ SetStatus(i, Reinstated(i)) /\ PointOwnerAt(i)
  /\ UNCHANGED <<now, nextId, nameOf, listed, shelf, verificationVars, moneyVars, open, repointed>>

(* Mutant: an Inactive merchant is taken for an active one. *)
BanAsIfActive(i) ==
  /\ Exists(i) /\ Status(i) # "Closed"
  /\ stats' = IF Status(i) \in {"Banned", "Suspended"} THEN stats ELSE Suspend(stats)
  /\ SetStatus(i, "Banned") /\ PointOwnerAt(i)
  /\ UNCHANGED <<now, nextId, nameOf, listed, shelf, verificationVars, moneyVars, open, repointed>>

BanMerchant(i) ==
  /\ Exists(i) /\ Status(i) # "Closed"
  /\ stats' = CASE Status(i) \in {"Banned", "Suspended"} -> stats
                [] Status(i) = "Inactive" -> [stats EXCEPT !.suspended = @ + 1]
                [] OTHER -> Suspend(stats)
  /\ SetStatus(i, "Banned") /\ PointOwnerAt(i)
  /\ UNCHANGED <<now, nextId, nameOf, listed, shelf, verificationVars, moneyVars, open, repointed>>

DeactivateMerchant(i) ==
  /\ Exists(i) /\ Status(i) \notin {"Inactive", "Closed", "Banned"}
  /\ stats' = IF Status(i) = "Suspended" THEN [stats EXCEPT !.suspended = Less(@)]
              ELSE [stats EXCEPT !.active = Less(@)]
  /\ SetStatus(i, "Inactive") /\ PointOwnerAt(i)
  /\ UNCHANGED <<now, nextId, nameOf, listed, shelf, verificationVars, moneyVars, open, repointed>>

(* file_merchant_suspension_appeal: one at a time. *)
FileAppeal(i, bond) ==
  /\ Exists(i) /\ Status(i) = "Suspended"
  /\ appeal[i].status # "Pending"
  /\ appeal' = [appeal EXCEPT ![i] = [status |-> "Pending", bond |-> bond]]
  /\ vault' = vault + bond
  /\ UNCHANGED <<now, merchant, nextId, indexVars, stats, verificationVars, deposit, open, repointed>>

(* resolve_merchant_appeal: an upheld appeal reinstates a merchant that is *)
(* still suspended and gives the bond back whatever has become of it since *)
UpholdAppeal(i) ==
  /\ appeal[i].status = "Pending"
  /\ IF Status(i) = "Suspended"
     THEN stats' = Unsuspend(stats) /\ SetStatus(i, Reinstated(i))
     ELSE UNCHANGED <<stats, merchant>>
  /\ vault' = vault - appeal[i].bond
  /\ appeal' = [appeal EXCEPT ![i].status = "UpheldAndReinstated"]
  /\ UNCHANGED <<now, nextId, indexVars, verificationVars, deposit, open, repointed>>

RejectAppeal(i) ==
  /\ appeal[i].status = "Pending"
  /\ vault' = vault - appeal[i].bond
  /\ appeal' = [appeal EXCEPT ![i].status = "RejectedAndSlashed"]
  /\ UNCHANGED <<now, merchant, nextId, indexVars, stats, verificationVars, deposit, open, repointed>>

-----------------------------------------------------------------------------
(***************************************************************************)
(* Open escrows, and the end of a storefront.                              *)
(***************************************************************************)
SetOpen(i, n) ==
  /\ Exists(i)
  /\ open' = [open EXCEPT ![i] = n]
  /\ UNCHANGED <<now, merchant, nextId, indexVars, stats, verificationVars, moneyVars, repointed>>

ReportEscrowOpened(i) == open[i] < MaxOpen /\ SetOpen(i, open[i] + 1)
ReportEscrowSettled(i) == SetOpen(i, Less(open[i]))
SetActiveEscrowCount(i, n) == SetOpen(i, n)

Retired(status) ==
  CASE status \in {"Suspended", "Banned"} ->
         [stats EXCEPT !.suspended = Less(@), !.closed = @ + 1]
    [] status \in {"Registered", "Verified"} ->
         [stats EXCEPT !.active = Less(@), !.closed = @ + 1]
    [] status = "Inactive" -> [stats EXCEPT !.closed = @ + 1]
    [] status = "Closed" -> stats

Delist(gone) ==
  /\ listed' = listed \ gone
  /\ shelf' = [c \in Categories |-> shelf[c] \ {i \in gone : merchant[i].category = c}]

(* close_merchant: also for a storefront that is Closed already. *)
CloseMerchant(i) ==
  /\ Exists(i)
  /\ Status(i) = "Closed" \/ open[i] = 0
  /\ stats' = Retired(Status(i))
  /\ SetStatus(i, "Closed") /\ PointOwnerAt(i) /\ Delist({i})
  /\ repointed' = IF ownerOf[merchant[i].owner] = i THEN repointed
                  ELSE repointed \cup {merchant[i].owner}
  /\ UNCHANGED <<now, nextId, nameOf, verificationVars, moneyVars, open>>

(* Mutant: the deposit stays on record. *)
DeregisterKeepingDeposit(i) ==
  /\ Exists(i) /\ deposit[i] # 0
  /\ stats' = Retired(Status(i))
  /\ SetStatus(i, "Closed") /\ Delist({i})
  /\ vault' = vault - deposit[i]
  /\ UNCHANGED <<now, nextId, ownerOf, nameOf, verificationVars, deposit, appeal, open, repointed>>

(* deregister_merchant: whatever its status, as long as the deposit is     *)
(* there; nobody asks for open escrows.                                    *)
DeregisterMerchant(i) ==
  /\ Exists(i) /\ deposit[i] # 0
  /\ stats' = Retired(Status(i))
  /\ SetStatus(i, "Closed") /\ Delist({i})
  /\ vault' = vault - deposit[i]
  /\ deposit' = [deposit EXCEPT ![i] = 0]
  /\ UNCHANGED <<now, nextId, ownerOf, nameOf, verificationVars, appeal, open, repointed>>

PruneClosedMerchants(ids) ==
  /\ Delist({i \in ids : Exists(i) /\ Status(i) = "Closed"})
  /\ UNCHANGED <<now, merchant, nextId, ownerOf, nameOf, stats, verificationVars, moneyVars,
                 open, repointed>>

Tick ==
  /\ now < MaxTime
  /\ now' = now + 1
  /\ UNCHANGED <<merchant, nextId, indexVars, stats, verificationVars, moneyVars, open, repointed>>

MarketplaceNext ==
  \/ \E o \in Owners, n \in Names, c \in Categories, r \in Required, d \in Deposits :
       RegisterMerchant(o, n, c, r, d)
  \/ \E v \in Verifiers : AddVerifier(v) \/ RemoveVerifier(v)
  \/ \E i \in Ids :
       \/ \E n \in Names, c \in Categories : UpdateMerchantProfile(i, n, c)
       \/ \E r \in Required : SetVerificationPolicy(i, r)
       \/ \E v \in Verifiers : VerifyMerchant(i, v)
       \/ RevokeVerification(i) \/ RevalidateMerchantStatus(i)
       \/ SuspendMerchant(i) \/ UnsuspendMerchant(i) \/ BanMerchant(i) \/ DeactivateMerchant(i)
       \/ \E b \in Bonds : FileAppeal(i, b)
       \/ UpholdAppeal(i) \/ RejectAppeal(i)
       \/ ReportEscrowOpened(i) \/ ReportEscrowSettled(i)
       \/ \E n \in Counts : SetActiveEscrowCount(i, n)
       \/ CloseMerchant(i) \/ DeregisterMerchant(i)
  \/ \E ids \in SUBSET Ids : PruneClosedMerchants(ids)
  \/ Tick

MarketplaceSpec == MarketplaceInit /\ [][MarketplaceNext]_marketVars

-----------------------------------------------------------------------------
(***************************************************************************)
(* Properties.                                                             *)
(***************************************************************************)
Registered == {i \in Ids : Exists(i)}
Live == {i \in Registered : Status(i) # "Closed"}
Bucket(statuses) == Cardinality({i \in Registered : Status(i) \in statuses})

(* The counters of get_merchant_stats, kept by every call by itself, are   *)
(* the numbers of merchants in each status, whatever the way into it.      *)
StatsMatchStatuses ==
  /\ stats.total = Cardinality(Registered)
  /\ stats.active = Bucket({"Registered", "Verified"})
  /\ stats.suspended = Bucket({"Suspended", "Banned"})
  /\ stats.closed = Bucket({"Closed"})

(* What escrows and buyers look up agrees with the records: storefronts    *)
(* are listed, and stand on the shelf of their category, until they are    *)
(* Closed; a name leads to the one merchant that has it; and an owner has  *)
(* one live storefront at most, under which the escrow contract finds it,  *)
(* unless an old one of his was closed once more.                          *)
IndexesFollowMerchants ==
  /\ listed = Live
  /\ \A c \in Categories : shelf[c] = {i \in Live : merchant[i].category = c}
  /\ \A n \in Names, i \in Registered : nameOf[n] = i <=> merchant[i].name = n
  /\ \A i \in Live : merchant[i].owner \notin repointed => ownerOf[merchant[i].owner] = i

(* What a storefront may still ask of the contract's tokens. *)
Owed(i) == deposit[i] + IF appeal[i].status = "Pending" THEN appeal[i].bond ELSE 0

(* Every token of the contract is the deposit of a merchant or the bond of *)
(* an appeal nobody has decided, whatever became of the merchant meanwhile *)
VaultHoldsDepositsAndBonds == vault = SumFunctionOnSet([i \in Ids |-> Owed(i)], Ids)

(* A merchant counts as verified only with the verifications its policy    *)
(* asks for, each by another verifier, or since the policy was raised over *)
(* its head; and one that trades has the status its flag says.             *)
VerifiedIsEarned ==
  \A i \in Registered :
    /\ count[i] = Cardinality(attested[i])
    /\ merchant[i].verified => count[i] >= policy[i].required \/ policy[i].raisedAt # Never
    /\ InBusiness(i) => Status(i) = Reinstated(i)
=============================================================================
