---------------------------- MODULE EscrowAdmin ----------------------------
(***************************************************************************)
(* The escrow contract's administration (escrow/src/lib.rs): who its       *)
(* admins are, how several of them upgrade the code and rescue the tokens  *)
(* of an order, and the reviewed changes of AdminActions, which the admins *)
(* of the moment ask for.                                                  *)
(*                                                                         *)
(* The orders are those of EscrowCore reduced to what a rescue reads: they *)
(* pay a part out, are disputed, or are left alone.                        *)
(***************************************************************************)
EXTENDS AdminActions, FiniteSets

CONSTANTS
  Users,          \* addresses that are, or may become, admins
  Orders,         \* orders that hold tokens
  Principal,      \* the tokens each of them holds at the start
  Hashes,         \* code the contract may be upgraded to
  Destinations,   \* where a rescue may send tokens
  MinThreshold,   \* MIN_UPGRADE_THRESHOLD
  UpgradeDelay,   \* UPGRADE_TIMELOCK_SECS
  RescueDelay     \* EMERGENCY_RESCUE_TIMELOCK_SECS

ASSUME AdminAssumption ==
  /\ IsFiniteSet(Users)
  /\ {Principal, MinThreshold, UpgradeDelay, RescueDelay} \subseteq Nat

VARIABLES
  admin,       \* Admin, an option
  nominee,     \* PendingAdmin, an option
  coAdmins,    \* AdminList
  threshold,   \* UpgradeThreshold
  upgrade,     \* UpgradeProposal, an option: [hash, at, approvals, executed]
  code,        \* the code the contract runs, an option
  order,       \* what a rescue reads and writes of each EscrowRecord
  rescue,      \* EmergencyRescueProposal of each order, an option
  redeployed,  \* ghost: has the constructor been called again?
  bar,         \* ghost: the threshold when the upgrade was proposed
  consent,     \* ghost: who has signed for each destination, and when it was last proposed
  paid         \* ghost: tokens that have left for each order

signerVars == <<admin, nominee, coAdmins, redeployed>>
upgradeVars == <<threshold, upgrade, code, bar>>
rescueVars == <<order, rescue, consent, paid>>
adminVars == <<signerVars, upgradeVars, rescueVars>>
vars == <<actionVars, adminVars>>

Unsigned == [d \in Destinations |-> [by |-> {}, at |-> 0]]

Admins == coAdmins \cup {u \in Users : admin = <<u>>}
UpgradeSignerCount == Cardinality(coAdmins) + Len(admin)
PendingUpgrade == upgrade # <<>> /\ ~upgrade[1].executed
ValidUpgradeApprovals == upgrade[1].approvals \cap Admins

AdminInit ==
  /\ ActionInit
  /\ admin = <<>>
  /\ nominee = <<>>
  /\ coAdmins = {}
  /\ threshold = MinThreshold
  /\ upgrade = <<>>
  /\ code = <<>>
  /\ order = [e \in Orders |->
                [status |-> "Funded", amount |-> Principal, released |-> 0, refunded |-> 0]]
  /\ rescue = [e \in Orders |-> <<>>]
  /\ redeployed = FALSE
  /\ bar = 0
  /\ consent = [e \in Orders |-> Unsigned]
  /\ paid = [e \in Orders |-> 0]

-----------------------------------------------------------------------------
(* Deployment. *)

(* constructor, run by the host when the contract is deployed, and an      *)
(* entry point of its own: it looks at nothing that is stored.             *)
Constructor(u, bps, treasury) ==
  /\ bps <= MaxFee
  /\ admin' = <<u>>
  /\ redeployed' = (redeployed \/ admin # <<>>)
  /\ SetFeeConfig(bps, treasury)
  /\ UNCHANGED <<ledger, queueVars, nominee, coAdmins, upgradeVars, rescueVars>>

(* initialize, for a contract that has no admin yet. *)
Initialize(u, bps, treasury) ==
  /\ admin = <<>>
  /\ Constructor(u, bps, treasury)

-----------------------------------------------------------------------------
(* The admins. *)

ProposeAdmin(u) ==
  /\ admin # <<>>
  /\ nominee' = <<u>>
  /\ UNCHANGED <<actionVars, admin, coAdmins, redeployed, upgradeVars, rescueVars>>

(* Mutant: the new primary admin stays on the list of co-admins. *)
AcceptAdminKeepsSeat ==
  /\ nominee # <<>>
  /\ admin' = nominee
  /\ nominee' = <<>>
  /\ UNCHANGED <<actionVars, coAdmins, redeployed, upgradeVars, rescueVars>>

(* accept_admin: the nominee; the admin before is none any more. *)
AcceptAdmin ==
  /\ nominee # <<>>
  /\ admin' = nominee
  /\ nominee' = <<>>
  /\ coAdmins' = coAdmins \ {nominee[1]}
  /\ UNCHANGED <<actionVars, redeployed, upgradeVars, rescueVars>>

CancelAdminTransfer ==
  /\ admin # <<>> /\ nominee # <<>>
  /\ nominee' = <<>>
  /\ UNCHANGED <<actionVars, admin, coAdmins, redeployed, upgradeVars, rescueVars>>

AddCoAdmin(u) ==
  /\ admin # <<>>
  /\ u \notin Admins
  /\ coAdmins' = coAdmins \cup {u}
  /\ UNCHANGED <<actionVars, admin, nominee, redeployed, upgradeVars, rescueVars>>

RemoveCoAdmin(u) ==
  /\ admin # <<>>
  /\ u \in coAdmins
  /\ coAdmins' = coAdmins \ {u}
  /\ UNCHANGED <<actionVars, admin, nominee, redeployed, upgradeVars, rescueVars>>

-----------------------------------------------------------------------------
(* Upgrades. *)

(* Mutant: the bar may be moved while an upgrade is pending. *)
SetUpgradeThresholdAnyTime(n) ==
  /\ admin # <<>>
  /\ n >= MinThreshold /\ n <= UpgradeSignerCount
  /\ threshold' = n
  /\ UNCHANGED <<actionVars, signerVars, upgrade, code, bar, rescueVars>>

(* set_upgrade_threshold: the primary admin, while no upgrade is pending. *)
SetUpgradeThreshold(n) ==
  /\ admin # <<>>
  /\ n >= MinThreshold /\ n <= UpgradeSignerCount
  /\ ~PendingUpgrade
  /\ threshold' = n
  /\ UNCHANGED <<actionVars, signerVars, upgrade, code, bar, rescueVars>>

ProposeUpgrade(u, hash) ==
  /\ u \in Admins
  /\ ~PendingUpgrade
  /\ upgrade' = <<[hash |-> hash, at |-> ledger, approvals |-> {u}, executed |-> FALSE]>>
  /\ bar' = threshold
  /\ UNCHANGED <<actionVars, signerVars, threshold, code, rescueVars>>

(* approve_upgrade: another admin, for the hash that is pending. *)
ApproveUpgrade(u) ==
  /\ u \in Admins
  /\ PendingUpgrade
  /\ u \notin upgrade[1].approvals
  /\ upgrade' = <<[upgrade[1] EXCEPT !.approvals = @ \cup {u}]>>
  /\ UNCHANGED <<actionVars, signerVars, threshold, code, bar, rescueVars>>

CancelUpgrade(u) ==
  /\ u \in Admins
  /\ PendingUpgrade
  /\ upgrade' = <<>>
  /\ UNCHANGED <<actionVars, signerVars, threshold, code, bar, rescueVars>>

(* upgrade: old enough, and approved by enough of the admins of today. *)
Upgrade(u) ==
  /\ u \in Admins
  /\ PendingUpgrade
  /\ ledger >= upgrade[1].at + UpgradeDelay
  /\ Cardinality(ValidUpgradeApprovals) >= threshold
  /\ upgrade' = <<[upgrade[1] EXCEPT !.executed = TRUE]>>
  /\ code' = <<upgrade[1].hash>>
  /\ UNCHANGED <<actionVars, signerVars, threshold, bar, rescueVars>>

-----------------------------------------------------------------------------
(* Orders, and the rescue of what they hold. *)

Remaining(e) == order[e].amount - order[e].released - order[e].refunded

(* Any release of EscrowCore: it closes the record when nothing is left. *)
ReleasePart(e, x) ==
  /\ order[e].status = "Funded"
  /\ x <= Remaining(e)
  /\ order' = [order EXCEPT ![e].released = @ + x,
                            ![e].status = IF x = Remaining(e) THEN "Released" ELSE @]
  /\ paid' = [paid EXCEPT ![e] = @ + x]
  /\ UNCHANGED <<actionVars, signerVars, upgradeVars, rescue, consent>>

Dispute(e) ==
  /\ order[e].status = "Funded"
  /\ order' = [order EXCEPT ![e].status = "Disputed"]
  /\ UNCHANGED <<actionVars, signerVars, upgradeVars, rescue, consent, paid>>

Rescuable(e) == order[e].status \in {"Funded", "Disputed"}

(* Mutant: the signatures collected so far are kept. *)
ProposeRescueKeepsApprovals(u, e, d) ==
  /\ u \in Admins
  /\ Rescuable(e)
  /\ LET before == IF rescue[e] = <<>> THEN {} ELSE rescue[e][1].approvals
     IN  rescue' = [rescue EXCEPT ![e] = <<[to |-> d, at |-> ledger, approvals |-> before \cup {u},
                                            executed |-> FALSE]>>]
  /\ consent' = [consent EXCEPT ![e][d] = [by |-> @.by \cup {u}, at |-> ledger]]
  /\ UNCHANGED <<actionVars, signerVars, upgradeVars, order, paid>>

(* propose_emergency_rescue: any admin, in place of the proposal before. *)
ProposeEmergencyRescue(u, e, d) ==
  /\ u \in Admins
  /\ Rescuable(e)
  /\ rescue' = [rescue EXCEPT ![e] = <<[to |-> d, at |-> ledger, approvals |-> {u},
                                        executed |-> FALSE]>>]
  /\ consent' = [consent EXCEPT ![e][d] = [by |-> @.by \cup {u}, at |-> ledger]]
  /\ UNCHANGED <<actionVars, signerVars, upgradeVars, order, paid>>

ApproveEmergencyRescue(u, e) ==
  /\ u \in Admins
  /\ rescue[e] # <<>>
  /\ ~rescue[e][1].executed
  /\ rescue' = [rescue EXCEPT ![e][1].approvals = @ \cup {u}]
  /\ consent' = [consent EXCEPT ![e][rescue[e][1].to].by = @ \cup {u}]
  /\ UNCHANGED <<actionVars, signerVars, upgradeVars, order, paid>>

(* emergency_rescue_stalled_escrow: what remains is sent, and the record   *)
(* says the whole principal was refunded.  The approvals are counted with  *)
(* those of users who are admins no more.                                  *)
EmergencyRescueStalledEscrow(u, e) ==
  /\ u \in Admins
  /\ Rescuable(e)
  /\ rescue[e] # <<>>
  /\ ~rescue[e][1].executed
  /\ ledger >= rescue[e][1].at + RescueDelay
  /\ Cardinality(rescue[e][1].approvals) >= threshold
  /\ rescue' = [rescue EXCEPT ![e][1].executed = TRUE]
  /\ order' = [order EXCEPT ![e].status = "Refunded", ![e].refunded = order[e].amount]
  /\ paid' = [paid EXCEPT ![e] = @ + Remaining(e)]
  /\ UNCHANGED <<actionVars, signerVars, upgradeVars, consent>>

-----------------------------------------------------------------------------

(* The reviewed changes; whoever calls them is an admin, but for the veto. *)
ReviewedStep ==
  /\ \/ /\ Admins # {}
        /\ \/ \E a \in AdminAction : QueueAdminAction(a) \/ ExecuteByArguments(a)
           \/ \E id \in Ids : ExecuteAdminAction(id)
     \/ admin # <<>> /\ \E g \in Guardians : SetSecurityGuardian(g)
     \/ \E id \in Ids : VetoAdminAction(id)
  /\ UNCHANGED adminVars

SignerStep ==
  \/ \E u \in Users, bps \in Rates, treasury \in Treasuries :
        Constructor(u, bps, treasury) \/ Initialize(u, bps, treasury)
  \/ \E u \in Users : ProposeAdmin(u) \/ AddCoAdmin(u) \/ RemoveCoAdmin(u)
  \/ AcceptAdmin
  \/ CancelAdminTransfer

UpgradeStep ==
  \/ \E n \in 0..Cardinality(Users) : SetUpgradeThreshold(n)
  \/ \E u \in Users, hash \in Hashes : ProposeUpgrade(u, hash)
  \/ \E u \in Users : ApproveUpgrade(u) \/ CancelUpgrade(u) \/ Upgrade(u)

RescueStep ==
  \/ \E e \in Orders, x \in 1..Principal : ReleasePart(e, x)
  \/ \E e \in Orders : Dispute(e)
  \/ \E u \in Users, e \in Orders, d \in Destinations : ProposeEmergencyRescue(u, e, d)
  \/ \E u \in Users, e \in Orders :
        ApproveEmergencyRescue(u, e) \/ EmergencyRescueStalledEscrow(u, e)

AdminNext ==
  \/ CloseLedger /\ UNCHANGED adminVars
  \/ ReviewedStep
  \/ SignerStep
  \/ UpgradeStep
  \/ RescueStep

AdminSpec == AdminInit /\ [][AdminNext]_vars

-----------------------------------------------------------------------------

(* Every variable holds a value of its storage type. *)
AdminTypeOK ==
  /\ admin \in {<<>>} \cup {<<u>> : u \in Users}
  /\ nominee \in {<<>>} \cup {<<u>> : u \in Users}
  /\ coAdmins \subseteq Users
  /\ threshold \in Nat /\ bar \in Nat
  /\ upgrade # <<>> =>
       /\ upgrade = <<upgrade[1]>>
       /\ upgrade[1].at \in Nat
       /\ upgrade[1].approvals \subseteq Users
       /\ upgrade[1].executed \in BOOLEAN

(* The upgrade threshold is compared with the number of admins, the sum of *)
(* two storages: no admin is counted twice, whoever was added, removed, or *)
(* has handed the primary role over, unless the constructor ran again.     *)
SignersAreCounted == ~redeployed => UpgradeSignerCount = Cardinality(Admins)

(* The bar is not lowered mid-flight (escrow/src/lib.rs:3206): new code    *)
(* runs with at least as many of today's admins behind it as were asked    *)
(* for when it was proposed, the whole delay before.                       *)
UpgradeMeetsItsBar ==
  [][code' # code =>
       /\ Cardinality(upgrade[1].approvals \cap Admins) >= bar
       /\ ledger >= upgrade[1].at + UpgradeDelay]_vars

(* Rescued tokens go where as many admins as the threshold asks for have   *)
(* signed that they go, and was announced the whole delay before: signing  *)
(* for one destination is never counted for another.                       *)
RescueIsWhatWasSigned ==
  [][\A e \in Orders : rescue[e] # <<>> /\ rescue'[e] # rescue[e] /\ rescue'[e][1].executed =>
       LET signed == consent[e][rescue[e][1].to]
       IN  Cardinality(signed.by) >= threshold /\ ledger >= signed.at + RescueDelay]_vars

(* No order pays more than it holds, through releases and rescues in any   *)
(* order, although the record of a rescued order may say it did: what was  *)
(* released of it is refunded once more on paper.                          *)
RescuePaysWhatIsLeft ==
  \A e \in Orders :
    /\ paid[e] <= order[e].amount
    /\ order[e].status = "Refunded" => paid[e] = order[e].amount

(* The review of AdminActions is kept whoever the admins are, as long as   *)
(* the contract is deployed once.                                          *)
KeepsReviewSinceDeployed ==
  Review!Init /\ [][redeployed' \/ Review!Next]_<<ledger, OnView, Settings>>

=============================================================================
