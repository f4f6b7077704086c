--------------------------- MODULE EscrowDisputes ---------------------------
(***************************************************************************)
(* Delivery, inspection and disputes of the escrow contract                *)
(* (escrow/src/lib.rs), on top of its custody core: an oracle confirms the *)
(* delivery and the buyer inspects; a party disputes; arbiters vote, admins*)
(* rule, split or settle item by item; a ruling may be appealed; arbiters  *)
(* extend the timeout by quorum and are slashed for their silence.         *)
(*                                                                         *)
(* resolve_dispute is the merge of two versions, one after the other in    *)
(* one well-formed body: the first opens an appeal window and keeps the    *)
(* tokens (the version its comment and its tests describe), the second     *)
(* pays at once.  As the text stands both run.  Readings says which        *)
(* versions an instance considers: "merged" for the text as it stands,     *)
(* "twoTier" for its first half alone.                                     *)
(***************************************************************************)
EXTENDS EscrowCore

CONSTANTS
  Arbiters,           \* addresses that may be made arbiters
  Panels,             \* quorum configurations an admin may set
  Stakes,             \* stakes an arbiter may register
  Readings,           \* readings of resolve_dispute
  Itemisations,       \* sequences of item amounts set_sub_order_items may get
  Extensions,         \* extension_ledgers arbiters may ask for
  InspectionTerms,    \* inspection_duration_ledgers an admin may set
  DefaultInspection,  \* the inspection period when none is configured
  ResolutionWindow,   \* seconds from dispute to the slashing deadline
  AppealWindow,       \* APPEAL_WINDOW_LEDGERS
  MinBond             \* the least appeal bond

ASSUME DisputeAssumption ==
  /\ \A p \in Panels :
       /\ p.arbiters \in SUBSET Arbiters /\ IsFiniteSet(p.arbiters)
       /\ p.threshold \in 1..Cardinality(p.arbiters)
  /\ Stakes \subseteq Nat \ {0}
  /\ Readings \subseteq {"merged", "twoTier"}
  /\ \A parts \in Itemisations : parts \in Seq(Nat \ {0})
  /\ Extensions \subseteq Nat \ {0}
  /\ InspectionTerms \subseteq Nat
  /\ {DefaultInspection, AppealWindow, MinBond} \subseteq Nat
  /\ ResolutionWindow \in Nat \ {0}

VARIABLES
  locked,      \* ReleaseGuard
  inspection,  \* InspectionPeriodConfig of each escrow
  dueBy,       \* DisputeDeadline, 0 when there is none
  panel,       \* QuorumConfig
  votes,       \* DisputeVotes: a set of [arbiter, side]
  extensions,  \* TimeoutExtensionVotes: a set of [arbiter, by]
  stake,       \* ArbiterStakingRecord of each arbiter
  appeal,      \* DisputeAppealRecord
  items,       \* SubOrderItems: the amount of each item, ids are positions
  settled,     \* SubItemResolution: the positions resolved
  penalties,   \* ghost: tokens paid out as slashed stakes
  heard        \* ghost: the arbiters who voted in the escrow's dispute

inspectVars == <<locked, inspection>>
panelVars == <<panel, votes, extensions, stake, penalties, heard>>
rulingVars == <<dueBy, appeal, items, settled>>
ghostVars == <<deposited, toSeller, toBuyer, bounties>>
otherRecordVars == <<guard, shipped, gated, milestones, bumped>>
disputeVars == <<coreVars, inspectVars, panelVars, rulingVars>>

Sides == {"seller", "buyer"}

InspectionPeriod == [set : BOOLEAN, duration : Nat, auto : Nat]
NoInspection == [set |-> FALSE, duration |-> 0, auto |-> 0]

NoPanel == [arbiters |-> {}, threshold |-> 0]

(* "None" before resolve_dispute, then AppealStatus. *)
Appeal ==
  [status   : {"None", "Pending", "Appealed", "Finalized"},
   winner   : Sides,
   bond     : Nat,
   deadline : Nat]
NoAppeal == [status |-> "None", winner |-> "seller", bond |-> 0, deadline |-> 0]

Stake == [amount : Nat, slashed : BOOLEAN]

DisputeInit ==
  /\ CoreInit
  /\ locked = FALSE
  /\ inspection = [e \in EscrowIds |-> NoInspection]
  /\ dueBy = [e \in EscrowIds |-> 0]
  /\ panel = NoPanel
  /\ votes = [e \in EscrowIds |-> {}]
  /\ extensions = [e \in EscrowIds |-> {}]
  /\ stake = [a \in Arbiters |-> [amount |-> 0, slashed |-> FALSE]]
  /\ appeal = [e \in EscrowIds |-> NoAppeal]
  /\ items = [e \in EscrowIds |-> <<>>]
  /\ settled = [e \in EscrowIds |-> {}]
  /\ penalties = 0
  /\ heard = [e \in EscrowIds |-> {}]

-----------------------------------------------------------------------------
(* Tokens that leave for one side of an order. *)

Pay(e, side, tokens) ==
  /\ tokens <= vault
  /\ vault' = vault - tokens
  /\ IF side = "seller"
     THEN toSeller' = [toSeller EXCEPT ![e] = @ + tokens] /\ UNCHANGED toBuyer
     ELSE toBuyer' = [toBuyer EXCEPT ![e] = @ + tokens] /\ UNCHANGED toSeller
  /\ UNCHANGED <<deposited, bounties>>

(* Two sides at once. *)
PayBoth(e, forSeller, forBuyer) ==
  /\ forSeller + forBuyer <= vault
  /\ vault' = vault - forSeller - forBuyer
  /\ toSeller' = [toSeller EXCEPT ![e] = @ + forSeller]
  /\ toBuyer' = [toBuyer EXCEPT ![e] = @ + forBuyer]
  /\ UNCHANGED <<deposited, bounties>>

Closing(side) == IF side = "seller" THEN "Released" ELSE "Refunded"

-----------------------------------------------------------------------------
(* Delivery and inspection. *)

(* set_inspection_config: an admin, before the delivery is confirmed. *)
SetInspectionConfig(e, term) ==
  /\ escrow[e].status \in {"Created", "Funded"}
  /\ inspection' = [inspection EXCEPT ![e] =
                      [set |-> TRUE, duration |-> term, auto |-> ledger + term]]
  /\ UNCHANGED <<coreVars, locked, panelVars, rulingVars>>

(* verify_delivery_and_release: anyone who holds the oracle's signature.   *)
(* The release it is named for went to another function in a merge, and    *)
(* with it the call that unlocks the release guard it has locked.          *)
(* Principals above DualControlThreshold need a second approval.           *)
VerifyDelivery(e) ==
  /\ ~locked
  /\ escrow[e].status = "Funded"
  /\ escrow[e].amount <= DualControlThreshold
  /\ LET term == IF inspection[e].set THEN inspection[e].duration ELSE DefaultInspection
     IN  inspection' = [inspection EXCEPT ![e] =
                          [set |-> TRUE, duration |-> term, auto |-> ledger + term]]
  /\ locked' = TRUE
  /\ Store(e, [escrow[e] EXCEPT !.status = "Inspection"])
  /\ UNCHANGED <<ledger, lockout, otherRecordVars, vault, ghostVars, panelVars, rulingVars>>

ReleaseRest(e) ==
  /\ Store(e, [escrow[e] EXCEPT !.released = @ + Remaining(escrow[e]),
                                !.status = "Released"])
  /\ Pay(e, "seller", Remaining(escrow[e]))
  /\ UNCHANGED <<ledger, lockout, otherRecordVars, inspectVars, panelVars, rulingVars>>

(* release_on_inspection_passed: the buyer is content. *)
ReleaseOnInspectionPassed(e) ==
  /\ escrow[e].status = "Inspection"
  /\ ledger < inspection[e].auto
  /\ ReleaseRest(e)

(* claim_inspection_auto_release: anyone, once the window is over. *)
ClaimInspectionAutoRelease(e) ==
  /\ escrow[e].status = "Inspection"
  /\ ledger >= inspection[e].auto
  /\ ReleaseRest(e)

-----------------------------------------------------------------------------
(* Disputes, and the arbiters who settle them. *)

(* dispute: the buyer or the seller, within the inspection window if there *)
(* is one.                                                                 *)
Dispute(e) ==
  /\ \/ escrow[e].status = "Funded"
     \/ escrow[e].status = "Inspection" /\ ledger < inspection[e].auto
  /\ Store(e, [escrow[e] EXCEPT !.status = "Disputed"])
  /\ dueBy' = [dueBy EXCEPT ![e] = ledger + ResolutionWindow]
  /\ UNCHANGED <<ledger, lockout, otherRecordVars, vault, ghostVars, inspectVars,
                 panelVars, appeal, items, settled>>

(* set_quorum_config: an admin. *)
SetQuorumConfig(p) ==
  /\ panel' = p
  /\ UNCHANGED <<coreVars, inspectVars, votes, extensions, stake, penalties, heard, rulingVars>>

(* Mutant: nobody asks whether the arbiter has voted. *)
VoteDisputeAgain(e, a, side) ==
  /\ a \in panel.arbiters
  /\ escrow[e].status = "Disputed"
  /\ votes' = [votes EXCEPT ![e] = @ \cup {[arbiter |-> a, side |-> side]}]
  /\ heard' = [heard EXCEPT ![e] = @ \cup {a}]
  /\ UNCHANGED <<coreVars, inspectVars, panel, extensions, stake, penalties, rulingVars>>

(* vote_dispute: an arbiter of the panel, once per dispute. *)
VoteDispute(e, a, side) ==
  /\ a \in panel.arbiters
  /\ escrow[e].status = "Disputed"
  /\ \A v \in votes[e] : v.arbiter # a
  /\ votes' = [votes EXCEPT ![e] = @ \cup {[arbiter |-> a, side |-> side]}]
  /\ heard' = [heard EXCEPT ![e] = @ \cup {a}]
  /\ UNCHANGED <<coreVars, inspectVars, panel, extensions, stake, penalties, rulingVars>>

(* Votes of those who are arbiters now. *)
Tally(e, side) ==
  Cardinality({v \in votes[e] : v.side = side /\ v.arbiter \in panel.arbiters})

(* resolve_dispute_quorum: anyone, once exactly one side has a quorum.  It *)
(* pays the principal and leaves the record's amounts as they were.        *)
ResolveDisputeQuorum(e, side) ==
  /\ ~locked
  /\ escrow[e].status = "Disputed"
  /\ panel # NoPanel
  /\ Tally(e, side) >= panel.threshold
  /\ \A other \in Sides \ {side} : Tally(e, other) < panel.threshold
  /\ Store(e, [escrow[e] EXCEPT !.status = Closing(side)])
  /\ Pay(e, side, escrow[e].amount)
  /\ votes' = [votes EXCEPT ![e] = {}]
  /\ extensions' = [extensions EXCEPT ![e] = {}]
  /\ UNCHANGED <<ledger, lockout, otherRecordVars, inspectVars, panel, stake,
                 penalties, heard, rulingVars>>

(* extend_timeout_via_quorum: an arbiter asks for an extension, once per   *)
(* round; the round ends when enough have asked for the same.  Everyone    *)
(* who asked counts, arbiter still or not.  (Bound: no round once the      *)
(* timeout lies beyond MaxLedger.)                                         *)
ExtendTimeoutViaQuorum(e, a, by) ==
  LET asked == extensions[e] \cup {[arbiter |-> a, by |-> by]}
      agreed == Cardinality({v \in asked : v.by = by}) >= panel.threshold
  IN  /\ a \in panel.arbiters
      /\ HasRecord(e) /\ escrow[e].status \notin Terminal
      /\ \A v \in extensions[e] : v.arbiter # a
      /\ escrow[e].timeout <= MaxLedger
      /\ extensions' = [extensions EXCEPT ![e] = IF agreed THEN {} ELSE asked]
      /\ IF agreed
         THEN Store(e, [escrow[e] EXCEPT !.timeout = @ + by])
         ELSE UNCHANGED escrow
      /\ UNCHANGED <<ledger, lockout, otherRecordVars, vault, ghostVars, inspectVars,
                     panel, votes, stake, penalties, heard, rulingVars>>

(* register_arbiter_with_stake: a record, no token comes with it. *)
RegisterArbiter(a, amount) ==
  /\ stake' = [stake EXCEPT ![a] = [amount |-> amount, slashed |-> FALSE]]
  /\ UNCHANGED <<coreVars, inspectVars, panel, votes, extensions, penalties, heard, rulingVars>>

(* Mutant: the vote list is not consulted. *)
DelinquentVotersToo(e) ==
  {a \in panel.arbiters : ~stake[a].slashed /\ stake[a].amount > 0}

(* Those slash_delinquent_arbiter takes for silent: the vote list may have *)
(* been emptied since.                                                     *)
Delinquent(e) ==
  {a \in panel.arbiters :
     /\ \A v \in votes[e] : v.arbiter # a
     /\ ~stake[a].slashed
     /\ stake[a].amount > 0}

(* slash_delinquent_arbiter: anyone, after the deadline of the dispute,    *)
(* whatever has become of it.  Half of each stake goes to each party, out  *)
(* of the tokens held for orders.                                          *)
SlashDelinquentArbiters(e) ==
  LET fine == SumFunction([a \in Delinquent(e) |-> 2 * (stake[a].amount \div 2)])
  IN  /\ HasRecord(e)
      /\ dueBy[e] # 0
      /\ ledger > dueBy[e]
      /\ panel # NoPanel
      /\ Delinquent(e) # {}
      /\ fine <= vault
      /\ vault' = vault - fine
      /\ penalties' = penalties + fine
      /\ stake' = [a \in Arbiters |->
                     IF a \in Delinquent(e) THEN [amount |-> 0, slashed |-> TRUE] ELSE stake[a]]
      /\ UNCHANGED <<ledger, lockout, recordVars, ghostVars, inspectVars, panel,
                     votes, extensions, heard, rulingVars>>

(* prune_dispute_votes: the primary admin, for a terminal escrow. *)
PruneDisputeVotes(e) ==
  /\ escrow[e].status \in Terminal
  /\ votes' = [votes EXCEPT ![e] = {}]
  /\ extensions' = [extensions EXCEPT ![e] = {}]
  /\ UNCHANGED <<coreVars, inspectVars, panel, stake, penalties, heard, rulingVars>>

-----------------------------------------------------------------------------
(* Rulings and appeals. *)

Bond(amount) == IF amount \div 10 > MinBond THEN amount \div 10 ELSE MinBond

NewAppeal(e, side) ==
  [status |-> "Pending", winner |-> side, bond |-> Bond(escrow[e].amount),
   deadline |-> ledger + AppealWindow]

(* resolve_dispute: an admin rules for one side. *)
ResolveDispute(e, side, reading) ==
  /\ ~locked
  /\ escrow[e].status = "Disputed"
  /\ appeal' = [appeal EXCEPT ![e] = NewAppeal(e, side)]
  /\ \/ /\ reading = "twoTier"
        /\ Store(e, [escrow[e] EXCEPT !.status = "InitialRuling"])
        /\ UNCHANGED <<vault, ghostVars>>
     \/ /\ reading = "merged"
        /\ Store(e, [escrow[e] EXCEPT !.status = Closing(side)])
        /\ Pay(e, side, escrow[e].amount)
  /\ UNCHANGED <<ledger, lockout, otherRecordVars, inspectVars, panelVars, dueBy, items, settled>>

(* file_dispute_appeal: anyone but the winner of the ruling pays the bond. *)
FileDisputeAppeal(e) ==
  /\ escrow[e].status = "InitialRuling"
  /\ appeal[e].status = "Pending"
  /\ ledger <= appeal[e].deadline
  /\ appeal' = [appeal EXCEPT ![e].status = "Appealed"]
  /\ vault' = vault + appeal[e].bond
  /\ UNCHANGED <<ledger, lockout, recordVars, ghostVars, inspectVars, panelVars,
                 dueBy, items, settled>>

(* Mutant: the bond stays in the pool when the ruling is upheld. *)
FinalizeDisputeAppealKeepsBond(e, side) ==
  /\ HasRecord(e)
  /\ appeal[e].status = "Appealed"
  /\ appeal' = [appeal EXCEPT ![e].status = "Finalized"]
  /\ Store(e, [escrow[e] EXCEPT !.status = Closing(side)])
  /\ Pay(e, side, escrow[e].amount)
  /\ UNCHANGED <<ledger, lockout, otherRecordVars, inspectVars, panelVars, dueBy, items, settled>>

(* finalize_dispute_appeal: the appeals council names the final winner.    *)
(* The bond goes back to the appealer or on to the initial winner; the     *)
(* principal to the seller, or to whoever else was named.                  *)
FinalizeDisputeAppeal(e, side) ==
  /\ HasRecord(e)
  /\ appeal[e].status = "Appealed"
  /\ appeal' = [appeal EXCEPT ![e].status = "Finalized"]
  /\ Store(e, [escrow[e] EXCEPT !.status = Closing(side)])
  /\ appeal[e].bond + escrow[e].amount <= vault
  /\ vault' = vault - appeal[e].bond - escrow[e].amount
  /\ toSeller' = [toSeller EXCEPT ![e] = @ + IF side = "seller" THEN escrow[e].amount ELSE 0]
  /\ toBuyer' = [toBuyer EXCEPT ![e] = @ + IF side = "buyer" THEN escrow[e].amount ELSE 0]
  /\ UNCHANGED <<ledger, lockout, otherRecordVars, deposited, bounties, inspectVars,
                 panelVars, dueBy, items, settled>>

(* Mutant: the window is over on its last ledger. *)
FinalizeUncontestedEarly(e) ==
  /\ HasRecord(e)
  /\ appeal[e].status = "Pending"
  /\ ledger >= appeal[e].deadline
  /\ appeal' = [appeal EXCEPT ![e].status = "Finalized"]
  /\ Store(e, [escrow[e] EXCEPT !.status = Closing(appeal[e].winner)])
  /\ Pay(e, appeal[e].winner, escrow[e].amount)
  /\ UNCHANGED <<ledger, lockout, otherRecordVars, inspectVars, panelVars, dueBy, items, settled>>

(* Mutant: the status of the time before there were appeals. *)
FinalizeUncontestedDispute(e) ==
  /\ escrow[e].status = "Disputed"
  /\ appeal[e].status = "Pending"
  /\ ledger > appeal[e].deadline
  /\ appeal' = [appeal EXCEPT ![e].status = "Finalized"]
  /\ Store(e, [escrow[e] EXCEPT !.status = Closing(appeal[e].winner)])
  /\ Pay(e, appeal[e].winner, escrow[e].amount)
  /\ UNCHANGED <<ledger, lockout, otherRecordVars, inspectVars, panelVars, dueBy, items, settled>>

(* finalize_uncontested_ruling: anyone, after the window.  It asks for the *)
(* state of the appeal, never for the state of the escrow.                 *)
FinalizeUncontestedRuling(e) ==
  /\ HasRecord(e)
  /\ appeal[e].status = "Pending"
  /\ ledger > appeal[e].deadline
  /\ appeal' = [appeal EXCEPT ![e].status = "Finalized"]
  /\ Store(e, [escrow[e] EXCEPT !.status = Closing(appeal[e].winner)])
  /\ Pay(e, appeal[e].winner, escrow[e].amount)
  /\ UNCHANGED <<ledger, lockout, otherRecordVars, inspectVars, panelVars, dueBy, items, settled>>

(* resolve_dispute_split: an admin awards a part to each side (a mediator  *)
(* is paid out of the seller's side) of an escrow nothing was paid from.   *)
ResolveDisputeSplit(e, forBuyer) ==
  LET r == escrow[e]
      forSeller == r.amount - forBuyer
  IN  /\ r.status = "Disputed"
      /\ r.released = 0 /\ r.refunded = 0
      /\ forBuyer \in 0..r.amount
      /\ Store(e, [r EXCEPT !.refunded = forBuyer,
                            !.released = forSeller,
                            !.status = IF forSeller = 0 THEN "Refunded" ELSE "Released"])
      /\ PayBoth(e, forSeller, forBuyer)
      /\ UNCHANGED <<ledger, lockout, otherRecordVars, inspectVars, panelVars, rulingVars>>

(* set_sub_order_items: the buyer or an admin, while nothing was paid. *)
SetSubOrderItems(e, parts) ==
  /\ HasRecord(e) /\ escrow[e].status \notin Terminal
  /\ escrow[e].released = 0 /\ escrow[e].refunded = 0
  /\ parts # <<>> /\ SumFunction(parts) = escrow[e].amount
  /\ items' = [items EXCEPT ![e] = parts]
  /\ UNCHANGED <<coreVars, inspectVars, panelVars, dueBy, appeal, settled>>

(* Mutant: the item is bounded by the schedule alone. *)
ResolveSubItemUnchecked(e, i, forBuyer) ==
  LET r == escrow[e]
      forSeller == items[e][i] - forBuyer
      closed == r.released + r.refunded + items[e][i] = r.amount
  IN  /\ r.status = "Disputed"
      /\ i \in DOMAIN items[e] \ settled[e]
      /\ forBuyer \in 0..items[e][i]
      /\ Store(e, [r EXCEPT
                     !.refunded = @ + forBuyer,
                     !.released = @ + forSeller,
                     !.status = IF ~closed THEN @
                                ELSE IF r.released + forSeller = 0 THEN "Refunded" ELSE "Released"])
      /\ PayBoth(e, forSeller, forBuyer)
      /\ settled' = [settled EXCEPT ![e] = @ \cup {i}]
      /\ UNCHANGED <<ledger, lockout, otherRecordVars, inspectVars, panelVars, dueBy, appeal, items>>

(* resolve_sub_item_dispute: an admin settles one item, at most once, and  *)
(* never beyond the principal.                                             *)
ResolveSubItem(e, i, forBuyer) ==
  LET r == escrow[e]
      forSeller == items[e][i] - forBuyer
      closed == Remaining(r) = items[e][i]
  IN  /\ r.status = "Disputed"
      /\ i \in DOMAIN items[e] \ settled[e]
      /\ forBuyer \in 0..items[e][i]
      /\ items[e][i] <= Remaining(r)
      /\ Store(e, [r EXCEPT
                     !.refunded = @ + forBuyer,
                     !.released = @ + forSeller,
                     !.status = IF ~closed THEN @
                                ELSE IF r.released + forSeller = 0 THEN "Refunded" ELSE "Released"])
      /\ PayBoth(e, forSeller, forBuyer)
      /\ settled' = [settled EXCEPT ![e] = @ \cup {i}]
      /\ UNCHANGED <<ledger, lockout, otherRecordVars, inspectVars, panelVars, dueBy, appeal, items>>

-----------------------------------------------------------------------------
(* The core's operations in this larger state: release and partial_release *)
(* want the guard unlocked, archive_terminal_escrow sweeps the votes.      *)

ArchiveWithVotes(e) ==
  /\ Archive(e)
  /\ votes' = [votes EXCEPT ![e] = {}]
  /\ extensions' = [extensions EXCEPT ![e] = {}]
  /\ UNCHANGED <<inspectVars, panel, stake, penalties, heard, rulingVars>>

GuardedRelease(e, caller, x) ==
  /\ ~locked
  /\ PartialRelease(e, caller, x)
  /\ UNCHANGED <<inspectVars, panelVars, rulingVars>>

CoreStep(e) ==
  /\ \/ OpenStep(e)
     \/ \E caller \in Callers, x \in 1..vault : PartialRefund(e, caller, x)
     \/ \E i \in DOMAIN milestones[e] : ReleaseMilestone(e, i)
     \/ RecordShipmentProof(e)
     \/ \E require \in BOOLEAN : SetRequireReleaseCondition(e, require)
     \/ \E deadline \in 1..MaxLedger : ExtendTimeout(e, deadline)
     \/ KeeperBump(e)
  /\ UNCHANGED <<inspectVars, panelVars, rulingVars>>

InspectionStep(e) ==
  \/ \E term \in InspectionTerms : SetInspectionConfig(e, term)
  \/ VerifyDelivery(e)
  \/ ReleaseOnInspectionPassed(e)
  \/ ClaimInspectionAutoRelease(e)

ArbiterStep(e) ==
  \/ \E a \in Arbiters, side \in Sides : VoteDispute(e, a, side)
  \/ \E a \in Arbiters, by \in Extensions : ExtendTimeoutViaQuorum(e, a, by)
  \/ \E side \in Sides : ResolveDisputeQuorum(e, side)
  \/ SlashDelinquentArbiters(e)
  \/ PruneDisputeVotes(e)

RulingStep(e) ==
  \/ Dispute(e)
  \/ \E side \in Sides, reading \in Readings : ResolveDispute(e, side, reading)
  \/ FileDisputeAppeal(e)
  \/ \E side \in Sides : FinalizeDisputeAppeal(e, side)
  \/ FinalizeUncontestedRuling(e)
  \/ \E forBuyer \in 0..escrow[e].amount : ResolveDisputeSplit(e, forBuyer)
  \/ \E parts \in Itemisations : SetSubOrderItems(e, parts)
  \/ \E i \in DOMAIN items[e] : \E forBuyer \in 0..items[e][i] : ResolveSubItem(e, i, forBuyer)

DisputeNext ==
  \/ CloseLedger /\ UNCHANGED <<inspectVars, panelVars, rulingVars>>
  \/ \E window \in Lockouts :
        SetCancelLockout(window) /\ UNCHANGED <<inspectVars, panelVars, rulingVars>>
  \/ \E batch \in SUBSET EscrowIds, a \in Amounts, term \in Terms :
        BatchCreate(batch, a, term) /\ UNCHANGED <<inspectVars, panelVars, rulingVars>>
  \/ \E p \in Panels : SetQuorumConfig(p)
  \/ \E a \in Arbiters, amount \in Stakes : RegisterArbiter(a, amount)
  \/ \E e \in EscrowIds :
        \/ CoreStep(e)
        \/ \E caller \in Callers, x \in 1..vault : GuardedRelease(e, caller, x)
        \/ ArchiveWithVotes(e)
        \/ InspectionStep(e)
        \/ ArbiterStep(e)
        \/ RulingStep(e)

DisputeSpec == DisputeInit /\ [][DisputeNext]_disputeVars

(* finalize_uncontested_ruling is anyone's to call, so the winner of the   *)
(* ruling calls it.  No admin, arbiter or council is assumed to act.       *)
DisputeFairSpec ==
  /\ DisputeSpec
  /\ \A e \in EscrowIds : WF_disputeVars(FinalizeUncontestedRuling(e))

-----------------------------------------------------------------------------

(* Closed by a ruling that paid the principal and left the amounts alone.  *)
Ruled(e) == escrow[e].status \in {"Released", "Refunded"} /\ Remaining(escrow[e]) > 0

(* What the contract promises (escrow/src/lib.rs:9606: a terminal escrow   *)
(* "can never move again"; contracts.md, Inv. 1): no order pays out more   *)
(* than came in for it.                                                    *)
NoOrderOverpaid == \A e \in EscrowIds : toSeller[e] + toBuyer[e] <= deposited[e]

(* What the code does instead: beyond what its record accounts for, an     *)
(* order pays nothing unless it was ruled on; a ruling pays the principal  *)
(* once, whatever was paid before the dispute; and once more only when an  *)
(* appeal window was left open by a ruling that had already paid.          *)
RulingsPayThePrincipal ==
  \A e \in EscrowIds : HasRecord(e) =>
    LET beyond == toSeller[e] + toBuyer[e] - escrow[e].released - escrow[e].refunded
    IN  /\ Remaining(escrow[e]) >= 0
        /\ ~Ruled(e) => beyond = 0
        /\ Ruled(e) => \/ beyond = escrow[e].amount
                       \/ beyond = 2 * escrow[e].amount /\ appeal[e].status = "Finalized"

(* Every token of the pool is held for an order or is the bond of an appeal*)
(* being heard; what is missing went to keepers and as slashed stakes (for *)
(* which no arbiter ever brought a token in).                              *)
PoolIsAccountedFor ==
  vault + bounties + penalties =
    SumFunction([e \in EscrowIds |->
      deposited[e] - toSeller[e] - toBuyer[e]
        + IF appeal[e].status = "Appealed" THEN appeal[e].bond ELSE 0])

(* Both sides of a dispute can have a quorum at once (and then nobody can  *)
(* resolve it by quorum) only under a threshold of at most half the panel, *)
(* however often the panel was changed between the votes.                  *)
ConflictNeedsALaxPanel ==
  \A e \in EscrowIds :
    panel # NoPanel /\ (\A side \in Sides : Tally(e, side) >= panel.threshold)
      => 2 * panel.threshold <= Cardinality(panel.arbiters)

(* An arbiter who spoke in a dispute is not slashed for silence in it: not *)
(* while the dispute is open.  (Afterwards the vote list is gone, and with *)
(* it the proof of having voted.)                                          *)
OnlySilentAreSlashed ==
  [][\A a \in Arbiters : ~stake[a].slashed /\ stake'[a].slashed =>
       \E e \in EscrowIds :
         /\ dueBy[e] # 0 /\ ledger > dueBy[e]
         /\ a \notin heard[e] \/ escrow[e].status \in Terminal]_disputeVars

(* While an order is disputed or under a ruling that can be appealed, its  *)
(* money moves only by being settled, as a whole or an item at a time: no  *)
(* release, refund, milestone or keeper call reaches it.                   *)
DisputeHoldsMoney ==
  [][\A e \in EscrowIds :
       escrow[e].status \in {"Disputed", "InitialRuling"}
         /\ <<toSeller[e], toBuyer[e]>>' # <<toSeller[e], toBuyer[e]>>
       => escrow'[e].status \in Terminal \/ settled'[e] # settled[e]]_disputeVars

(* A ruling under appeal is carried out in one of two ways only: by the    *)
(* council, after an appeal was filed, or for its winner, once nobody can  *)
(* file one any more.  Nothing else changes who won, by when to appeal and *)
(* for what bond.                                                          *)
RulingIsFrozen ==
  [][\A e \in EscrowIds : escrow[e].status = "InitialRuling" =>
       LET now == appeal[e]  next == appeal'[e]
       IN  /\ <<next.winner, next.bond, next.deadline>> = <<now.winner, now.bond, now.deadline>>
           /\ escrow'[e].status # "InitialRuling" =>
                \/ now.status = "Appealed"
                \/ ledger > now.deadline /\ escrow'[e].status = Closing(now.winner)]_disputeVars

(* A ruling nobody appealed takes effect once the window is over, as long  *)
(* as the pool can pay it.                                                 *)
RulingTakesEffect ==
  \A e \in EscrowIds :
    escrow[e].status = "InitialRuling" /\ appeal[e].status = "Pending" /\ ledger > appeal[e].deadline
      ~> escrow[e].status \in Terminal \/ vault < escrow[e].amount

=============================================================================
