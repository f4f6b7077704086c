----------------------------- MODULE EscrowCore -----------------------------
(***************************************************************************)
(* The escrow contract's custody core (escrow/src/lib.rs): how an order is *)
(* opened, funded, protected against a front-running cancel, paid out to   *)
(* the seller, refunded to the buyer, kept alive by keepers, and archived. *)
(*                                                                         *)
(* Every entry point of a Soroban contract runs as one atomic transaction  *)
(* (an error rolls all of its writes back), so one action models one entry *)
(* point, and the interleavings are those of transactions sent by          *)
(* different parties and of the ledger closing between them.               *)
(*                                                                         *)
(* The ledger sequence and the timestamp advance together: one clock,      *)
(* "ledger", stands for both.  Addresses are reduced to the role a caller  *)
(* plays for the escrow it names: its buyer, its seller, an admin.         *)
(***************************************************************************)
EXTENDS Integers, FiniteSets, Sequences, Functions

CONSTANTS
  EscrowIds,               \* ids the contract's counter will hand out
  Amounts,                 \* principals a create call may ask for
  Surpluses,               \* tokens received beyond the amount asked
  Terms,                   \* timeout_ledgers arguments
  Lockouts,                \* windows set_cancel_lockout accepts
  DefaultLockout,          \* DEFAULT_CANCEL_LOCKOUT_LEDGERS
  Schedules,               \* milestone schedules: sequences of amounts
  DualControlThreshold,    \* DUAL_CONTROL_THRESHOLD
  GracePeriod,             \* DISPUTE_GRACE_PERIOD_LEDGERS
  Retention,               \* ARCHIVAL_RETENTION_LEDGERS
  BumpRate,                \* BUMP_RATE_LIMIT_LEDGERS
  BumpExtension,           \* PERSISTENT_BUMP_AMOUNT
  BountyWindow,            \* BUMP_BOUNTY_THRESHOLD_LEDGERS
  KeeperBounty,            \* KEEPER_BOUNTY_AMOUNT
  MaxLedger                \* bound: the last ledger of a run

ASSUME CoreAssumption ==
  /\ IsFiniteSet(EscrowIds)
  /\ Amounts \subseteq Nat \ {0}
  /\ Surpluses \subseteq Nat
  /\ Terms \subseteq Nat
  /\ Lockouts \subseteq Nat
  /\ DefaultLockout \in Nat
  /\ Schedules \subseteq Seq(Nat \ {0})
  /\ DualControlThreshold \in Nat
  /\ GracePeriod \in Nat
  /\ Retention \in Nat
  /\ BumpRate \in Nat
  /\ BumpExtension \in Nat
  /\ BountyWindow \in Nat
  /\ KeeperBounty \in Nat \ {0}
  /\ MaxLedger \in Nat

VARIABLES
  ledger,      \* the current ledger (sequence and timestamp)
  lockout,     \* the admin's cancel protection window, in ledgers
  escrow,      \* the stored EscrowRecord of each id
  guard,       \* acceptance state, cancel deadline and buyer agreement
  shipped,     \* is a ShipmentProof stored?
  gated,       \* RequireReleaseCondition
  milestones,  \* MilestoneConfig: a sequence, empty when there is none
  bumped,      \* LastBumpLedger
  vault,       \* the contract's token balance
  deposited,   \* ghost: tokens received for an escrow
  toSeller,    \* ghost: tokens that left for the seller's side (fee included)
  toBuyer,     \* ghost: tokens that went back to the buyer
  bounties     \* ghost: tokens paid to keepers

recordVars == <<escrow, guard, shipped, gated, milestones, bumped>>
coreVars == <<ledger, lockout, recordVars, vault, deposited, toSeller, toBuyer, bounties>>

-----------------------------------------------------------------------------

(* EscrowStatus, and two values for an id with no stored record: "Unused"  *)
(* before create and "Archived" once archive_terminal_escrow has swept it. *)
Statuses == {"Created", "Funded", "Inspection", "Released", "Refunded",
             "Disputed", "Cancelled", "InitialRuling"}
NoRecord == {"Unused", "Archived"}
Terminal == {"Released", "Refunded", "Cancelled"}

EscrowRecord ==
  [status   : Statuses \cup NoRecord,
   amount   : Nat,      \* the principal held for the order
   released : Nat,      \* released_amount
   refunded : Nat,      \* refunded_amount
   timeout  : Nat,      \* timeout_ledger
   created  : Nat,      \* created_at
   updated  : Nat]      \* updated_at

Blank(status) ==
  [status |-> status, amount |-> 0, released |-> 0, refunded |-> 0,
   timeout |-> 0, created |-> 0, updated |-> 0]

(* OrderAcceptance, CancelLockoutLedger and CancelBuyerAgreement. *)
CancelGuard ==
  [accepted : BOOLEAN,
   window   : Nat,       \* the window snapshotted when the order was opened
   allowed  : Nat,       \* first ledger of a unilateral cancel
   agreed   : BOOLEAN]   \* has the buyer agreed?

NoGuard == [accepted |-> FALSE, window |-> 0, allowed |-> 0, agreed |-> FALSE]

Milestone == [amount : Nat \ {0}, done : BOOLEAN]

Remaining(r) == r.amount - r.released - r.refunded

(* What the milestones marked done amount to. *)
Earned(schedule) ==
  SumFunction([i \in DOMAIN schedule |-> IF schedule[i].done THEN schedule[i].amount ELSE 0])

HasRecord(e) == escrow[e].status \in Statuses
Payable(e) == Remaining(escrow[e]) <= vault
TimedOut(e) == ledger >= escrow[e].timeout
IsMilestoneEscrow(e) == milestones[e] # <<>>

-----------------------------------------------------------------------------

CoreInit ==
  /\ ledger = 0
  /\ lockout = DefaultLockout
  /\ escrow = [e \in EscrowIds |-> Blank("Unused")]
  /\ guard = [e \in EscrowIds |-> NoGuard]
  /\ shipped = [e \in EscrowIds |-> FALSE]
  /\ gated = [e \in EscrowIds |-> FALSE]
  /\ milestones = [e \in EscrowIds |-> <<>>]
  /\ bumped = [e \in EscrowIds |-> 0]
  /\ vault = 0
  /\ deposited = [e \in EscrowIds |-> 0]
  /\ toSeller = [e \in EscrowIds |-> 0]
  /\ toBuyer = [e \in EscrowIds |-> 0]
  /\ bounties = 0

(* The network closes a ledger. *)
CloseLedger ==
  /\ ledger < MaxLedger
  /\ ledger' = ledger + 1
  /\ UNCHANGED <<lockout, recordVars, vault, deposited, toSeller, toBuyer, bounties>>

-----------------------------------------------------------------------------
(* Opening and funding an order. *)

(* The record create_internal stores; init_cancel_guard's snapshot of the  *)
(* window in force at that moment.                                         *)
NewRecord(status, amount, term) ==
  [status |-> status, amount |-> amount, released |-> 0, refunded |-> 0,
   timeout |-> ledger + term, created |-> ledger, updated |-> ledger]

(* A changed record is stamped with the time and written back. *)
Store(e, record) ==
  escrow' = [escrow EXCEPT ![e] = [record EXCEPT !.updated = ledger]]

NewGuard ==
  [accepted |-> FALSE, window |-> lockout, allowed |-> ledger + lockout, agreed |-> FALSE]

(* create: the order exists, nothing is paid yet. *)
Create(e, a, term) ==
  /\ escrow[e].status = "Unused"
  /\ escrow' = [escrow EXCEPT ![e] = NewRecord("Created", a, term)]
  /\ guard' = [guard EXCEPT ![e] = NewGuard]
  /\ UNCHANGED <<ledger, lockout, shipped, gated, milestones, bumped, vault,
                 deposited, toSeller, toBuyer, bounties>>

(* The buyer's transfer of "a" tokens, of which the contract must see its  *)
(* balance grow by at least "a" (verify_received_deposit_delta).           *)
Receive(e, tokens) ==
  /\ vault' = vault + tokens
  /\ deposited' = [deposited EXCEPT ![e] = @ + tokens]

(* deposit: create and fund in one call; the principal is what arrived. *)
Deposit(e, a, term, surplus) ==
  /\ escrow[e].status = "Unused"
  /\ escrow' = [escrow EXCEPT ![e] = NewRecord("Funded", a + surplus, term)]
  /\ guard' = [guard EXCEPT ![e] = NewGuard]
  /\ Receive(e, a + surplus)
  /\ UNCHANGED <<ledger, lockout, shipped, gated, milestones, bumped,
                 toSeller, toBuyer, bounties>>

(* create_milestone_escrow: a deposit of the schedule's total. *)
CreateMilestoneEscrow(e, schedule, term, surplus) ==
  /\ escrow[e].status = "Unused"
  /\ schedule # <<>>
  /\ escrow' = [escrow EXCEPT ![e] = NewRecord("Funded", SumFunction(schedule) + surplus, term)]
  /\ guard' = [guard EXCEPT ![e] = NewGuard]
  /\ milestones' = [milestones EXCEPT ![e] =
                      [i \in 1..Len(schedule) |-> [amount |-> schedule[i], done |-> FALSE]]]
  /\ Receive(e, SumFunction(schedule) + surplus)
  /\ UNCHANGED <<ledger, lockout, shipped, gated, bumped, toSeller, toBuyer, bounties>>

(* Mutant: the batch pulls one order's amount instead of the aggregate. *)
BatchCreatePullsOnce(batch, a, term) ==
  /\ batch # {}
  /\ \A e \in batch : escrow[e].status = "Unused"
  /\ escrow' = [e \in EscrowIds |->
                  IF e \in batch THEN NewRecord("Funded", a, term) ELSE escrow[e]]
  /\ guard' = [e \in EscrowIds |-> IF e \in batch THEN NewGuard ELSE guard[e]]
  /\ vault' = vault + a
  /\ deposited' = [e \in EscrowIds |-> IF e \in batch THEN a ELSE deposited[e]]
  /\ UNCHANGED <<ledger, lockout, shipped, gated, milestones, bumped,
                 toSeller, toBuyer, bounties>>

(* batch_create_escrows: several orders of one buyer, funded with a single *)
(* pull of the aggregate; the record keeps the amount asked for.           *)
BatchCreate(batch, a, term) ==
  /\ batch # {}
  /\ \A e \in batch : escrow[e].status = "Unused"
  /\ escrow' = [e \in EscrowIds |->
                  IF e \in batch THEN NewRecord("Funded", a, term) ELSE escrow[e]]
  /\ guard' = [e \in EscrowIds |-> IF e \in batch THEN NewGuard ELSE guard[e]]
  /\ vault' = vault + a * Cardinality(batch)
  /\ deposited' = [e \in EscrowIds |-> IF e \in batch THEN a ELSE deposited[e]]
  /\ UNCHANGED <<ledger, lockout, shipped, gated, milestones, bumped,
                 toSeller, toBuyer, bounties>>

(* fund: the buyer pays for an order that is still Created. *)
Fund(e, surplus) ==
  /\ escrow[e].status = "Created"
  /\ LET received == escrow[e].amount + surplus
     IN  /\ Store(e, [escrow[e] EXCEPT !.amount = received, !.status = "Funded"])
         /\ Receive(e, received)
  /\ UNCHANGED <<ledger, lockout, guard, shipped, gated, milestones, bumped,
                 toSeller, toBuyer, bounties>>

-----------------------------------------------------------------------------
(* The cancellation guard (issue #355). *)

(* set_cancel_lockout: an admin changes the window for orders to come. *)
SetCancelLockout(window) ==
  /\ lockout' = window
  /\ UNCHANGED <<ledger, recordVars, vault, deposited, toSeller, toBuyer, bounties>>

(* Mutant: the deadline restarts with the window in force now. *)
AcceptOrderCurrentWindow(e) ==
  /\ escrow[e].status = "Created"
  /\ guard' = [guard EXCEPT ![e] = [@ EXCEPT !.accepted = TRUE,
                                             !.allowed = ledger + lockout]]
  /\ UNCHANGED <<ledger, lockout, escrow, shipped, gated, milestones, bumped, vault,
                 deposited, toSeller, toBuyer, bounties>>
(* accept_order: the seller commits; the deadline restarts from now with   *)
(* the window snapshotted at creation.                                     *)
AcceptOrder(e) ==
  /\ escrow[e].status = "Created"
  /\ guard' = [guard EXCEPT ![e] = [@ EXCEPT !.accepted = TRUE,
                                             !.allowed = ledger + guard[e].window]]
  /\ UNCHANGED <<ledger, lockout, escrow, shipped, gated, milestones, bumped, vault,
                 deposited, toSeller, toBuyer, bounties>>

(* agree_cancel: the buyer waives the window. *)
AgreeCancel(e) ==
  /\ escrow[e].status = "Created"
  /\ guard' = [guard EXCEPT ![e].agreed = TRUE]
  /\ UNCHANGED <<ledger, lockout, escrow, shipped, gated, milestones, bumped, vault,
                 deposited, toSeller, toBuyer, bounties>>

(* cancel_block answers None. *)
MayCancel(e) ==
  /\ escrow[e].status = "Created"
  /\ guard[e].agreed \/ TimedOut(e) \/ ledger >= guard[e].allowed

(* cancel: the seller gives the order up; the agreement is used up. *)
Cancel(e) ==
  /\ MayCancel(e)
  /\ Store(e, [escrow[e] EXCEPT !.status = "Cancelled"])
  /\ guard' = [guard EXCEPT ![e].agreed = FALSE]
  /\ UNCHANGED <<ledger, lockout, shipped, gated, milestones, bumped, vault,
                 deposited, toSeller, toBuyer, bounties>>

-----------------------------------------------------------------------------
(* Paying out. *)

(* Mutant: released_amount is added to once more than tokens are paid. *)
ExecuteReleaseCountsTwice(e, x) ==
  LET r == escrow[e]
      rest == Remaining(r) - 2 * x
  IN  /\ x > 0
      /\ x <= Remaining(r)
      /\ x <= vault
      /\ Store(e, [r EXCEPT !.released = @ + 2 * x,
                           !.status = IF rest = 0 THEN "Released" ELSE @])
      /\ vault' = vault - x
      /\ toSeller' = [toSeller EXCEPT ![e] = @ + x]

(* execute_release: fee and net leave together, released_amount grows, and *)
(* the record turns Released exactly when nothing remains.                 *)
ExecuteRelease(e, x) ==
  LET r == escrow[e]
      rest == Remaining(r) - x
  IN  /\ x > 0
      /\ x <= Remaining(r)
      /\ x <= vault
      /\ Store(e, [r EXCEPT !.released = @ + x,
                           !.status = IF rest = 0 THEN "Released" ELSE @])
      /\ vault' = vault - x
      /\ toSeller' = [toSeller EXCEPT ![e] = @ + x]

(* The release gate an admin may impose on the buyer (issue #48). *)
GateOpen(e) == gated[e] => ~TimedOut(e)

(* Mutant: the milestone check is forgotten. *)
PartialReleaseAnyEscrow(e, caller, x) ==
  /\ caller \in {"buyer", "admin"}
  /\ escrow[e].status = "Funded"
  /\ escrow[e].amount <= DualControlThreshold
  /\ caller = "buyer" => GateOpen(e)
  /\ ExecuteRelease(e, x)
  /\ UNCHANGED <<ledger, lockout, guard, shipped, gated, milestones, bumped,
                 deposited, toBuyer, bounties>>

(* partial_release, and release (which asks for all that remains): the     *)
(* buyer or an admin pays the seller of a Funded, non-milestone escrow     *)
(* below the dual-control threshold.  batch_release is a sequence of these.*)
PartialRelease(e, caller, x) ==
  /\ caller \in {"buyer", "admin"}
  /\ ~IsMilestoneEscrow(e)
  /\ escrow[e].status = "Funded"
  /\ escrow[e].amount <= DualControlThreshold
  /\ caller = "buyer" => GateOpen(e)
  /\ ExecuteRelease(e, x)
  /\ UNCHANGED <<ledger, lockout, guard, shipped, gated, milestones, bumped,
                 deposited, toBuyer, bounties>>

(* release_milestone: the buyer pays one pending milestone. *)
ReleaseMilestone(e, i) ==
  /\ escrow[e].status = "Funded"
  /\ escrow[e].amount <= DualControlThreshold
  /\ GateOpen(e)
  /\ i \in DOMAIN milestones[e]
  /\ ~milestones[e][i].done
  /\ ExecuteRelease(e, milestones[e][i].amount)
  /\ milestones' = [milestones EXCEPT ![e][i].done = TRUE]
  /\ UNCHANGED <<ledger, lockout, guard, shipped, gated, bumped, deposited, toBuyer, bounties>>

(* Mutant: the shipment proof is asked of the buyer too. *)
MayRefundWithProof(e, caller) ==
  \/ /\ escrow[e].status = "Inspection"
     /\ caller = "buyer"
  \/ /\ escrow[e].status = "Funded"
     /\ TimedOut(e)
     /\ shipped[e]
  \/ /\ escrow[e].status = "Funded"
     /\ caller \in {"seller", "admin"}
     /\ ~TimedOut(e)

(* Mutant: a seller may still give in once the order is disputed. *)
MayRefundWhileDisputed(e, caller) ==
  \/ /\ escrow[e].status = "Inspection"
     /\ caller = "buyer"
  \/ /\ escrow[e].status \in {"Funded", "Disputed"}
     /\ caller = "buyer"
     /\ TimedOut(e)
  \/ /\ escrow[e].status \in {"Funded", "Disputed"}
     /\ caller \in {"seller", "admin"}
     /\ TimedOut(e) => shipped[e] /\ ledger >= escrow[e].timeout + GracePeriod

(* Who may refund now (partial_refund_internal): in Inspection only the    *)
(* buyer; before the timeout the seller or an admin; from the timeout on   *)
(* the buyer, and the seller or an admin only with a shipment proof and    *)
(* after the grace period.                                                 *)
MayRefund(e, caller) ==
  \/ /\ escrow[e].status = "Inspection"
     /\ caller = "buyer"
  \/ /\ escrow[e].status = "Funded"
     /\ caller = "buyer"
     /\ TimedOut(e)
  \/ /\ escrow[e].status = "Funded"
     /\ caller \in {"seller", "admin"}
     /\ TimedOut(e) => shipped[e] /\ ledger >= escrow[e].timeout + GracePeriod

(* Mutant: the amount is bounded by the principal instead of what remains. *)
PartialRefundOfPrincipal(e, caller, x) ==
  /\ MayRefund(e, caller)
  /\ x > 0
  /\ x <= escrow[e].amount
  /\ x <= vault
  /\ Store(e, [escrow[e] EXCEPT
                 !.refunded = @ + x,
                 !.status = IF Remaining(escrow[e]) <= x THEN "Refunded" ELSE @])
  /\ vault' = vault - x
  /\ toBuyer' = [toBuyer EXCEPT ![e] = @ + x]
  /\ UNCHANGED <<ledger, lockout, guard, shipped, gated, milestones, bumped,
                 deposited, toSeller, bounties>>

(* partial_refund, and refund (which asks for all that remains): tokens go *)
(* back to the buyer.  batch_refund is a sequence of these.                *)
PartialRefund(e, caller, x) ==
  /\ MayRefund(e, caller)
  /\ x > 0
  /\ x <= Remaining(escrow[e])
  /\ x <= vault
  /\ Store(e, [escrow[e] EXCEPT
                 !.refunded = @ + x,
                 !.status = IF Remaining(escrow[e]) = x THEN "Refunded" ELSE @])
  /\ vault' = vault - x
  /\ toBuyer' = [toBuyer EXCEPT ![e] = @ + x]
  /\ UNCHANGED <<ledger, lockout, guard, shipped, gated, milestones, bumped,
                 deposited, toSeller, bounties>>

-----------------------------------------------------------------------------
(* Settings of an open order. *)

(* record_shipment_proof: the seller, for any escrow that has a record. *)
RecordShipmentProof(e) ==
  /\ HasRecord(e)
  /\ shipped' = [shipped EXCEPT ![e] = TRUE]
  /\ UNCHANGED <<ledger, lockout, escrow, guard, gated, milestones, bumped, vault,
                 deposited, toSeller, toBuyer, bounties>>

(* set_require_release_condition: an admin, until the escrow is terminal. *)
SetRequireReleaseCondition(e, require) ==
  /\ HasRecord(e)
  /\ escrow[e].status \notin Terminal
  /\ gated' = [gated EXCEPT ![e] = require]
  /\ UNCHANGED <<ledger, lockout, escrow, guard, shipped, milestones, bumped, vault,
                 deposited, toSeller, toBuyer, bounties>>

(* extend_timeout: an admin alone, or buyer and seller together. *)
ExtendTimeout(e, deadline) ==
  /\ escrow[e].status = "Funded"
  /\ deadline > escrow[e].timeout
  /\ Store(e, [escrow[e] EXCEPT !.timeout = deadline])
  /\ UNCHANGED <<ledger, lockout, guard, shipped, gated, milestones, bumped, vault,
                 deposited, toSeller, toBuyer, bounties>>

(* bump_ttl_with_bounty: any keeper pushes the timeout of a Funded escrow  *)
(* back; close enough to that timeout, and with enough principal left, the *)
(* contract pays the keeper out of its balance.                            *)
EarnsBounty(e) ==
  LET left == escrow[e].timeout - ledger
  IN  left > 0 /\ left <= BountyWindow /\ Remaining(escrow[e]) >= KeeperBounty

KeeperBump(e) ==
  LET bounty == IF EarnsBounty(e) THEN KeeperBounty ELSE 0
  IN  /\ ledger - bumped[e] >= BumpRate
      /\ escrow[e].status = "Funded"
      /\ bounty <= vault
      /\ Store(e, [escrow[e] EXCEPT !.timeout = @ + BumpExtension])
      /\ bumped' = [bumped EXCEPT ![e] = ledger]
      /\ vault' = vault - bounty
      /\ bounties' = bounties + bounty
      /\ UNCHANGED <<ledger, lockout, guard, shipped, gated, milestones,
                     deposited, toSeller, toBuyer>>

(* archive_terminal_escrow: anyone, once a settled record is old enough.   *)
(* The cancel guard and the milestone schedule are not among the swept     *)
(* keys, and LastBumpLedger is swept from a storage it is not kept in.     *)
Archive(e) ==
  /\ escrow[e].status \in Terminal
  /\ escrow[e].status # "Cancelled" => Remaining(escrow[e]) = 0
  /\ ledger - escrow[e].updated >= Retention
  /\ escrow' = [escrow EXCEPT ![e] = Blank("Archived")]
  /\ shipped' = [shipped EXCEPT ![e] = FALSE]
  /\ gated' = [gated EXCEPT ![e] = FALSE]
  /\ UNCHANGED <<ledger, lockout, guard, milestones, bumped, vault,
                 deposited, toSeller, toBuyer, bounties>>

-----------------------------------------------------------------------------

Callers == {"buyer", "seller", "admin"}

OpenStep(e) ==
  \/ \E a \in Amounts, term \in Terms : Create(e, a, term)
  \/ \E a \in Amounts, term \in Terms, s \in Surpluses : Deposit(e, a, term, s)
  \/ \E schedule \in Schedules, term \in Terms, s \in Surpluses :
        CreateMilestoneEscrow(e, schedule, term, s)
  \/ \E s \in Surpluses : Fund(e, s)
  \/ AcceptOrder(e)
  \/ AgreeCancel(e)
  \/ Cancel(e)

PayStep(e) ==
  \/ \E caller \in Callers, x \in 1..vault :
        PartialRelease(e, caller, x) \/ PartialRefund(e, caller, x)
  \/ \E i \in DOMAIN milestones[e] : ReleaseMilestone(e, i)

UpkeepStep(e) ==
  \/ RecordShipmentProof(e)
  \/ \E require \in BOOLEAN : SetRequireReleaseCondition(e, require)
  \/ \E deadline \in 1..MaxLedger : ExtendTimeout(e, deadline)
  \/ KeeperBump(e)
  \/ Archive(e)

CoreNext ==
  \/ CloseLedger
  \/ \E window \in Lockouts : SetCancelLockout(window)
  \/ \E batch \in SUBSET EscrowIds, a \in Amounts, term \in Terms : BatchCreate(batch, a, term)
  \/ \E e \in EscrowIds : OpenStep(e) \/ PayStep(e) \/ UpkeepStep(e)

CoreSpec == CoreInit /\ [][CoreNext]_coreVars

(* Ledgers keep closing, and a buyer who wants the money back keeps asking *)
(* for all that remains.  No other party is assumed to act.                *)
BuyerPersists ==
  /\ WF_coreVars(CloseLedger)
  /\ \A e \in EscrowIds : WF_coreVars(PartialRefund(e, "buyer", Remaining(escrow[e])))

CoreFairSpec == CoreSpec /\ BuyerPersists

-----------------------------------------------------------------------------

(* Every variable holds a value of its storage type. *)
TypeOK ==
  /\ ledger \in Nat
  /\ lockout \in Nat
  /\ escrow \in [EscrowIds -> EscrowRecord]
  /\ guard \in [EscrowIds -> CancelGuard]
  /\ shipped \in [EscrowIds -> BOOLEAN]
  /\ gated \in [EscrowIds -> BOOLEAN]
  /\ milestones \in [EscrowIds -> Seq(Milestone)]
  /\ bumped \in [EscrowIds -> Nat]
  /\ vault \in Nat
  /\ deposited \in [EscrowIds -> Nat]
  /\ toSeller \in [EscrowIds -> Nat]
  /\ toBuyer \in [EscrowIds -> Nat]
  /\ bounties \in Nat

(* The record is an exact account of the tokens: what it says was released *)
(* went to the seller's side, what it says was refunded went to the buyer, *)
(* its principal is what the deposit brought in (nothing before funding),  *)
(* and it never promises more than that principal (contracts.md, Inv. 1).  *)
BooksMatchTokens ==
  \A e \in EscrowIds : HasRecord(e) =>
    /\ toSeller[e] = escrow[e].released
    /\ toBuyer[e] = escrow[e].refunded
    /\ deposited[e] =
         IF escrow[e].status \in {"Created", "Cancelled"} THEN 0 ELSE escrow[e].amount
    /\ toSeller[e] + toBuyer[e] <= deposited[e]

(* The status tells whether money is left: an open escrow still holds some *)
(* (so it can always be settled), a settled one is drained on the side its *)
(* name says, and an unfunded or cancelled one never paid anything.        *)
StatusMatchesBalance ==
  \A e \in EscrowIds :
    CASE escrow[e].status \in {"Created", "Cancelled"} ->
           escrow[e].released = 0 /\ escrow[e].refunded = 0 /\ escrow[e].amount > 0
      [] escrow[e].status = "Released" ->
           Remaining(escrow[e]) = 0 /\ escrow[e].released > 0
      [] escrow[e].status = "Refunded" ->
           Remaining(escrow[e]) = 0 /\ escrow[e].refunded > 0
      [] escrow[e].status \in NoRecord -> escrow[e].amount = 0
      [] OTHER -> Remaining(escrow[e]) > 0

(* archive_terminal_escrow forgets a record only when every token that     *)
(* came in for it has gone out: no later sweep can strand a deposit.       *)
ArchivedIsPaidOut ==
  \A e \in EscrowIds :
    escrow[e].status = "Archived" => toSeller[e] + toBuyer[e] = deposited[e]

(* What the contract still owes for an order. *)
Owed(e) == IF escrow[e].status \in NoRecord \cup {"Created", "Cancelled"}
           THEN 0 ELSE Remaining(escrow[e])

(* What the pool lacks to cover all orders is exactly what keepers were    *)
(* paid out of it: no create, batch, release, refund, cancel or archive    *)
(* leaks a token or leaves one behind, on whichever orders they interleave.*)
OnlyBountiesLeak == vault + bounties = SumFunction([e \in EscrowIds |-> Owed(e)])

(* Once Released, Refunded or Cancelled, a record is frozen, updated_at    *)
(* (from which retention is measured) included, and no token moves for it  *)
(* any more; the one thing left is to archive it.                          *)
TerminalIsFinal ==
  [][\A e \in EscrowIds : escrow[e].status \in Terminal =>
       /\ escrow'[e] = escrow[e] \/ escrow'[e].status = "Archived"
       /\ <<deposited[e], toSeller[e], toBuyer[e]>>' =
          <<deposited[e], toSeller[e], toBuyer[e]>>]_coreVars

(* A seller cannot cancel under a buyer who is about to fund: without the  *)
(* buyer's agreement and before the timeout, the window in force when the  *)
(* order was opened must have run out since then, whatever the admin set   *)
(* and whenever the seller accepted in between.                            *)
CancelHonoursWindow ==
  [][\A e \in EscrowIds :
       escrow[e].status = "Created" /\ escrow'[e].status = "Cancelled" =>
         \/ guard[e].agreed
         \/ TimedOut(e)
         \/ ledger >= escrow[e].created + guard[e].window]_coreVars

(* A buyer who persists is not locked in: once the timeout of a Funded     *)
(* escrow has passed, and while the contract holds what remains of it, the *)
(* escrow settles or leaves Funded, unless someone entitled to moves the   *)
(* timeout.  What the contract holds is not always enough: the bounties of *)
(* keepers are paid with the orders' own tokens, and an order they eat     *)
(* into can no longer be refunded in full.                                 *)
BuyerCanExit ==
  \A e \in EscrowIds :
    escrow[e].status = "Funded" /\ TimedOut(e) /\ Payable(e)
      ~> escrow[e].status # "Funded" \/ ~TimedOut(e) \/ ~Payable(e)

-----------------------------------------------------------------------------
(* The box of an order: what came in for it and what went out, and whether *)
(* the contract still counts it as open.                                   *)

BoxState(e) ==
  CASE escrow[e].status \in {"Unused", "Created"} -> "new"
    [] escrow[e].status \in Terminal \cup {"Archived"} -> "shut"
    [] OTHER -> "open"

BoxOf ==
  [e \in EscrowIds |-> [state |-> BoxState(e),
                        in     |-> deposited[e],
                        out    |-> toSeller[e] + toBuyer[e]]]

Boxed == INSTANCE Custody WITH Boxes <- EscrowIds, box <- BoxOf

(* The contract's core keeps the promise of Custody. *)
KeepsCustody == Boxed!Spec

=============================================================================
