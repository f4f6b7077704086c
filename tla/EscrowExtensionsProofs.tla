----------------------- MODULE EscrowExtensionsProofs -----------------------
(***************************************************************************)
(* Proofs about the two modules that extend the custody core, for any      *)
(* orders and any bounds.                                                  *)
(*                                                                         *)
(* EscrowControls: for any approvers and panels.  The invariant of the core*)
(* still holds there; to it are added what an approval and what a panel's  *)
(* votes stand for.                                                        *)
(*                                                                         *)
(* EscrowDisputes: for any arbiters, panels and windows, in both readings  *)
(* of resolve_dispute.  The invariant of the core does not hold there: a   *)
(* ruling pays the principal and leaves the record's amounts as they were. *)
(* What holds instead is found in three steps: the types; the moves one    *)
(* call may make of an order and what they do to its books; and the tokens *)
(* of the pool.                                                            *)
(***************************************************************************)
EXTENDS EscrowControls, EscrowDisputes, EscrowCoreProofs

-----------------------------------------------------------------------------
(***************************************************************************)
(* EscrowControls.                                                         *)
(***************************************************************************)
(* The invariant. *)

(* No way out of EscrowControls leads into inspection. *)
NeverInspected == \A e \in EscrowIds : escrow[e].status # "Inspection"

(* An approval that stands was given by the approver who is named today.   *)
DualInv ==
  /\ cosigner \in [EscrowIds -> [who : {<<>>} \cup {<<u>> : u \in Approvers}, approved : BOOLEAN]]
  /\ signed \in [EscrowIds -> SUBSET Approvers]
  /\ \A e \in EscrowIds : cosigner[e].approved => \E u \in signed[e] : cosigner[e].who = <<u>>

OracleVote == [oracle : Oracles, met : BOOLEAN, at : Nat]

(* The votes are of members of today's panel, one each, none older than    *)
(* the first.                                                              *)
VotesOf(vs, members, now) ==
  /\ \A i, j \in DOMAIN vs : vs[i].oracle = vs[j].oracle => i = j
  /\ \A i \in DOMAIN vs : vs[i].oracle \in members /\ vs[1].at <= vs[i].at /\ vs[i].at <= now

PanelInv ==
  /\ oracles \in [EscrowIds -> {<<>>} \cup {<<p>> : p \in OraclePanels}]
  /\ oracleVotes \in [EscrowIds -> Seq(OracleVote)]
  /\ \A e \in EscrowIds :
       oracleVotes[e] # <<>> => VotesOf(oracleVotes[e], oracles[e][1].oracles, ledger)

SettingTypes ==
  /\ signoff \in [EscrowIds -> Seq([deadline : Nat, fallback : {"Refunded", "Disputed"}])]
  /\ pool \in Nat
  /\ slippage \in [EscrowIds -> {<<>>} \cup {<<b>> : b \in Bounds}]
  /\ nonce \in [EscrowIds -> Nat]

ControlsInv == CoreInv /\ NeverInspected /\ DualInv /\ PanelInv /\ SettingTypes

LEMMA ControlsConstants ==
  /\ ApprovalTerms \subseteq Nat /\ PoolAmounts \subseteq Nat /\ OracleWindow \in Nat
  /\ \A p \in OraclePanels : p.oracles \subseteq Oracles /\ IsFiniteSet(p.oracles)
  /\ \A v \in Vouchers : v.deadline \in Nat /\ v.nonce \in Nat
  BY ControlsAssumption

LEMMA ControlsInitInv == ControlsInit => ControlsInv
<1> SUFFICES ASSUME ControlsInit
             PROVE  ControlsInv
  OBVIOUS
<1>1. CoreInv
  BY InitInv DEF ControlsInit
<1>2. NeverInspected
  BY DEF ControlsInit, CoreInit, NeverInspected, Blank
<1>3. DualInv
  BY DEF ControlsInit, DualInv, Nobody
<1>4. PanelInv
  BY DEF ControlsInit, PanelInv
<1>5. SettingTypes
  BY DEF ControlsInit, SettingTypes
<1> QED
  BY <1>1, <1>2, <1>3, <1>4, <1>5 DEF ControlsInv

-----------------------------------------------------------------------------
(* The books: the invariant of the core, and how records move. *)

AllowedMove(r, s) == VerifyMonotonicDistributions(r, s) /\ IsValidTransition(r.status, s.status)

AllMove == \A e \in EscrowIds : HasRecord(e) /\ HasRecord(e)' => AllowedMove(escrow[e], escrow'[e])

LEMMA StandingStill ==
  ASSUME TypeOK, NEW e \in EscrowIds
  PROVE  AllowedMove(escrow[e], escrow[e])
  BY FieldTypes DEF AllowedMove, VerifyMonotonicDistributions, IsValidTransition

(* Only one record is written: it has only to answer for itself. *)
LEMMA OneRecordMoves ==
  ASSUME TypeOK, NeverInspected, NEW e \in EscrowIds,
         \A f \in EscrowIds \ {e} : escrow'[f] = escrow[f],
         escrow'[e].status # "Inspection",
         HasRecord(e) /\ HasRecord(e)' => AllowedMove(escrow[e], escrow'[e])
  PROVE  AllMove /\ NeverInspected'
  BY StandingStill DEF AllMove, NeverInspected, HasRecord

LEMMA NoneMoves ==
  ASSUME TypeOK, NeverInspected, UNCHANGED escrow
  PROVE  AllMove /\ NeverInspected'
  BY StandingStill DEF AllMove, NeverInspected, HasRecord

(* Whatever is paid out of a Funded order through execute_release. *)
LEMMA ReleaseEffect ==
  ASSUME TypeOK, NEW e \in EscrowIds, NEW x \in Nat, ExecuteRelease(e, x),
         escrow[e].status = "Funded"
  PROVE  /\ escrow'[e].released = escrow[e].released + x
         /\ escrow'[e].refunded = escrow[e].refunded
         /\ escrow'[e].status \in {"Released", "Funded"}
         /\ \A f \in EscrowIds \ {e} : escrow'[f] = escrow[f]
<1> DEFINE r == escrow[e]
           status == IF Remaining(r) - x = 0 THEN "Released" ELSE r.status
           record == [r EXCEPT !.released = @ + x, !.status = status]
<1>1. Store(e, record)
  BY DEF ExecuteRelease
<1>2. /\ escrow'[e] = [record EXCEPT !.updated = ledger]
      /\ \A f \in EscrowIds \ {e} : escrow'[f] = escrow[f]
  BY <1>1, StoreEffect
<1>3. /\ escrow'[e].released = r.released + x /\ escrow'[e].refunded = r.refunded
      /\ escrow'[e].status \in {"Released", "Funded"}
  BY <1>2, OrderTypes DEF EscrowRecord
<1> QED
  BY <1>2, <1>3

LEMMA ReleaseMoves ==
  ASSUME TypeOK, NeverInspected, NEW e \in EscrowIds, NEW x \in Nat, ExecuteRelease(e, x),
         escrow[e].status = "Funded"
  PROVE  AllMove /\ NeverInspected'
<1>1. AllowedMove(escrow[e], escrow'[e])
  BY ReleaseEffect, FieldTypes DEF AllowedMove, VerifyMonotonicDistributions, IsValidTransition
<1> QED
  BY <1>1, ReleaseEffect, OneRecordMoves

(* A record that is given a new status, amount, timeout or refund. *)
LEMMA RewriteMoves ==
  ASSUME TypeOK, NeverInspected, NEW e \in EscrowIds, NEW record \in EscrowRecord,
         Store(e, record),
         record.released = escrow[e].released, record.refunded >= escrow[e].refunded,
         record.status # "Inspection", IsValidTransition(escrow[e].status, record.status)
  PROVE  AllMove /\ NeverInspected'
<1>1. /\ escrow'[e] = [record EXCEPT !.updated = ledger]
      /\ \A f \in EscrowIds \ {e} : escrow'[f] = escrow[f]
  BY StoreEffect
<1>2. /\ escrow'[e].released = escrow[e].released /\ escrow'[e].refunded >= escrow[e].refunded
      /\ escrow'[e].status = record.status
  BY <1>1 DEF EscrowRecord
<1>3. AllowedMove(escrow[e], escrow'[e])
  BY <1>2, FieldTypes DEF AllowedMove, VerifyMonotonicDistributions
<1> QED
  BY <1>1, <1>2, <1>3, OneRecordMoves

LEMMA OpenStepFollowsTable ==
  ASSUME TypeOK, NeverInspected, NEW e \in EscrowIds, OpenStep(e)
  PROVE  AllMove /\ NeverInspected'
<1>1. ASSUME NEW status \in {"Created", "Funded"}, NEW a, NEW term,
             escrow[e].status = "Unused",
             escrow' = [escrow EXCEPT ![e] = NewRecord(status, a, term)]
      PROVE  AllMove /\ NeverInspected'
  <2>1. /\ ~HasRecord(e) /\ escrow'[e].status # "Inspection"
        /\ \A f \in EscrowIds \ {e} : escrow'[f] = escrow[f]
    BY <1>1 DEF HasRecord, Statuses, NewRecord, TypeOK
  <2> QED
    BY <2>1, OneRecordMoves
<1>2. ASSUME NEW a \in Amounts, NEW term \in Terms, Create(e, a, term)
      PROVE  AllMove /\ NeverInspected'
  BY <1>1, <1>2 DEF Create
<1>3. ASSUME NEW a \in Amounts, NEW term \in Terms, NEW s \in Surpluses, Deposit(e, a, term, s)
      PROVE  AllMove /\ NeverInspected'
  BY <1>1, <1>3 DEF Deposit
<1>4. ASSUME NEW schedule \in Schedules, NEW term \in Terms, NEW s \in Surpluses,
             CreateMilestoneEscrow(e, schedule, term, s)
      PROVE  AllMove /\ NeverInspected'
  BY <1>1, <1>4 DEF CreateMilestoneEscrow
<1>5. ASSUME NEW s \in Surpluses, Fund(e, s)
      PROVE  AllMove /\ NeverInspected'
  <2> DEFINE received == escrow[e].amount + s
             record == [escrow[e] EXCEPT !.amount = received, !.status = "Funded"]
  <2>1. received \in Nat
    BY ConstantTypes, FieldTypes
  <2>2. Store(e, record) /\ escrow[e].status = "Created"
    BY <1>5 DEF Fund
  <2> HIDE DEF received
  <2>3. record \in EscrowRecord
    BY <2>1, OrderTypes, RecordUpdates DEF Statuses
  <2>4. /\ record.released = escrow[e].released /\ record.refunded >= escrow[e].refunded
        /\ record.status = "Funded"
    BY OrderTypes, FieldTypes DEF EscrowRecord
  <2> HIDE DEF record
  <2> QED
    BY <2>2, <2>3, <2>4, RewriteMoves DEF IsValidTransition
<1>6. CASE AcceptOrder(e) \/ AgreeCancel(e)
  BY <1>6, NoneMoves DEF AcceptOrder, AgreeCancel
<1>7. CASE Cancel(e)
  <2> DEFINE record == [escrow[e] EXCEPT !.status = "Cancelled"]
  <2>1. Store(e, record) /\ escrow[e].status = "Created"
    BY <1>7 DEF Cancel, MayCancel
  <2>2. record \in EscrowRecord
    BY OrderTypes, RecordUpdates DEF Statuses
  <2>3. /\ record.released = escrow[e].released /\ record.refunded >= escrow[e].refunded
        /\ record.status = "Cancelled"
    BY OrderTypes, FieldTypes DEF EscrowRecord
  <2> HIDE DEF record
  <2> QED
    BY <2>1, <2>2, <2>3, RewriteMoves DEF IsValidTransition
<1> QED
  BY <1>2, <1>3, <1>4, <1>5, <1>6, <1>7 DEF OpenStep

(* A payment back to the buyer. *)
LEMMA RefundMoves ==
  ASSUME TypeOK, NeverInspected, NEW e \in EscrowIds, NEW x \in Nat, NEW status,
         escrow[e].status = "Funded", status \in {"Funded", "Refunded"},
         Store(e, [escrow[e] EXCEPT !.refunded = @ + x, !.status = status])
  PROVE  AllMove /\ NeverInspected'
<1> DEFINE refunded == escrow[e].refunded + x
           record == [escrow[e] EXCEPT !.refunded = refunded, !.status = status]
<1>1. refunded \in Nat /\ refunded >= escrow[e].refunded
  BY FieldTypes
<1> HIDE DEF refunded
<1>2. record \in EscrowRecord
  BY <1>1, OrderTypes, RecordUpdates DEF Statuses
<1>3. /\ record.released = escrow[e].released /\ record.refunded = refunded
      /\ record.status = status
  BY OrderTypes DEF EscrowRecord
<1>4. Store(e, record)
  BY DEF refunded
<1> HIDE DEF record
<1> QED
  BY <1>1, <1>2, <1>3, <1>4, RewriteMoves DEF IsValidTransition

LEMMA PayStepFollowsTable ==
  ASSUME TypeOK, NeverInspected, NEW e \in EscrowIds, PayStep(e)
  PROVE  AllMove /\ NeverInspected'
<1>1. ASSUME NEW caller \in Callers, NEW x \in 1..vault, PartialRelease(e, caller, x)
      PROVE  AllMove /\ NeverInspected'
  <2>1. x \in Nat
    BY OrderTypes
  <2> QED
    BY <1>1, <2>1, ReleaseMoves DEF PartialRelease
<1>2. ASSUME NEW caller \in Callers, NEW x \in 1..vault, PartialRefund(e, caller, x)
      PROVE  AllMove /\ NeverInspected'
  <2>1. x \in Nat /\ escrow[e].status = "Funded"
    BY <1>2, OrderTypes DEF PartialRefund, MayRefund, NeverInspected
  <2> DEFINE status == IF Remaining(escrow[e]) = x THEN "Refunded" ELSE escrow[e].status
  <2>2. status \in {"Funded", "Refunded"}
    BY <2>1
  <2>3. Store(e, [escrow[e] EXCEPT !.refunded = @ + x, !.status = status])
    BY <1>2 DEF PartialRefund
  <2> HIDE DEF status
  <2> QED
    BY <2>1, <2>2, <2>3, RefundMoves
<1>3. ASSUME NEW i \in DOMAIN milestones[e], ReleaseMilestone(e, i)
      PROVE  AllMove /\ NeverInspected'
  <2>1. milestones[e] \in Seq(Milestone) /\ milestones[e][i] \in Milestone
    BY <1>3, ElementOfSeq, OrderTypes
  <2>2. milestones[e][i].amount \in Nat
    BY <2>1 DEF Milestone
  <2> QED
    BY <1>3, <2>2, ReleaseMoves DEF ReleaseMilestone
<1> QED
  BY <1>1, <1>2, <1>3 DEF PayStep

-----------------------------------------------------------------------------
(* The ways out of this module keep the books. *)

LEMMA OtherRelease ==
  ASSUME CoreInv, NeverInspected, NEW e \in EscrowIds, NEW x, x \in Nat, ExecuteRelease(e, x),
         Funded(e), UNCHANGED <<outVars, deposited, toBuyer>>
  PROVE  CoreInv' /\ AllMove /\ NeverInspected'
<1>1. TypeOK /\ escrow[e].status = "Funded"
  BY DEF CoreInv, Funded
<1>2. /\ escrow' \in [EscrowIds -> EscrowRecord] /\ vault' \in Nat
      /\ toSeller' \in [EscrowIds -> Nat]
  BY <1>1, ExecuteReleaseType
<1>3. TypeOK'
  BY <1>1, <1>2 DEF TypeOK, outVars
<1>4. CoreInv'
  BY <1>1, <1>3, ExecuteReleaseInv DEF outVars
<1> QED
  BY <1>1, <1>4, ReleaseMoves

LEMMA RemainingIsNat ==
  ASSUME CoreInv, NEW e \in EscrowIds, Funded(e)
  PROVE  Remaining(escrow[e]) \in Nat /\ Remaining(escrow[e]) > 0
<1>1. TypeOK /\ Accounts(escrow[e], deposited[e], toSeller[e], toBuyer[e])
  BY DEF CoreInv
<1> QED
  BY <1>1, FieldTypes DEF Funded, Accounts, Remaining

LEMMA TimeoutKeepsBooks ==
  ASSUME CoreInv, NeverInspected, NEW e \in EscrowIds, HandleDualControlTimeout(e)
  PROVE  CoreInv' /\ AllMove /\ NeverInspected'
<1>0. /\ TypeOK /\ escrow[e].status = "Funded"
      /\ Accounts(escrow[e], deposited[e], toSeller[e], toBuyer[e])
      /\ Remaining(escrow[e]) \in Nat /\ Remaining(escrow[e]) > 0
      /\ UNCHANGED <<outVars, deposited, toSeller>>
  BY RemainingIsNat DEF HandleDualControlTimeout, CoreInv, Funded
<1>1. CASE /\ Remaining(escrow[e]) <= vault
           /\ Store(e, [escrow[e] EXCEPT !.refunded = @ + Remaining(escrow[e]),
                                         !.status = "Refunded"])
           /\ vault' = vault - Remaining(escrow[e])
           /\ toBuyer' = [toBuyer EXCEPT ![e] = @ + Remaining(escrow[e])]
  <2>1. AllMove /\ NeverInspected'
    BY <1>0, <1>1, RefundMoves
  <2> DEFINE refunded == escrow[e].refunded + Remaining(escrow[e])
             record == [escrow[e] EXCEPT !.refunded = refunded, !.status = "Refunded"]
  <2>2. refunded \in Nat /\ refunded > 0 /\ Store(e, record)
    BY <1>0, <1>1, FieldTypes
  <2>3. escrow[e].released + refunded = escrow[e].amount
    BY <1>0, FieldTypes DEF Remaining
  <2> HIDE DEF refunded
  <2>4. record \in EscrowRecord
    BY <1>0, <2>2, OrderTypes, RecordUpdates DEF Statuses
  <2>5. /\ record.released = escrow[e].released /\ record.refunded = refunded
        /\ record.amount = escrow[e].amount /\ record.status = "Refunded"
    BY <1>0, OrderTypes DEF EscrowRecord
  <2> HIDE DEF record
  <2>6. escrow' \in [EscrowIds -> EscrowRecord]
    BY <1>0, <2>2, <2>4, StoreType
  <2>7. vault' \in Nat /\ toBuyer' \in [EscrowIds -> Nat]
    BY <1>0, <1>1 DEF TypeOK
  <2>8. TypeOK'
    BY <1>0, <2>6, <2>7 DEF TypeOK, outVars
  <2>9. /\ escrow'[e] = [record EXCEPT !.updated = ledger]
        /\ \A f \in EscrowIds \ {e} : escrow'[f] = escrow[f]
    BY <1>0, <2>2, StoreEffect
  <2>10. /\ escrow'[e].released = escrow[e].released /\ escrow'[e].refunded = refunded
         /\ escrow'[e].amount = escrow[e].amount /\ escrow'[e].status = "Refunded"
    BY <2>4, <2>5, <2>9 DEF EscrowRecord
  <2>11. toBuyer'[e] = refunded
    <3>1. toBuyer'[e] = toBuyer[e] + Remaining(escrow[e]) /\ toBuyer[e] = escrow[e].refunded
      BY <1>0, <1>1 DEF TypeOK, Accounts, Statuses
    <3> QED
      BY <3>1 DEF refunded
  <2>12. /\ deposited'[e] = escrow[e].amount /\ toSeller'[e] = escrow[e].released
    BY <1>0 DEF Accounts, Statuses
  <2>13. Accounts(escrow'[e], deposited'[e], toSeller'[e], toBuyer'[e])
    BY <2>2, <2>3, <2>10, <2>11, <2>12 DEF Accounts, Statuses, NoRecord
  <2>14. Deadlines(escrow'[e], guard'[e], ledger')
    BY <2>10 DEF Deadlines
  <2> QED
    BY <1>0, <1>1, <2>1, <2>8, <2>9, <2>13, <2>14, OneOrder DEF outVars, TypeOK
<1>2. CASE /\ Store(e, [escrow[e] EXCEPT !.status = "Disputed"])
           /\ UNCHANGED <<vault, toBuyer>>
  <2> DEFINE record == [escrow[e] EXCEPT !.status = "Disputed"]
  <2>1. record \in EscrowRecord /\ Store(e, record)
    BY <1>0, <1>2, OrderTypes, RecordUpdates DEF Statuses
  <2>2. /\ record.released = escrow[e].released /\ record.refunded = escrow[e].refunded
        /\ record.amount = escrow[e].amount /\ record.status = "Disputed"
    BY <1>0, OrderTypes DEF EscrowRecord
  <2> HIDE DEF record
  <2>3. AllMove /\ NeverInspected'
    BY <1>0, <2>1, <2>2, FieldTypes, RewriteMoves DEF IsValidTransition
  <2>4. TypeOK'
    BY <1>0, <1>2, <2>1, StoreType DEF TypeOK, outVars
  <2>5. /\ escrow'[e] = [record EXCEPT !.updated = ledger]
        /\ \A f \in EscrowIds \ {e} : escrow'[f] = escrow[f]
    BY <1>0, <2>1, StoreEffect
  <2>6. /\ escrow'[e].released = escrow[e].released /\ escrow'[e].refunded = escrow[e].refunded
        /\ escrow'[e].amount = escrow[e].amount /\ escrow'[e].status = "Disputed"
    BY <2>1, <2>2, <2>5 DEF EscrowRecord
  <2>7. Accounts(escrow'[e], deposited'[e], toSeller'[e], toBuyer'[e])
    BY <1>0, <1>2, <2>6 DEF Accounts, Statuses, NoRecord
  <2>8. Deadlines(escrow'[e], guard'[e], ledger')
    BY <2>6 DEF Deadlines
  <2> QED
    BY <1>0, <1>2, <2>3, <2>4, <2>5, <2>7, <2>8, OneOrder DEF outVars
<1> QED
  BY <1>1, <1>2 DEF HandleDualControlTimeout

LEMMA ExtensionKeepsBooks ==
  ASSUME CoreInv, NeverInspected, NEW e \in EscrowIds, NEW v \in Vouchers,
         ExtendTimeoutWithMutualSignatures(e, v)
  PROVE  CoreInv' /\ AllMove /\ NeverInspected'
<1> DEFINE record == [escrow[e] EXCEPT !.timeout = v.deadline]
<1>0. /\ TypeOK /\ escrow[e].status = "Funded" /\ v.deadline \in Nat
      /\ Store(e, record) /\ UNCHANGED <<outVars, vault, deposited, toSeller, toBuyer>>
  BY ControlsConstants DEF ExtendTimeoutWithMutualSignatures, CoreInv, Funded
<1>1. record \in EscrowRecord
  BY <1>0, OrderTypes, FieldTypes, RecordUpdates
<1>2. /\ record.released = escrow[e].released /\ record.refunded = escrow[e].refunded
      /\ record.status = "Funded"
  BY <1>0, OrderTypes DEF EscrowRecord
<1>3. TypeOK'
  BY <1>0, <1>1, StoreType DEF TypeOK, outVars
<1>4. CoreInv'
  BY <1>0, <1>3, TimeoutInv DEF outVars
<1> HIDE DEF record
<1>5. AllMove /\ NeverInspected'
  BY <1>0, <1>1, <1>2, FieldTypes, RewriteMoves DEF IsValidTransition
<1> QED
  BY <1>4, <1>5

(* A step that moves tokens of no order. *)
LEMMA BooksStay ==
  ASSUME CoreInv, NeverInspected, UNCHANGED <<outVars, escrow, deposited, toSeller, toBuyer>>,
         vault' \in Nat
  PROVE  CoreInv' /\ AllMove /\ NeverInspected'
<1>1. TypeOK'
  BY DEF CoreInv, TypeOK, outVars
<1>2. CoreInv'
  BY <1>1 DEF CoreInv, outVars
<1> QED
  BY <1>2, NoneMoves DEF CoreInv

LEMMA CoreStays ==
  ASSUME CoreInv, NeverInspected, UNCHANGED coreVars
  PROVE  CoreInv' /\ AllMove /\ NeverInspected'
  BY BooksStay DEF coreVars, recordVars, outVars, CoreInv, TypeOK

LEMMA CoreOperationBooks ==
  ASSUME CoreInv, NeverInspected, NEW e \in EscrowIds, CoreOperation(e) \/ ArchiveWithApproval(e)
  PROVE  CoreInv' /\ AllMove /\ NeverInspected'
<1>0. TypeOK
  BY DEF CoreInv
<1>1. CASE OpenStep(e)
  BY <1>0, <1>1, OpenStepType, OpenStepInv, OpenStepFollowsTable
<1>2. CASE PayStep(e)
  BY <1>0, <1>2, PayStepType, PayStepInv, PayStepFollowsTable
<1>3. CASE ArchiveWithApproval(e)
  <2>1. UpkeepStep(e)
    BY <1>3 DEF ArchiveWithApproval, UpkeepStep
  <2>2. CoreInv'
    BY <1>0, <2>1, UpkeepStepType, UpkeepStepInv
  <2>3. /\ escrow'[e] = Blank("Archived")
        /\ \A f \in EscrowIds \ {e} : escrow'[f] = escrow[f]
    BY <1>0, <1>3 DEF ArchiveWithApproval, Archive, TypeOK
  <2>4. ~HasRecord(e)' /\ escrow'[e].status # "Inspection"
    BY <2>3 DEF HasRecord, Statuses, Blank
  <2> QED
    BY <1>0, <2>2, <2>3, <2>4, OneRecordMoves
<1> QED
  BY <1>1, <1>2, <1>3 DEF CoreOperation

LEMMA DualStepBooks ==
  ASSUME CoreInv, NeverInspected, NEW e \in EscrowIds, DualStep(e)
  PROVE  CoreInv' /\ AllMove /\ NeverInspected'
<1>1. CASE HandleDualControlTimeout(e)
  BY <1>1, TimeoutKeepsBooks
<1>2. CASE ReleaseWithSwap(e)
  BY <1>2, RemainingIsNat, OtherRelease DEF ReleaseWithSwap
<1>3. CASE UNCHANGED coreVars
  BY <1>3, CoreStays
<1> QED
  BY <1>1, <1>2, <1>3
  DEF DualStep, SetDualControlConfig, ApproveRelease, SetDualControlTimeout,
      SetCrossCurrencySwapConfig

LEMMA ProofStepBooks ==
  ASSUME CoreInv, NeverInspected, NEW e \in EscrowIds, ProofStep(e)
  PROVE  CoreInv' /\ AllMove /\ NeverInspected'
<1>1. ASSUME NEW d \in Dates, ReleaseWithMerkleProof(e, d)
      PROVE  CoreInv' /\ AllMove /\ NeverInspected'
  BY <1>1, RemainingIsNat, OtherRelease DEF ReleaseWithMerkleProof
<1>2. ASSUME NEW p \in OraclePanels, SetMultiOracleConfig(e, p)
      PROVE  CoreInv' /\ AllMove /\ NeverInspected'
  BY <1>2, CoreStays DEF SetMultiOracleConfig
<1>3. ASSUME NEW o \in Oracles, NEW met \in BOOLEAN, SubmitOracleAttestation(e, o, met)
      PROVE  CoreInv' /\ AllMove /\ NeverInspected'
  <2>1. Funded(e) /\ UNCHANGED <<outVars, deposited, toBuyer>>
    BY <1>3 DEF SubmitOracleAttestation
  <2>2. \/ ExecuteRelease(e, Remaining(escrow[e]))
        \/ UNCHANGED <<escrow, vault, toSeller>>
    BY <1>3 DEF SubmitOracleAttestation
  <2>3. vault \in Nat
    BY DEF CoreInv, TypeOK
  <2> QED
    BY <2>1, <2>2, <2>3, RemainingIsNat, OtherRelease, BooksStay
<1> QED
  BY <1>1, <1>2, <1>3 DEF ProofStep

LEMMA ControlsBooks ==
  ASSUME CoreInv, NeverInspected, [ControlsNext]_controlsVars
  PROVE  CoreInv' /\ AllMove /\ NeverInspected'
<1>0. TypeOK /\ vault \in Nat
  BY DEF CoreInv, TypeOK
<1>1. CASE UNCHANGED controlsVars
  BY <1>1, CoreStays DEF controlsVars
<1>2. CASE CloseLedger
  <2>1. CoreInv'
    BY <1>2, StepInv DEF CoreNext
  <2> QED
    BY <1>0, <1>2, <2>1, NoneMoves DEF CloseLedger, recordVars
<1>3. ASSUME NEW a \in PoolAmounts, FundPool(a) \/ WithdrawFromPool(a)
      PROVE  CoreInv' /\ AllMove /\ NeverInspected'
  <2>1. a \in Nat
    BY ControlsConstants
  <2> QED
    BY <1>0, <1>3, <2>1, BooksStay DEF FundPool, WithdrawFromPool
<1>4. ASSUME NEW d \in Dates, NEW orders, PublishMerkleRoot(d, orders)
      PROVE  CoreInv' /\ AllMove /\ NeverInspected'
  BY <1>4, CoreStays DEF PublishMerkleRoot
<1>5. ASSUME NEW e \in EscrowIds, SettleFromPool(e)
      PROVE  CoreInv' /\ AllMove /\ NeverInspected'
  BY <1>5, RemainingIsNat, OtherRelease DEF SettleFromPool
<1>6. ASSUME NEW e \in EscrowIds, NEW b \in Bounds, SetSlippageBounds(e, b)
      PROVE  CoreInv' /\ AllMove /\ NeverInspected'
  BY <1>6, CoreStays DEF SetSlippageBounds
<1>7. ASSUME NEW e \in EscrowIds, NEW x \in 1..vault, NEW out, ExecutePathPayment(e, x, out)
      PROVE  CoreInv' /\ AllMove /\ NeverInspected'
  <2>1. x \in Nat
    BY <1>0
  <2> QED
    BY <1>7, <2>1, OtherRelease DEF ExecutePathPayment
<1> QED
  BY <1>1, <1>2, <1>3, <1>4, <1>5, <1>6, <1>7, CoreOperationBooks, DualStepBooks, ProofStepBooks,
     ExtensionKeepsBooks
  DEF ControlsNext, PathStep

-----------------------------------------------------------------------------
(* Which steps touch the approvals. *)

ApprovalStep ==
  \E e \in EscrowIds :
    \/ \E u \in Approvers : SetDualControlConfig(e, u) \/ ApproveRelease(e, u)
    \/ ArchiveWithApproval(e)

LEMMA ApprovalSteps ==
  ASSUME [ControlsNext]_controlsVars
  PROVE  ApprovalStep \/ UNCHANGED <<cosigner, signed>>
<1> USE DEF controlVars, dualVars
<1>1. CASE UNCHANGED controlsVars
  BY <1>1 DEF controlsVars
<1>2. CASE \/ CloseLedger /\ UNCHANGED controlVars
           \/ \E a \in PoolAmounts : FundPool(a) \/ WithdrawFromPool(a)
           \/ \E d \in Dates, orders \in SUBSET EscrowIds : PublishMerkleRoot(d, orders)
  BY <1>2 DEF FundPool, WithdrawFromPool, PublishMerkleRoot
<1>3. ASSUME NEW e \in EscrowIds, DualStep(e)
      PROVE  ApprovalStep \/ UNCHANGED <<cosigner, signed>>
  BY <1>3 DEF ApprovalStep, DualStep, SetDualControlTimeout, HandleDualControlTimeout,
              SetCrossCurrencySwapConfig, ReleaseWithSwap
<1>4. ASSUME NEW e \in EscrowIds, PathStep(e) \/ ProofStep(e)
      PROVE  UNCHANGED <<cosigner, signed>>
  BY <1>4 DEF PathStep, ProofStep, SetSlippageBounds, ExecutePathPayment,
              ReleaseWithMerkleProof, SetMultiOracleConfig, SubmitOracleAttestation
<1>5. ASSUME NEW e \in EscrowIds,
             \/ CoreOperation(e)
             \/ SettleFromPool(e)
             \/ \E v \in Vouchers : ExtendTimeoutWithMutualSignatures(e, v)
      PROVE  UNCHANGED <<cosigner, signed>>
  BY <1>5 DEF CoreOperation, SettleFromPool, ExtendTimeoutWithMutualSignatures
<1> QED
  BY <1>1, <1>2, <1>3, <1>4, <1>5 DEF ControlsNext, ApprovalStep

LEMMA ControlsDual ==
  ASSUME DualInv, [ControlsNext]_controlsVars
  PROVE  DualInv'
<1>1. CASE UNCHANGED <<cosigner, signed>>
  BY <1>1 DEF DualInv
<1>2. ASSUME NEW e \in EscrowIds, NEW u \in Approvers, SetDualControlConfig(e, u)
      PROVE  DualInv'
  <2>1. /\ cosigner' = [cosigner EXCEPT ![e] = [who |-> <<u>>, approved |-> FALSE]]
        /\ UNCHANGED signed
    BY <1>2 DEF SetDualControlConfig
  <2> QED
    BY <2>1 DEF DualInv
<1>3. ASSUME NEW e \in EscrowIds, NEW u \in Approvers, ApproveRelease(e, u)
      PROVE  DualInv'
  <2> DEFINE c == [cosigner[e] EXCEPT !.approved = TRUE]
  <2>1. /\ cosigner' = [cosigner EXCEPT ![e] = c]
        /\ signed' = [signed EXCEPT ![e] = signed[e] \cup {u}]
        /\ cosigner[e].who = <<u>>
    BY <1>3 DEF ApproveRelease
  <2>2. /\ c \in [who : {<<>>} \cup {<<w>> : w \in Approvers}, approved : BOOLEAN]
        /\ c.who = <<u>>
    BY <2>1 DEF DualInv
  <2> HIDE DEF c
  <2>3. /\ \A f \in EscrowIds : cosigner'[f] = IF f = e THEN c ELSE cosigner[f]
        /\ \A f \in EscrowIds : signed'[f] = IF f = e THEN signed[e] \cup {u} ELSE signed[f]
    BY <2>1 DEF DualInv
  <2> QED
    BY <2>1, <2>2, <2>3 DEF DualInv
<1>4. ASSUME NEW e \in EscrowIds, ArchiveWithApproval(e)
      PROVE  DualInv'
  <2>1. /\ cosigner' = [cosigner EXCEPT ![e] = [who |-> <<>>, approved |-> FALSE]]
        /\ UNCHANGED signed
    BY <1>4 DEF ArchiveWithApproval, Nobody
  <2> QED
    BY <2>1 DEF DualInv
<1> QED
  BY <1>1, <1>2, <1>3, <1>4, ApprovalSteps DEF ApprovalStep

-----------------------------------------------------------------------------
(* Which steps touch the panels. *)

PanelStep ==
  \E e \in EscrowIds :
    \/ \E p \in OraclePanels : SetMultiOracleConfig(e, p)
    \/ \E o \in Oracles, met \in BOOLEAN : SubmitOracleAttestation(e, o, met)

LEMMA PanelSteps ==
  ASSUME [ControlsNext]_controlsVars
  PROVE  PanelStep \/ UNCHANGED <<oracles, oracleVotes>>
<1> USE DEF controlVars, proofVars
<1>1. CASE UNCHANGED controlsVars
  BY <1>1 DEF controlsVars
<1>2. CASE \/ CloseLedger /\ UNCHANGED controlVars
           \/ \E a \in PoolAmounts : FundPool(a) \/ WithdrawFromPool(a)
           \/ \E d \in Dates, orders \in SUBSET EscrowIds : PublishMerkleRoot(d, orders)
  BY <1>2 DEF FundPool, WithdrawFromPool, PublishMerkleRoot
<1>3. ASSUME NEW e \in EscrowIds, DualStep(e)
      PROVE  UNCHANGED <<oracles, oracleVotes>>
  BY <1>3 DEF DualStep, SetDualControlConfig, ApproveRelease, SetDualControlTimeout,
              HandleDualControlTimeout, SetCrossCurrencySwapConfig, ReleaseWithSwap
<1>4. ASSUME NEW e \in EscrowIds, PathStep(e) \/ ProofStep(e)
      PROVE  PanelStep \/ UNCHANGED <<oracles, oracleVotes>>
  BY <1>4 DEF PathStep, ProofStep, PanelStep, SetSlippageBounds, ExecutePathPayment,
              ReleaseWithMerkleProof
<1>5. ASSUME NEW e \in EscrowIds,
             \/ CoreOperation(e) \/ ArchiveWithApproval(e)
             \/ SettleFromPool(e)
             \/ \E v \in Vouchers : ExtendTimeoutWithMutualSignatures(e, v)
      PROVE  UNCHANGED <<oracles, oracleVotes>>
  BY <1>5 DEF CoreOperation, ArchiveWithApproval, SettleFromPool,
                ExtendTimeoutWithMutualSignatures
<1> QED
  BY <1>1, <1>2, <1>3, <1>4, <1>5 DEF ControlsNext, PanelStep

(* One more vote, of a member who has not voted, in time. *)
LEMMA CastVote ==
  ASSUME NEW vs \in Seq(OracleVote), NEW v \in OracleVote, NEW members, v.oracle \in members,
         vs # <<>> => VotesOf(vs, members, v.at),
         \A i \in DOMAIN vs : vs[i].oracle # v.oracle
  PROVE  /\ Append(vs, v) \in Seq(OracleVote) /\ Append(vs, v) # <<>>
         /\ VotesOf(Append(vs, v), members, v.at)
         /\ vs # <<>> => Append(vs, v)[1] = vs[1]
         /\ vs = <<>> => Append(vs, v)[1] = v
<1> DEFINE n == Len(vs) + 1
           cast == Append(vs, v)
           o == v.oracle
           now == v.at
<1>1. now \in Nat
  BY DEF OracleVote
<1>2. /\ Len(vs) \in Nat /\ DOMAIN vs = 1..Len(vs)
      /\ cast \in Seq(OracleVote) /\ DOMAIN cast = 1..n /\ cast[n] = v
      /\ \A i \in 1..Len(vs) : cast[i] = vs[i] /\ vs[i] \in OracleVote
  BY AppendProperties, LenProperties, ElementOfSeq
<1> HIDE DEF cast
<1>3. vs # <<>> <=> Len(vs) > 0
  BY <1>2, EmptySeq
<1>4. \A i \in 1..n : i \in 1..Len(vs) \/ i = n
  BY <1>2
<1>5. /\ cast # <<>>
      /\ vs # <<>> => cast[1] = vs[1] /\ 1 \in 1..Len(vs)
      /\ vs = <<>> => cast[1] = v
  <2>1. 1 \in DOMAIN cast
    BY <1>2
  <2>2. vs # <<>> => 1 \in 1..Len(vs)
    BY <1>2, <1>3
  <2>3. vs = <<>> => n = 1
    BY <1>2, <1>3
  <2> QED
    BY <1>2, <2>1, <2>2, <2>3
<1>6. ASSUME NEW i \in 1..n, NEW j \in 1..n, cast[i].oracle = cast[j].oracle
      PROVE  i = j
  BY <1>1, <1>2, <1>3, <1>4, <1>6 DEF VotesOf
<1>7. ASSUME NEW i \in 1..n
      PROVE  cast[i].oracle \in members /\ cast[1].at <= cast[i].at /\ cast[i].at <= now
  <2>1. CASE vs = <<>>
    BY <1>1, <1>2, <1>3, <1>4, <1>5, <2>1
  <2>2. CASE vs # <<>>
    <3>1. vs[1].at <= now /\ \A k \in 1..Len(vs) : vs[k].oracle \in members
                                                /\ vs[1].at <= vs[k].at /\ vs[k].at <= now
      BY <1>2, <1>5, <2>2 DEF VotesOf
    <3> QED
      BY <1>1, <1>2, <1>4, <1>5, <2>2, <3>1
  <2> QED
    BY <2>1, <2>2
<1> QED
  BY <1>1, <1>2, <1>5, <1>6, <1>7 DEF VotesOf, cast

(* What a call of submit_oracle_attestation finds and leaves. *)
LEMMA VoteIsCast ==
  ASSUME PanelInv, ledger \in Nat, NEW e \in EscrowIds, NEW o \in Oracles, NEW met \in BOOLEAN,
         SubmitOracleAttestation(e, o, met)
  PROVE  \E cast : /\ cast = Append(oracleVotes[e], [oracle |-> o, met |-> met, at |-> ledger])
                   /\ cast \in Seq(OracleVote) /\ cast # <<>>
                   /\ VotesOf(cast, oracles[e][1].oracles, ledger)
                   /\ ledger <= cast[1].at + OracleWindow
                   /\ oracleVotes' = [oracleVotes EXCEPT ![e] = cast]
                   /\ UNCHANGED <<ledger, oracles>>
<1>0. PICK cast : cast = Append(oracleVotes[e], [oracle |-> o, met |-> met, at |-> ledger])
  OBVIOUS
<1>1. /\ oracleVotes[e] \in Seq(OracleVote) /\ o \in oracles[e][1].oracles
      /\ oracleVotes[e] # <<>> => VotesOf(oracleVotes[e], oracles[e][1].oracles, ledger)
      /\ \A i \in DOMAIN oracleVotes[e] : oracleVotes[e][i].oracle # o
      /\ oracleVotes[e] # <<>> => ledger <= oracleVotes[e][1].at + OracleWindow
      /\ oracleVotes' = [oracleVotes EXCEPT ![e] = cast]
      /\ UNCHANGED <<ledger, oracles>>
  BY <1>0 DEF PanelInv, SubmitOracleAttestation, outVars
<1>2. /\ cast \in Seq(OracleVote) /\ cast # <<>>
      /\ VotesOf(cast, oracles[e][1].oracles, ledger)
      /\ oracleVotes[e] # <<>> => cast[1] = oracleVotes[e][1]
      /\ oracleVotes[e] = <<>> => cast[1].at = ledger
  <2>0. PICK vs, v, members : /\ vs = oracleVotes[e] /\ members = oracles[e][1].oracles
                              /\ v = [oracle |-> o, met |-> met, at |-> ledger]
    OBVIOUS
  <2>1. v \in OracleVote /\ v.oracle = o /\ v.at = ledger /\ cast = Append(vs, v)
    BY <1>0, <2>0 DEF OracleVote
  <2>2. /\ vs \in Seq(OracleVote) /\ v.oracle \in members
        /\ vs # <<>> => VotesOf(vs, members, v.at)
        /\ \A i \in DOMAIN vs : vs[i].oracle # v.oracle
    BY <1>1, <2>0, <2>1
  <2>3. /\ Append(vs, v) \in Seq(OracleVote) /\ Append(vs, v) # <<>>
        /\ VotesOf(Append(vs, v), members, v.at)
        /\ vs # <<>> => Append(vs, v)[1] = vs[1]
        /\ vs = <<>> => Append(vs, v)[1] = v
    <3>1. v \in OracleVote
      BY <2>1
    <3> QED
      BY <2>2, <3>1, CastVote
  <2> QED
    BY <2>0, <2>1, <2>3
<1>3. ledger <= cast[1].at + OracleWindow
  BY <1>1, <1>2, ControlsConstants
<1> QED
  BY <1>0, <1>1, <1>2, <1>3

LEMMA ControlsPanel ==
  ASSUME PanelInv, ledger \in Nat, ledger' \in Nat, ledger' >= ledger,
         [ControlsNext]_controlsVars
  PROVE  PanelInv'
<1>1. CASE UNCHANGED <<oracles, oracleVotes>>
  <2>1. ASSUME NEW e \in EscrowIds, oracleVotes[e] # <<>>
        PROVE  VotesOf(oracleVotes[e], oracles[e][1].oracles, ledger')
    <3>1. /\ VotesOf(oracleVotes[e], oracles[e][1].oracles, ledger)
          /\ oracleVotes[e] \in Seq(OracleVote)
      BY <2>1 DEF PanelInv
    <3>2. ASSUME NEW i \in DOMAIN oracleVotes[e]
          PROVE  oracleVotes[e][i].at \in Nat
      <4>1. oracleVotes[e][i] \in OracleVote
        BY <3>1, <3>2, ElementOfSeq, LenProperties
      <4> QED
        BY <4>1 DEF OracleVote
    <3> QED
      BY <3>1, <3>2 DEF VotesOf
  <2> QED
    BY <1>1, <2>1 DEF PanelInv
<1>2. ASSUME NEW e \in EscrowIds, NEW p \in OraclePanels, SetMultiOracleConfig(e, p)
      PROVE  PanelInv'
  <2>1. /\ oracles' = [oracles EXCEPT ![e] = <<p>>]
        /\ oracleVotes' = [oracleVotes EXCEPT ![e] = <<>>]
        /\ UNCHANGED ledger
    BY <1>2 DEF SetMultiOracleConfig, coreVars
  <2>2. <<>> \in Seq(OracleVote)
    OBVIOUS
  <2> QED
    BY <2>1, <2>2 DEF PanelInv
<1>3. ASSUME NEW e \in EscrowIds, NEW o \in Oracles, NEW met \in BOOLEAN,
             SubmitOracleAttestation(e, o, met)
      PROVE  PanelInv'
  <2>1. PICK cast : /\ cast = Append(oracleVotes[e], [oracle |-> o, met |-> met, at |-> ledger])
                    /\ cast \in Seq(OracleVote) /\ cast # <<>>
                    /\ VotesOf(cast, oracles[e][1].oracles, ledger)
                    /\ ledger <= cast[1].at + OracleWindow
                    /\ oracleVotes' = [oracleVotes EXCEPT ![e] = cast]
                    /\ UNCHANGED <<ledger, oracles>>
    BY <1>3, VoteIsCast
  <2> QED
    BY <2>1 DEF PanelInv
<1> QED
  BY <1>1, <1>2, <1>3, PanelSteps DEF PanelStep

-----------------------------------------------------------------------------
(* The other settings. *)

LEMMA ControlsSettings ==
  ASSUME SettingTypes, ledger \in Nat, [ControlsNext]_controlsVars, CoreInv
  PROVE  SettingTypes'
<1> USE DEF controlVars, dualVars, poolVars
<1>1. CASE UNCHANGED controlsVars
  BY <1>1 DEF controlsVars, SettingTypes
<1>2. CASE \/ CloseLedger /\ UNCHANGED controlVars
           \/ \E d \in Dates, orders \in SUBSET EscrowIds : PublishMerkleRoot(d, orders)
  BY <1>2 DEF PublishMerkleRoot, SettingTypes
<1>3. ASSUME NEW a \in PoolAmounts, FundPool(a) \/ WithdrawFromPool(a)
      PROVE  SettingTypes'
  BY <1>3, ControlsConstants DEF FundPool, WithdrawFromPool, SettingTypes
<1>4. ASSUME NEW e \in EscrowIds, NEW n \in ApprovalTerms,
             NEW fallback \in {"Refunded", "Disputed"}, SetDualControlTimeout(e, n, fallback)
      PROVE  SettingTypes'
  <2> DEFINE t == [deadline |-> ledger + n, fallback |-> fallback]
  <2>1. t \in [deadline : Nat, fallback : {"Refunded", "Disputed"}]
    BY ControlsConstants
  <2>2. /\ signoff' = [signoff EXCEPT ![e] = <<t>>] /\ UNCHANGED <<pool, slippage, nonce>>
    BY <1>4 DEF SetDualControlTimeout
  <2> HIDE DEF t
  <2>3. <<t>> \in Seq([deadline : Nat, fallback : {"Refunded", "Disputed"}])
    BY <2>1
  <2> QED
    BY <2>2, <2>3 DEF SettingTypes
<1>5. ASSUME NEW e \in EscrowIds, DualStep(e), UNCHANGED signoff
      PROVE  SettingTypes'
  BY <1>5 DEF DualStep, SetDualControlConfig, ApproveRelease, SetDualControlTimeout,
              HandleDualControlTimeout, SetCrossCurrencySwapConfig, ReleaseWithSwap, SettingTypes
<1>6. ASSUME NEW e \in EscrowIds, DualStep(e)
      PROVE  SettingTypes'
  BY <1>4, <1>5, <1>6
  DEF DualStep, SetDualControlConfig, ApproveRelease, HandleDualControlTimeout,
      SetCrossCurrencySwapConfig, ReleaseWithSwap
<1>7. ASSUME NEW e \in EscrowIds, PathStep(e) \/ ProofStep(e)
      PROVE  SettingTypes'
  BY <1>7 DEF PathStep, ProofStep, SetSlippageBounds, ExecutePathPayment, SettingTypes,
              ReleaseWithMerkleProof, SetMultiOracleConfig, SubmitOracleAttestation
<1>8. ASSUME NEW e \in EscrowIds, CoreOperation(e) \/ ArchiveWithApproval(e)
      PROVE  SettingTypes'
  BY <1>8 DEF CoreOperation, ArchiveWithApproval, SettingTypes
<1>9. ASSUME NEW e \in EscrowIds, SettleFromPool(e)
      PROVE  SettingTypes'
  BY <1>9, RemainingIsNat DEF SettleFromPool, SettingTypes
<1>10. ASSUME NEW e \in EscrowIds, NEW v \in Vouchers, ExtendTimeoutWithMutualSignatures(e, v)
       PROVE  SettingTypes'
  BY <1>10, ControlsConstants DEF ExtendTimeoutWithMutualSignatures, SettingTypes
<1> QED
  BY <1>1, <1>2, <1>3, <1>6, <1>7, <1>8, <1>9, <1>10 DEF ControlsNext

-----------------------------------------------------------------------------
(* The invariant is inductive. *)

LEMMA ClockGoesOn ==
  ASSUME CoreInv, [ControlsNext]_controlsVars, CoreInv'
  PROVE  ledger \in Nat /\ ledger' \in Nat /\ ledger' >= ledger
<1>1. ledger \in Nat /\ ledger' \in Nat
  BY DEF CoreInv, TypeOK
<1>2. CASE UNCHANGED controlsVars
  BY <1>1, <1>2 DEF controlsVars, coreVars
<1>3. CASE CloseLedger
  BY <1>1, <1>3 DEF CloseLedger
<1>4. CASE ledger' = ledger
  BY <1>1, <1>4
<1>5. ASSUME NEW e \in EscrowIds, OpenStep(e) \/ PayStep(e) \/ Archive(e)
      PROVE  ledger' = ledger
  BY <1>5 DEF OpenStep, Create, Deposit, CreateMilestoneEscrow, Fund, AcceptOrder, AgreeCancel,
              Cancel, PayStep, PartialRelease, PartialRefund, ReleaseMilestone, Archive
<1>6. ASSUME NEW e \in EscrowIds, DualStep(e) \/ PathStep(e) \/ ProofStep(e)
      PROVE  ledger' = ledger
  BY <1>6 DEF DualStep, SetDualControlConfig, ApproveRelease, SetDualControlTimeout,
              HandleDualControlTimeout, SetCrossCurrencySwapConfig, ReleaseWithSwap, PathStep,
              SetSlippageBounds, ExecutePathPayment, ProofStep, ReleaseWithMerkleProof,
              SetMultiOracleConfig, SubmitOracleAttestation, outVars, coreVars
<1>7. ASSUME NEW e \in EscrowIds,
             \/ SettleFromPool(e)
             \/ \E v \in Vouchers : ExtendTimeoutWithMutualSignatures(e, v)
      PROVE  ledger' = ledger
  BY <1>7 DEF SettleFromPool, ExtendTimeoutWithMutualSignatures, outVars
<1>8. CASE \/ \E a \in PoolAmounts : FundPool(a) \/ WithdrawFromPool(a)
           \/ \E d \in Dates, orders \in SUBSET EscrowIds : PublishMerkleRoot(d, orders)
  BY <1>4, <1>8 DEF FundPool, WithdrawFromPool, PublishMerkleRoot, outVars, coreVars
<1> QED
  BY <1>2, <1>3, <1>4, <1>5, <1>6, <1>7, <1>8 DEF ControlsNext, CoreOperation, ArchiveWithApproval

LEMMA ControlsStepInv == ControlsInv /\ [ControlsNext]_controlsVars => ControlsInv'
<1> SUFFICES ASSUME ControlsInv, [ControlsNext]_controlsVars
             PROVE  ControlsInv'
  OBVIOUS
<1>0. CoreInv /\ NeverInspected /\ DualInv /\ PanelInv /\ SettingTypes
  BY DEF ControlsInv
<1>1. CoreInv' /\ NeverInspected'
  BY <1>0, ControlsBooks
<1>2. ledger \in Nat /\ ledger' \in Nat /\ ledger' >= ledger
  BY <1>0, <1>1, ClockGoesOn
<1> QED
  BY <1>0, <1>1, <1>2, ControlsDual, ControlsPanel, ControlsSettings DEF ControlsInv

(* The inductive invariant of the controls. *)
THEOREM ControlsInvariant == ControlsSpec => []ControlsInv
  BY ControlsInitInv, ControlsStepInv, PTL DEF ControlsSpec

(* Every storage of the controls holds values of its type. *)
THEOREM ControlsTypes == ControlsSpec => []ControlsTypeOK
<1>1. ControlsInv => ControlsTypeOK
  BY DEF ControlsInv, CoreInv, DualInv, PanelInv, SettingTypes, ControlsTypeOK
<1> QED
  BY <1>1, ControlsInvariant, PTL

(* Through every way out the record stays an exact account of the tokens:  *)
(* the invariant of EscrowCore survives the controls.                      *)
THEOREM ControlsKeepTheBooks == ControlsSpec => [](BooksMatchTokens /\ ArchivedIsPaidOut)
<1>1. ControlsInv => BooksMatchTokens /\ ArchivedIsPaidOut
  BY BooksFollow DEF ControlsInv, CoreInv, Accounts, ArchivedIsPaidOut
<1> QED
  BY <1>1, ControlsInvariant, PTL

-----------------------------------------------------------------------------
(* The tokens of the pool: what the contract holds beyond the balances of  *)
(* its orders is the liquidity pool and what the pool advanced in the      *)
(* stead of orders whose own tokens stayed.                                *)

PoolInv ==
  /\ advanced \in [EscrowIds -> Nat]
  /\ Slack = pool + SumFunction(advanced)

(* No payment out of an order's own tokens touches the pool. *)
PoolStays == Slack' = Slack /\ UNCHANGED <<pool, advanced>>

LEMMA CoreOperationPool ==
  ASSUME TypeOK, TypeOK', NEW e \in EscrowIds, CoreOperation(e) \/ ArchiveWithApproval(e)
  PROVE  PoolStays
<1>1. UNCHANGED <<pool, advanced>>
  BY DEF CoreOperation, ArchiveWithApproval, controlVars, poolVars
<1>2. CASE CoreOperation(e)
  BY <1>1, <1>2, OpenStepFlow, PayStepFlow DEF CoreOperation, PoolStays
<1>3. CASE ArchiveWithApproval(e)
  BY <1>1, <1>3, NoFlow DEF ArchiveWithApproval, Archive, PoolStays
<1> QED
  BY <1>1, <1>2, <1>3 DEF PoolStays

LEMMA PoolRelease ==
  ASSUME CoreInv, TypeOK', NEW e \in EscrowIds, Funded(e),
         ExecuteRelease(e, Remaining(escrow[e])), UNCHANGED <<outVars, deposited, toBuyer>>
  PROVE  Slack' = Slack
  BY RemainingIsNat, ReleaseFlow DEF outVars, CoreInv

LEMMA DualStepPool ==
  ASSUME CoreInv, TypeOK', NEW e \in EscrowIds, DualStep(e)
  PROVE  PoolStays
<1>0. TypeOK
  BY DEF CoreInv
<1>1. CASE HandleDualControlTimeout(e)
  <2>1. Funded(e) /\ UNCHANGED <<bounties, deposited, toSeller, pool, advanced>>
    BY <1>1 DEF HandleDualControlTimeout, outVars, controlVars, poolVars
  <2>2. CASE UNCHANGED <<vault, toBuyer>>
    BY <2>1, <2>2, NoFlow DEF PoolStays
  <2>3. CASE /\ vault' = vault - Remaining(escrow[e])
             /\ toBuyer' = [toBuyer EXCEPT ![e] = @ + Remaining(escrow[e])]
    <3> DEFINE x == Remaining(escrow[e])
    <3>1. x \in Int
      BY <2>1, RemainingIsNat
    <3>2. vault' = vault - x /\ toBuyer' = [toBuyer EXCEPT ![e] = @ + x]
      BY <2>3
    <3> HIDE DEF x
    <3>3. Slack' = Slack
      BY <1>0, <2>1, <3>1, <3>2, BuyerFlow
    <3> QED
      BY <2>1, <3>3 DEF PoolStays
  <2> QED
    BY <1>1, <2>2, <2>3 DEF HandleDualControlTimeout
<1>2. CASE ReleaseWithSwap(e)
  BY <1>2, PoolRelease DEF ReleaseWithSwap, PoolStays, poolVars
<1>3. ASSUME UNCHANGED coreVars, UNCHANGED poolVars
      PROVE  PoolStays
  BY <1>3, NoFlow DEF coreVars, poolVars, PoolStays
<1> QED
  BY <1>1, <1>2, <1>3
  DEF DualStep, SetDualControlConfig, ApproveRelease, SetDualControlTimeout,
      SetCrossCurrencySwapConfig

LEMMA ProofStepPool ==
  ASSUME CoreInv, TypeOK', NEW e \in EscrowIds, ProofStep(e)
  PROVE  PoolStays
<1>1. ASSUME NEW d \in Dates, ReleaseWithMerkleProof(e, d)
      PROVE  PoolStays
  BY <1>1, PoolRelease DEF ReleaseWithMerkleProof, PoolStays, controlVars, poolVars
<1>2. ASSUME NEW p \in OraclePanels, SetMultiOracleConfig(e, p)
      PROVE  PoolStays
  BY <1>2, NoFlow DEF SetMultiOracleConfig, coreVars, poolVars, PoolStays
<1>3. ASSUME NEW o \in Oracles, NEW met \in BOOLEAN, SubmitOracleAttestation(e, o, met)
      PROVE  PoolStays
  <2>1. Funded(e) /\ UNCHANGED <<outVars, deposited, toBuyer, pool, advanced>>
    BY <1>3 DEF SubmitOracleAttestation
  <2>2. \/ ExecuteRelease(e, Remaining(escrow[e]))
        \/ UNCHANGED <<escrow, vault, toSeller>>
    BY <1>3 DEF SubmitOracleAttestation
  <2> QED
    BY <2>1, <2>2, PoolRelease, NoFlow DEF PoolStays, outVars
<1> QED
  BY <1>1, <1>2, <1>3 DEF ProofStep

LEMMA AdvancedSum ==
  ASSUME advanced \in [EscrowIds -> Nat]
  PROVE  /\ SumFunction(advanced) = SumFunctionOnSet(advanced, EscrowIds)
         /\ SumFunction(advanced) \in Nat
<1>1. DOMAIN advanced = EscrowIds /\ \A e \in EscrowIds : advanced[e] \in Nat
  OBVIOUS
<1>2. SumFunctionOnSet(advanced, EscrowIds) \in Nat
  BY <1>1, CoreAssumption, SumType
<1> QED
  BY <1>1, <1>2 DEF SumFunction

LEMMA PoolPays ==
  ASSUME CoreInv, TypeOK', PoolInv, SettingTypes, NEW e \in EscrowIds, SettleFromPool(e)
  PROVE  PoolInv'
<1> DEFINE x == Remaining(escrow[e])
<1>1. /\ x \in Nat /\ Funded(e) /\ ExecuteRelease(e, x) /\ pool' = pool - x
      /\ advanced' = [advanced EXCEPT ![e] = @ + x]
      /\ UNCHANGED <<outVars, deposited, toBuyer>>
  BY RemainingIsNat DEF SettleFromPool
<1>2. Slack' = Slack
  BY <1>1, PoolRelease
<1> HIDE DEF x
<1>3. advanced' \in [EscrowIds -> Nat]
  BY <1>1 DEF PoolInv
<1>4. SumFunction(advanced)' = SumFunctionOnSet(advanced', EscrowIds)
  BY <1>3 DEF SumFunction
<1>5. /\ IsFiniteSet(EscrowIds)
      /\ \A f \in EscrowIds : advanced[f] \in Int /\ advanced'[f] \in Int
      /\ \A f \in EscrowIds \ {e} : advanced[f] = advanced'[f]
      /\ advanced'[e] = advanced[e] + x /\ advanced[e] \in Int
  BY <1>1, <1>3, CoreAssumption DEF PoolInv
<1>6. SumFunctionOnSet(advanced', EscrowIds)
        = SumFunctionOnSet(advanced, EscrowIds) + advanced'[e] - advanced[e]
  <2> DEFINE h == advanced'
  <2>1. /\ \A f \in EscrowIds : advanced[f] \in Int /\ h[f] \in Int
        /\ \A f \in EscrowIds \ {e} : advanced[f] = h[f]
        /\ IsFiniteSet(EscrowIds)
    BY <1>5
  <2> HIDE DEF h, x
  <2>2. SumFunctionOnSet(h, EscrowIds) = SumFunctionOnSet(advanced, EscrowIds) + h[e] - advanced[e]
    BY ONLY <2>1, SumChange
  <2> QED
    BY <2>2 DEF h
<1>7. pool \in Nat /\ SumFunction(advanced) \in Nat
      /\ SumFunction(advanced) = SumFunctionOnSet(advanced, EscrowIds)
      /\ Slack = pool + SumFunction(advanced)
  BY AdvancedSum DEF PoolInv, SettingTypes
<1>8. Slack' = pool' + SumFunction(advanced)'
  BY <1>1, <1>2, <1>4, <1>5, <1>6, <1>7
<1> QED
  BY <1>3, <1>8 DEF PoolInv

LEMMA ControlsPool == ControlsInv /\ PoolInv /\ [ControlsNext]_controlsVars => PoolInv'
<1> SUFFICES ASSUME ControlsInv, PoolInv, [ControlsNext]_controlsVars
             PROVE  PoolInv'
  OBVIOUS
<1>0. CoreInv /\ TypeOK /\ TypeOK' /\ SettingTypes
  BY ControlsStepInv DEF ControlsInv, CoreInv
<1>s. ASSUME PoolStays
      PROVE  PoolInv'
  BY <1>s DEF PoolStays, PoolInv
<1>1. CASE UNCHANGED controlsVars
  BY <1>1, <1>s, NoFlow DEF controlsVars, controlVars, poolVars, coreVars, PoolStays
<1>2. CASE CloseLedger /\ UNCHANGED controlVars
  BY <1>2, <1>s, NoFlow DEF CloseLedger, controlVars, poolVars, PoolStays
<1>3. ASSUME NEW a \in PoolAmounts, FundPool(a) \/ WithdrawFromPool(a)
      PROVE  PoolInv'
  <2>0. /\ a \in Nat /\ pool \in Nat /\ SumFunction(advanced) \in Nat
        /\ UNCHANGED <<bounties, deposited, toSeller, toBuyer, advanced>>
    BY <1>0, <1>3, ControlsConstants, AdvancedSum
    DEF FundPool, WithdrawFromPool, outVars, SettingTypes, PoolInv
  <2>1. CASE pool' = pool + a /\ vault' = vault + a
    <3>1. Slack' = Slack + a
      BY <1>0, <2>0, <2>1, SideFlow
    <3> QED
      BY <2>0, <2>1, <3>1 DEF PoolInv
  <2>2. CASE pool' = pool - a /\ vault' = vault - a
    <3>1. vault' = vault + (-a) /\ -a \in Int
      BY <1>0, <2>0, <2>2 DEF TypeOK
    <3>2. Slack' = Slack + (-a)
      BY <1>0, <2>0, <3>1, SideFlow
    <3> QED
      BY <2>0, <2>2, <3>2 DEF PoolInv
  <2> QED
    BY <1>3, <2>1, <2>2 DEF FundPool, WithdrawFromPool
<1>4. ASSUME NEW d \in Dates, NEW orders, PublishMerkleRoot(d, orders)
      PROVE  PoolInv'
  BY <1>4, <1>s, NoFlow DEF PublishMerkleRoot, coreVars, poolVars, PoolStays
<1>5. ASSUME NEW e \in EscrowIds, CoreOperation(e) \/ ArchiveWithApproval(e) \/ DualStep(e)
                                  \/ ProofStep(e)
      PROVE  PoolInv'
  BY <1>0, <1>5, <1>s, CoreOperationPool, DualStepPool, ProofStepPool
<1>6. ASSUME NEW e \in EscrowIds, SettleFromPool(e)
      PROVE  PoolInv'
  BY <1>0, <1>6, PoolPays
<1>7. ASSUME NEW e \in EscrowIds, PathStep(e)
      PROVE  PoolInv'
  <2>1. ASSUME NEW b \in Bounds, SetSlippageBounds(e, b)
        PROVE  PoolStays
    BY <2>1, NoFlow DEF SetSlippageBounds, coreVars, poolVars, PoolStays
  <2>2. ASSUME NEW x \in 1..vault, NEW out \in Outputs, ExecutePathPayment(e, x, out)
        PROVE  PoolStays
    <3>1. x \in Int
      BY <1>0 DEF TypeOK
    <3> QED
      BY <1>0, <2>2, <3>1, ReleaseFlow
      DEF ExecutePathPayment, outVars, PoolStays
  <2> QED
    BY <1>7, <1>s, <2>1, <2>2 DEF PathStep
<1>8. ASSUME NEW e \in EscrowIds, NEW v \in Vouchers, ExtendTimeoutWithMutualSignatures(e, v)
      PROVE  PoolInv'
  BY <1>8, <1>s, NoFlow DEF ExtendTimeoutWithMutualSignatures, outVars, poolVars, PoolStays
<1> QED
  BY <1>1, <1>2, <1>3, <1>4, <1>5, <1>6, <1>7, <1>8 DEF ControlsNext

(* The one balance of the contract pays neither the pool from orders nor   *)
(* orders from the pool: what settle_from_pool leaves behind is all that   *)
(* is over, on whichever ways out the orders take.                         *)
THEOREM ControlsPoolIsBacked == ControlsSpec => []PoolIsBacked
<1>1. ControlsInit => PoolInv
  <2> SUFFICES ASSUME ControlsInit
               PROVE  PoolInv
    OBVIOUS
  <2>1. \A e \in EscrowIds : HeldOf[e] = 0
    BY DEF ControlsInit, CoreInit, HeldOf, Held
  <2>2. SumFunction(HeldOf) = 0
    BY <2>1, SumOfZeros, InitType, HeldTypes DEF ControlsInit
  <2>3. advanced \in [EscrowIds -> Nat] /\ \A e \in EscrowIds : advanced[e] = 0
    BY DEF ControlsInit
  <2>4. SumFunction(advanced) = 0
    BY <2>3, SumOfZeros, AdvancedSum, CoreAssumption
  <2> QED
    BY <2>2, <2>3, <2>4 DEF ControlsInit, CoreInit, Slack, PoolInv
<1>2. ControlsInv /\ PoolInv => PoolIsBacked
  <2> SUFFICES ASSUME ControlsInv, PoolInv
               PROVE  vault + bounties = pool + SumFunction(advanced) + SumFunction(HeldOf)
    BY OwedIsHeld DEF PoolIsBacked, ControlsInv
  <2>1. /\ SumFunction(HeldOf) \in Int /\ vault \in Nat /\ bounties \in Nat
        /\ pool \in Nat /\ SumFunction(advanced) \in Nat
    BY HeldTypes, AdvancedSum DEF ControlsInv, CoreInv, TypeOK, SettingTypes, PoolInv
  <2> QED
    BY <2>1 DEF Slack, PoolInv
<1> QED
  BY <1>1, <1>2, ControlsPool, ControlsInvariant, PTL DEF ControlsSpec

-----------------------------------------------------------------------------
(* Milestones: what the lemmas of the core say of one order, with "aside"  *)
(* for what was paid beside its schedule.                                  *)

MilestoneInv ==
  /\ aside \in [EscrowIds -> Nat]
  /\ \A e \in EscrowIds : Schedule(escrow[e], milestones[e], aside[e])

(* A step that pays the seller nothing, or not of an order with a schedule.*)
LEMMA ScheduleApart ==
  ASSUME TypeOK, MilestoneInv, UNCHANGED <<milestones, aside>>, NEW e \in EscrowIds,
         \A f \in EscrowIds \ {e} : escrow'[f] = escrow[f],
         \/ milestones[e] = <<>> /\ escrow'[e].status # "Unused"
         \/ escrow'[e].status = "Archived"
         \/ /\ escrow'[e].released = escrow[e].released
            /\ escrow[e].status \in Statuses /\ escrow'[e].status \in Statuses
  PROVE  MilestoneInv'
<1>1. ASSUME NEW f \in EscrowIds
      PROVE  Schedule(escrow'[f], milestones'[f], aside'[f])
  <2>1. Schedule(escrow[f], milestones[f], aside[f]) /\ aside[f] \in Nat
    BY DEF MilestoneInv
  <2>2. Schedule(escrow'[f], milestones'[f], aside[f])
    BY <2>1, ScheduleKept
  <2> QED
    BY <2>2
<1> QED
  BY <1>1 DEF MilestoneInv

LEMMA SchedulesStay ==
  ASSUME MilestoneInv, UNCHANGED <<escrow, milestones, aside>>
  PROVE  MilestoneInv'
  BY DEF MilestoneInv

(* The ways that ask ensure_not_milestone_escrow. *)
LEMMA PlainRelease ==
  ASSUME CoreInv, MilestoneInv, UNCHANGED <<milestones, aside>>, NEW e \in EscrowIds,
         Funded(e), ~IsMilestoneEscrow(e), ExecuteRelease(e, Remaining(escrow[e]))
  PROVE  MilestoneInv'
<1>1. TypeOK /\ escrow[e].status = "Funded" /\ Remaining(escrow[e]) \in Nat
  BY RemainingIsNat DEF CoreInv, Funded
<1>2. /\ escrow'[e].status \in {"Released", "Funded"}
      /\ \A f \in EscrowIds \ {e} : escrow'[f] = escrow[f]
  BY <1>1, ReleaseEffect
<1> QED
  BY <1>1, <1>2, ScheduleApart DEF IsMilestoneEscrow

(* The ways that do not. *)
LEMMA PaidBeside ==
  ASSUME TypeOK, MilestoneInv, UNCHANGED milestones, NEW e \in EscrowIds, NEW x \in Nat,
         Funded(e), ExecuteRelease(e, x), aside' = [aside EXCEPT ![e] = @ + x]
  PROVE  MilestoneInv'
<1>1. /\ escrow'[e].released = escrow[e].released + x
      /\ escrow'[e].status \in {"Released", "Funded"}
      /\ \A f \in EscrowIds \ {e} : escrow'[f] = escrow[f]
  BY ReleaseEffect DEF Funded
<1>2. /\ aside' \in [EscrowIds -> Nat] /\ aside'[e] = aside[e] + x
      /\ \A f \in EscrowIds \ {e} : aside'[f] = aside[f]
  BY DEF MilestoneInv
<1>3. Schedule(escrow'[e], milestones'[e], aside'[e])
  <2>1. /\ Schedule(escrow[e], milestones[e], aside[e]) /\ escrow[e].status = "Funded"
        /\ escrow[e].released \in Nat /\ aside[e] \in Nat
    BY FieldTypes DEF MilestoneInv, Funded
  <2>2. CASE milestones[e] = <<>>
    BY <1>1, <2>2 DEF Schedule
  <2>3. CASE milestones[e] # <<>>
    <3>1. escrow[e].released = Earned(milestones[e]) + aside[e]
      BY <2>1, <2>3 DEF Schedule, Statuses
    <3>2. Earned(milestones[e]) \in Int
      BY EarnedType DEF TypeOK
    <3>3. escrow'[e].released = Earned(milestones[e]) + aside'[e]
      BY <1>1, <1>2, <2>1, <3>1, <3>2
    <3> QED
      BY <1>1, <3>3 DEF Schedule
  <2> QED
    BY <2>2, <2>3
<1> QED
  BY <1>1, <1>2, <1>3 DEF MilestoneInv

LEMMA CoreOperationSchedules ==
  ASSUME CoreInv, MilestoneInv, NEW e \in EscrowIds, CoreOperation(e) \/ ArchiveWithApproval(e)
  PROVE  MilestoneInv'
<1>0. TypeOK /\ UNCHANGED aside
  BY DEF CoreInv, CoreOperation, ArchiveWithApproval, controlVars, poolVars
<1>1. CASE CoreOperation(e)
  <2>1. Schedule(escrow[e], milestones[e], aside[e]) /\ aside[e] \in Nat
    BY DEF MilestoneInv
  <2>2. Schedule(escrow'[e], milestones'[e], aside[e])
    BY <1>0, <1>1, <2>1, OpenStepSchedules, PayStepSchedules DEF CoreOperation
  <2>3. ASSUME NEW f \in EscrowIds \ {e}
        PROVE  Schedule(escrow'[f], milestones'[f], aside[f])
    <3>1. escrow'[f] = escrow[f] /\ milestones'[f] = milestones[f]
      BY <1>0, <1>1, OpenMoves, PayMoves, OtherSchedules DEF CoreOperation, Same
    <3> QED
      BY <3>1 DEF MilestoneInv
  <2> QED
    BY <1>0, <2>2, <2>3 DEF MilestoneInv
<1>2. CASE ArchiveWithApproval(e)
  <2>1. /\ escrow'[e] = Blank("Archived") /\ UNCHANGED milestones
        /\ \A f \in EscrowIds \ {e} : escrow'[f] = escrow[f]
    BY <1>0, <1>2 DEF ArchiveWithApproval, Archive, TypeOK
  <2>2. escrow'[e].status = "Archived"
    BY <2>1 DEF Blank
  <2> QED
    BY <1>0, <2>1, <2>2, ScheduleApart
<1> QED
  BY <1>1, <1>2

(* A record written back with what it has released as it was. *)
LEMMA RewrittenSchedule ==
  ASSUME TypeOK, MilestoneInv, UNCHANGED <<milestones, aside>>, NEW e \in EscrowIds,
         NEW record \in EscrowRecord, Store(e, record), Funded(e),
         record.released = escrow[e].released, record.status \in Statuses
  PROVE  MilestoneInv'
<1>1. /\ escrow'[e] = [record EXCEPT !.updated = ledger]
      /\ \A f \in EscrowIds \ {e} : escrow'[f] = escrow[f]
  BY StoreEffect
<1>2. escrow'[e].released = escrow[e].released /\ escrow'[e].status \in Statuses
  BY <1>1 DEF EscrowRecord
<1> QED
  BY <1>1, <1>2, ScheduleApart DEF Funded, Statuses

LEMMA DualStepSchedules ==
  ASSUME CoreInv, MilestoneInv, NEW e \in EscrowIds, DualStep(e)
  PROVE  MilestoneInv'
<1>0. TypeOK
  BY DEF CoreInv
<1>1. CASE HandleDualControlTimeout(e)
  <2>0. Funded(e) /\ UNCHANGED <<milestones, aside>>
    BY <1>1 DEF HandleDualControlTimeout, outVars, controlVars, poolVars
  <2>1. CASE Store(e, [escrow[e] EXCEPT !.refunded = @ + Remaining(escrow[e]),
                                        !.status = "Refunded"])
    <3> DEFINE refunded == escrow[e].refunded + Remaining(escrow[e])
               record == [escrow[e] EXCEPT !.refunded = refunded, !.status = "Refunded"]
    <3>1. refunded \in Nat /\ Store(e, record)
      BY <1>0, <2>0, <2>1, RemainingIsNat, FieldTypes
    <3> HIDE DEF refunded
    <3>2. record \in EscrowRecord
      BY <1>0, <3>1, OrderTypes, RecordUpdates DEF Statuses
    <3>3. record.released = escrow[e].released /\ record.status = "Refunded"
      BY <1>0, OrderTypes DEF EscrowRecord
    <3> HIDE DEF record
    <3> QED
      BY <1>0, <2>0, <3>1, <3>2, <3>3, RewrittenSchedule DEF Statuses
  <2>2. CASE Store(e, [escrow[e] EXCEPT !.status = "Disputed"])
    <3> DEFINE record == [escrow[e] EXCEPT !.status = "Disputed"]
    <3>1. record \in EscrowRecord /\ Store(e, record)
      BY <1>0, <2>2, OrderTypes, RecordUpdates DEF Statuses
    <3>2. record.released = escrow[e].released /\ record.status = "Disputed"
      BY <1>0, OrderTypes DEF EscrowRecord
    <3> HIDE DEF record
    <3> QED
      BY <1>0, <2>0, <3>1, <3>2, RewrittenSchedule DEF Statuses
  <2> QED
    BY <1>1, <2>1, <2>2 DEF HandleDualControlTimeout
<1>2. CASE ReleaseWithSwap(e)
  BY <1>2, PlainRelease DEF ReleaseWithSwap, outVars, poolVars
<1>3. ASSUME UNCHANGED coreVars, UNCHANGED poolVars
      PROVE  MilestoneInv'
  BY <1>3, SchedulesStay DEF coreVars, recordVars, poolVars
<1> QED
  BY <1>1, <1>2, <1>3
  DEF DualStep, SetDualControlConfig, ApproveRelease, SetDualControlTimeout,
      SetCrossCurrencySwapConfig

LEMMA ProofStepSchedules ==
  ASSUME CoreInv, MilestoneInv, NEW e \in EscrowIds, ProofStep(e)
  PROVE  MilestoneInv'
<1>1. ASSUME NEW d \in Dates, ReleaseWithMerkleProof(e, d)
      PROVE  MilestoneInv'
  BY <1>1, PlainRelease DEF ReleaseWithMerkleProof, outVars, controlVars, poolVars
<1>2. ASSUME NEW p \in OraclePanels, SetMultiOracleConfig(e, p)
      PROVE  MilestoneInv'
  BY <1>2, SchedulesStay DEF SetMultiOracleConfig, coreVars, recordVars, poolVars
<1>3. ASSUME NEW o \in Oracles, NEW met \in BOOLEAN, SubmitOracleAttestation(e, o, met)
      PROVE  MilestoneInv'
  <2> DEFINE x == Remaining(escrow[e])
  <2>1. Funded(e) /\ UNCHANGED milestones
    BY <1>3 DEF SubmitOracleAttestation, outVars
  <2>2. CASE ExecuteRelease(e, x) /\ aside' = [aside EXCEPT ![e] = @ + x]
    <3>1. x \in Nat /\ TypeOK
      BY <2>1, RemainingIsNat DEF CoreInv
    <3> HIDE DEF x
    <3> QED
      BY <2>1, <2>2, <3>1, PaidBeside
  <2>3. CASE UNCHANGED <<escrow, aside>>
    BY <2>1, <2>3, SchedulesStay
  <2> QED
    BY <1>3, <2>2, <2>3 DEF SubmitOracleAttestation
<1> QED
  BY <1>1, <1>2, <1>3 DEF ProofStep

LEMMA ControlsSchedules == ControlsInv /\ MilestoneInv /\ [ControlsNext]_controlsVars => MilestoneInv'
<1> SUFFICES ASSUME ControlsInv, MilestoneInv, [ControlsNext]_controlsVars
             PROVE  MilestoneInv'
  OBVIOUS
<1>0. CoreInv /\ TypeOK
  BY DEF ControlsInv, CoreInv
<1>1. CASE UNCHANGED controlsVars
  BY <1>1, SchedulesStay DEF controlsVars, controlVars, poolVars, coreVars, recordVars
<1>2. CASE CloseLedger /\ UNCHANGED controlVars
  BY <1>2, SchedulesStay DEF CloseLedger, recordVars, controlVars, poolVars
<1>3. ASSUME NEW a \in PoolAmounts, FundPool(a) \/ WithdrawFromPool(a)
      PROVE  MilestoneInv'
  BY <1>3, SchedulesStay DEF FundPool, WithdrawFromPool, outVars
<1>4. ASSUME NEW d \in Dates, NEW orders, PublishMerkleRoot(d, orders)
      PROVE  MilestoneInv'
  BY <1>4, SchedulesStay DEF PublishMerkleRoot, coreVars, recordVars, poolVars
<1>5. ASSUME NEW e \in EscrowIds, SettleFromPool(e)
      PROVE  MilestoneInv'
  <2> DEFINE x == Remaining(escrow[e])
  <2>1. /\ Funded(e) /\ ExecuteRelease(e, x) /\ UNCHANGED milestones
        /\ aside' = [aside EXCEPT ![e] = @ + x]
    BY <1>5 DEF SettleFromPool, outVars
  <2>2. x \in Nat
    BY <1>0, <2>1, RemainingIsNat
  <2> HIDE DEF x
  <2> QED
    BY <1>0, <2>1, <2>2, PaidBeside
<1>6. ASSUME NEW e \in EscrowIds, NEW b \in Bounds, SetSlippageBounds(e, b)
      PROVE  MilestoneInv'
  BY <1>6, SchedulesStay DEF SetSlippageBounds, coreVars, recordVars, poolVars
<1>7. ASSUME NEW e \in EscrowIds, NEW x \in 1..vault, NEW out, ExecutePathPayment(e, x, out)
      PROVE  MilestoneInv'
  <2>1. x \in Nat
    BY <1>0 DEF TypeOK
  <2> QED
    BY <1>0, <1>7, <2>1, PaidBeside DEF ExecutePathPayment, outVars
<1>8. ASSUME NEW e \in EscrowIds, NEW v \in Vouchers, ExtendTimeoutWithMutualSignatures(e, v)
      PROVE  MilestoneInv'
  <2> DEFINE record == [escrow[e] EXCEPT !.timeout = v.deadline]
  <2>1. Funded(e) /\ Store(e, record) /\ UNCHANGED <<milestones, aside>> /\ v.deadline \in Nat
    BY <1>8, ControlsConstants DEF ExtendTimeoutWithMutualSignatures, outVars, poolVars
  <2>2. record \in EscrowRecord
    BY <1>0, <2>1, OrderTypes, FieldTypes, RecordUpdates
  <2>3. record.released = escrow[e].released /\ record.status = "Funded"
    BY <1>0, <2>1, OrderTypes DEF EscrowRecord, Funded
  <2> HIDE DEF record
  <2> QED
    BY <1>0, <2>1, <2>2, <2>3, RewrittenSchedule DEF Statuses
<1> QED
  BY <1>0, <1>1, <1>2, <1>3, <1>4, <1>5, <1>6, <1>7, <1>8, CoreOperationSchedules,
     DualStepSchedules, ProofStepSchedules
  DEF ControlsNext, PathStep

(* An order with a schedule has released what its milestones marked done   *)
(* amount to and what the three ways that do not look at them paid.        *)
THEOREM ControlsMilestonesMatchReleases == ControlsSpec => []MilestonesMatchReleases
<1>1. ControlsInit => MilestoneInv
  <2> SUFFICES ASSUME ControlsInit
               PROVE  MilestoneInv
    OBVIOUS
  <2>1. aside = [e \in EscrowIds |-> 0] /\ \A e \in EscrowIds : milestones[e] = <<>>
    BY DEF ControlsInit, CoreInit
  <2> QED
    BY <2>1 DEF MilestoneInv, Schedule
<1>2. MilestoneInv => MilestonesMatchReleases
  BY DEF MilestoneInv, Schedule, MilestonesMatchReleases, HasRecord, IsMilestoneEscrow
<1> QED
  BY <1>1, <1>2, ControlsSchedules, ControlsInvariant, PTL DEF ControlsSpec

-----------------------------------------------------------------------------
(* The action properties. *)

(* A large order leaves by a swap only with the approval of the approver   *)
(* who is named that day (set_dual_control_config voids the one before).   *)
THEOREM ControlsSwapNeedsItsCosigner == ControlsSpec => SwapNeedsItsCosigner
<1> DEFINE Ok == \A e \in EscrowIds : e \in swapped' \ swapped /\ Large(e) =>
                   \E u \in signed[e] : cosigner[e].who = <<u>>
<1>1. ASSUME ControlsInv, [ControlsNext]_controlsVars
      PROVE  [Ok]_controlsVars
  <2> SUFFICES ASSUME NEW e \in EscrowIds, e \in swapped' \ swapped, Large(e)
               PROVE  \E u \in signed[e] : cosigner[e].who = <<u>>
    OBVIOUS
  <2> USE DEF controlVars, dualVars
  <2>1. ASSUME NEW f \in EscrowIds, ReleaseWithSwap(f)
        PROVE  \E u \in signed[e] : cosigner[e].who = <<u>>
    <3>1. f = e
      BY <2>1 DEF ReleaseWithSwap
    <3>2. cosigner[e].approved
      BY <2>1, <3>1 DEF ReleaseWithSwap
    <3> QED
      BY <1>1, <3>2 DEF ControlsInv, DualInv
  <2>2. ASSUME NEW f \in EscrowIds, DualStep(f)
        PROVE  ReleaseWithSwap(f) \/ UNCHANGED swapped
    BY <2>2 DEF DualStep, SetDualControlConfig, ApproveRelease, SetDualControlTimeout,
                HandleDualControlTimeout, SetCrossCurrencySwapConfig
  <2>3. ASSUME NEW f \in EscrowIds, PathStep(f) \/ ProofStep(f)
        PROVE  UNCHANGED swapped
    BY <2>3 DEF PathStep, ProofStep, SetSlippageBounds, ExecutePathPayment,
                ReleaseWithMerkleProof, SetMultiOracleConfig, SubmitOracleAttestation
  <2>4. ASSUME NEW f \in EscrowIds,
               \/ CoreOperation(f) \/ ArchiveWithApproval(f) \/ SettleFromPool(f)
               \/ \E v \in Vouchers : ExtendTimeoutWithMutualSignatures(f, v)
        PROVE  UNCHANGED swapped
    BY <2>4 DEF CoreOperation, ArchiveWithApproval, SettleFromPool,
                ExtendTimeoutWithMutualSignatures
  <2>5. CASE \/ CloseLedger /\ UNCHANGED controlVars
             \/ \E a \in PoolAmounts : FundPool(a) \/ WithdrawFromPool(a)
             \/ \E d \in Dates, orders \in SUBSET EscrowIds : PublishMerkleRoot(d, orders)
             \/ UNCHANGED controlsVars
    BY <2>5 DEF FundPool, WithdrawFromPool, PublishMerkleRoot, controlsVars
  <2> QED
    BY <1>1, <2>1, <2>2, <2>3, <2>4, <2>5 DEF ControlsNext
<1> QED
  BY <1>1, ControlsInvariant, PTL DEF ControlsSpec, SwapNeedsItsCosigner

(* Distinct members stand behind a set of votes, as many as there are.     *)
LEMMA VotersCounted ==
  ASSUME NEW vs \in Seq(OracleVote), NEW members, IsFiniteSet(members), NEW now,
         VotesOf(vs, members, now), NEW S \in SUBSET DOMAIN vs,
         NEW by, by = {vs[i].oracle : i \in S}
  PROVE  /\ by \subseteq members /\ Cardinality(S) <= Cardinality(by)
         /\ Cardinality(S) \in Nat /\ Cardinality(by) \in Nat
<1> DEFINE f == [i \in S |-> vs[i].oracle]
<1>1. by \subseteq members /\ IsFiniteSet(by)
  BY FS_Subset DEF VotesOf
<1>2. f \in Injection(S, by)
  BY DEF VotesOf, Injection, IsInjective
<1>3. Cardinality(S) <= Cardinality(by) /\ IsFiniteSet(S)
  BY <1>1, <1>2, FS_Injection
<1> QED
  BY <1>1, <1>3, FS_CardinalityType

(* A panel pays only what enough members of today's panel attested, each   *)
(* once, within one window (submit_oracle_attestation; the votes of the    *)
(* panel before are dropped by set_multi_oracle_config).                   *)
THEOREM ControlsConsensusIsFresh == ControlsSpec => ConsensusIsFresh
<1> DEFINE Counted(cast) == {j \in DOMAIN cast : /\ cast[j].met
                                                /\ ledger - cast[j].at <= OracleWindow}
           By(e) == {oracleVotes'[e][i].oracle : i \in Counted(oracleVotes'[e])}
           Ok == \A e \in EscrowIds :
                   Len(oracleVotes'[e]) > Len(oracleVotes[e]) /\ escrow'[e].released > escrow[e].released =>
                     LET cast == oracleVotes'[e]
                         by == {cast[i].oracle : i \in
                                  {j \in DOMAIN cast : cast[j].met /\ ledger - cast[j].at <= OracleWindow}}
                     IN  Cardinality(by \cap oracles[e][1].oracles) >= oracles[e][1].required
<1>1. ASSUME ControlsInv, [ControlsNext]_controlsVars
      PROVE  [Ok]_controlsVars
  <2> SUFFICES ASSUME NEW e \in EscrowIds, Len(oracleVotes'[e]) > Len(oracleVotes[e]),
                      escrow'[e].released > escrow[e].released
               PROVE  Cardinality(By(e) \cap oracles[e][1].oracles) >= oracles[e][1].required
    OBVIOUS
  <2>0. /\ PanelInv /\ TypeOK /\ ledger \in Nat
        /\ Len(oracleVotes[e]) \in Nat /\ escrow[e].released \in Nat
    BY <1>1, FieldTypes, LenProperties DEF ControlsInv, CoreInv, TypeOK, PanelInv
  <2>1. ASSUME NEW f \in EscrowIds, NEW p \in OraclePanels, SetMultiOracleConfig(f, p)
        PROVE  FALSE
    <3>1. oracleVotes'[e] = <<>> \/ oracleVotes'[e] = oracleVotes[e]
      BY <2>0, <2>1 DEF SetMultiOracleConfig, PanelInv
    <3> QED
      BY <2>0, <3>1
  <2>2. PICK o \in Oracles, met \in BOOLEAN : SubmitOracleAttestation(e, o, met)
    <3>1. ASSUME NEW f \in EscrowIds, NEW o \in Oracles, NEW met \in BOOLEAN,
                 SubmitOracleAttestation(f, o, met)
          PROVE  f = e
      BY <2>0, <3>1 DEF SubmitOracleAttestation, PanelInv
    <3>2. ~UNCHANGED oracleVotes
      BY <2>0
    <3> QED
      BY <1>1, <2>1, <3>1, <3>2, PanelSteps DEF PanelStep
  <2>3. PICK cast : /\ cast = Append(oracleVotes[e], [oracle |-> o, met |-> met, at |-> ledger])
                    /\ cast \in Seq(OracleVote) /\ cast # <<>>
                    /\ VotesOf(cast, oracles[e][1].oracles, ledger)
                    /\ ledger <= cast[1].at + OracleWindow
                    /\ oracleVotes' = [oracleVotes EXCEPT ![e] = cast]
                    /\ UNCHANGED <<ledger, oracles>>
    BY <2>0, <2>2, VoteIsCast
  <2>4. Reached(e, cast) /\ oracles[e] # <<>>
    BY <2>0, <2>2, <2>3 DEF SubmitOracleAttestation
  <2>5. oracleVotes'[e] = cast
    BY <2>0, <2>3 DEF PanelInv
  <2>6. ASSUME NEW j \in DOMAIN cast
        PROVE  ledger - cast[j].at <= OracleWindow
    <3>1. cast[1].at <= cast[j].at /\ cast[j] \in OracleVote /\ cast[1] \in OracleVote
      <4>1. 1 \in DOMAIN cast
        BY <2>3, <2>6, EmptySeq, LenProperties
      <4> QED
        BY <2>3, <4>1, ElementOfSeq, LenProperties DEF VotesOf
    <3>2. cast[1].at \in Nat /\ cast[j].at \in Nat
      BY <3>1 DEF OracleVote
    <3> QED
      BY <2>0, <2>3, <3>1, <3>2, ControlsConstants
  <2>7. PICK by : by = By(e) /\ by = {cast[i].oracle : i \in Affirmative(cast)}
    <3>1. {j \in DOMAIN cast : cast[j].met /\ ledger - cast[j].at <= OracleWindow}
          = Affirmative(cast)
      BY <2>6 DEF Affirmative
    <3> QED
      BY <2>5, <3>1
  <2> HIDE DEF By
  <2>8. /\ IsFiniteSet(oracles[e][1].oracles) /\ oracles[e][1].required \in Nat
    <3>1. oracles[e][1] \in OraclePanels
      BY <2>0, <2>4 DEF PanelInv
    <3>2. oracles[e][1].required \in 1..Cardinality(oracles[e][1].oracles)
      BY <3>1, ControlsAssumption
    <3>3. IsFiniteSet(oracles[e][1].oracles)
      BY <3>1, ControlsConstants
    <3> QED
      BY <3>2, <3>3, FS_CardinalityType
  <2>9. Affirmative(cast) \in SUBSET DOMAIN cast
    BY DEF Affirmative
  <2>10. /\ by \subseteq oracles[e][1].oracles
         /\ Cardinality(Affirmative(cast)) <= Cardinality(by)
         /\ Cardinality(Affirmative(cast)) \in Nat /\ Cardinality(by) \in Nat
    <3>1. PICK S, members : S = Affirmative(cast) /\ members = oracles[e][1].oracles
      OBVIOUS
    <3>2. by = {cast[i].oracle : i \in S}
      BY <2>7, <3>1
    <3>3. IsFiniteSet(members) /\ VotesOf(cast, members, ledger) /\ S \in SUBSET DOMAIN cast
      BY <2>3, <2>8, <2>9, <3>1
    <3>4. /\ by \subseteq members /\ Cardinality(S) <= Cardinality(by)
          /\ Cardinality(S) \in Nat /\ Cardinality(by) \in Nat
      BY <2>3, <3>2, <3>3, VotersCounted
    <3> QED
      BY <3>1, <3>4
  <2>11. By(e) \cap oracles[e][1].oracles = by
    BY <2>7, <2>10
  <2>12. Cardinality(Affirmative(cast)) >= oracles[e][1].required
    BY <2>4 DEF Reached
  <2>13. Cardinality(by) >= oracles[e][1].required
    BY <2>8, <2>10, <2>12
  <2> QED
    BY <2>11, <2>13
<1> QED
  BY <1>1, ControlsInvariant, PTL DEF ControlsSpec, ConsensusIsFresh

(* invariants.rs's predicates hold of every record through every way out:  *)
(* no more is paid than there is, nothing paid is unpaid, and statuses     *)
(* move by its table.                                                      *)
THEOREM ControlsRecordsMoveByTheTable == ControlsSpec => RecordsMoveByTheTable
<1> DEFINE Ok == \A e \in EscrowIds : HasRecord(e) /\ HasRecord(e)' =>
                   /\ VerifyValueConservation(escrow'[e])
                   /\ VerifyMonotonicDistributions(escrow[e], escrow'[e])
                   /\ IsValidTransition(escrow[e].status, escrow'[e].status)
<1>1. ASSUME ControlsInv, [ControlsNext]_controlsVars
      PROVE  [Ok]_controlsVars
  <2> SUFFICES ASSUME NEW e \in EscrowIds, HasRecord(e), HasRecord(e)'
               PROVE  /\ VerifyValueConservation(escrow'[e])
                      /\ VerifyMonotonicDistributions(escrow[e], escrow'[e])
                      /\ IsValidTransition(escrow[e].status, escrow'[e].status)
    OBVIOUS
  <2>1. CoreInv' /\ AllMove
    BY <1>1, ControlsBooks DEF ControlsInv
  <2>2. AllowedMove(escrow[e], escrow'[e])
    BY <2>1 DEF AllMove
  <2>3. /\ escrow'[e] \in EscrowRecord
        /\ Accounts(escrow'[e], deposited'[e], toSeller'[e], toBuyer'[e])
    BY <2>1 DEF CoreInv, TypeOK
  <2>4. escrow'[e].status \in Statuses
    BY DEF HasRecord
  <2>5. VerifyValueConservation(escrow'[e])
    BY <2>3, <2>4 DEF VerifyValueConservation, Accounts, Statuses, EscrowRecord
  <2> QED
    BY <2>2, <2>5 DEF AllowedMove
<1> QED
  BY <1>1, ControlsInvariant, PTL DEF ControlsSpec, RecordsMoveByTheTable

-----------------------------------------------------------------------------
(***************************************************************************)
(* EscrowDisputes.                                                         *)
(***************************************************************************)
(* Types. *)

Vote == [arbiter : Arbiters, side : Sides]
Request == [arbiter : Arbiters, by : Extensions]

InspectTypes ==
  /\ locked \in BOOLEAN
  /\ inspection \in [EscrowIds -> InspectionPeriod]

PanelTypes ==
  /\ panel \in Panels \cup {NoPanel}
  /\ votes \in [EscrowIds -> SUBSET Vote]
  /\ extensions \in [EscrowIds -> SUBSET Request]
  /\ stake \in [Arbiters -> Stake]
  /\ penalties \in Nat
  /\ heard \in [EscrowIds -> SUBSET Arbiters]

RulingTypes ==
  /\ dueBy \in [EscrowIds -> Nat]
  /\ appeal \in [EscrowIds -> Appeal]
  /\ items \in [EscrowIds -> Seq(Nat \ {0})]
  /\ settled \in [EscrowIds -> SUBSET Nat]

(* Every variable holds a value of its storage type. *)
DisputeTypeOK == TypeOK /\ InspectTypes /\ PanelTypes /\ RulingTypes

LEMMA InspectTypesKept == InspectTypes /\ UNCHANGED inspectVars => InspectTypes'
  BY DEF InspectTypes, inspectVars

LEMMA PanelTypesKept == PanelTypes /\ UNCHANGED panelVars => PanelTypes'
  BY DEF PanelTypes, panelVars

LEMMA RulingTypesKept == RulingTypes /\ UNCHANGED rulingVars => RulingTypes'
  BY DEF RulingTypes, rulingVars

(* The contract is deployed without panel, appeal or penalty. *)
LEMMA DisputeInitType == DisputeInit => DisputeTypeOK
<1> SUFFICES ASSUME DisputeInit
             PROVE  DisputeTypeOK
  OBVIOUS
<1>1. TypeOK
  BY InitType DEF DisputeInit
<1>2. InspectTypes
  BY DEF DisputeInit, InspectTypes, NoInspection, InspectionPeriod
<1>3. PanelTypes
  BY DEF DisputeInit, PanelTypes, Stake
<1>4. NoAppeal \in Appeal
  BY DEF NoAppeal, Appeal, Sides
<1>5. RulingTypes
  BY <1>4 DEF DisputeInit, RulingTypes
<1> QED
  BY <1>1, <1>2, <1>3, <1>5 DEF DisputeTypeOK

-----------------------------------------------------------------------------
(* The moves of one order. *)

Paid(e) == toSeller[e] + toBuyer[e]
Booked(r) == r.released + r.refunded

(* The record's amounts stay as they are. *)
SameFigures(f) ==
  /\ escrow'[f].amount = escrow[f].amount
  /\ escrow'[f].released = escrow[f].released
  /\ escrow'[f].refunded = escrow[f].refunded

SameTerms(f) ==
  /\ appeal'[f].winner = appeal[f].winner
  /\ appeal'[f].bond = appeal[f].bond
  /\ appeal'[f].deadline = appeal[f].deadline

(* Neither the order's books nor its status nor its ruling change. *)
Kept(f) ==
  /\ SameFigures(f) /\ Still(f)
  /\ escrow'[f].status = escrow[f].status
  /\ appeal'[f] = appeal[f]

Begins(f) ==
  /\ escrow[f].status = "Unused" /\ escrow'[f].status \in {"Created", "Funded"}
  /\ escrow'[f].amount > 0 /\ escrow'[f].released = 0 /\ escrow'[f].refunded = 0
  /\ toSeller'[f] = toSeller[f] /\ toBuyer'[f] = toBuyer[f]
  /\ appeal'[f] = appeal[f]

Funds(f) ==
  /\ escrow[f].status = "Created" /\ escrow'[f].status = "Funded"
  /\ escrow'[f].amount >= escrow[f].amount
  /\ escrow'[f].released = escrow[f].released /\ escrow'[f].refunded = escrow[f].refunded
  /\ toSeller'[f] = toSeller[f] /\ toBuyer'[f] = toBuyer[f]
  /\ appeal'[f] = appeal[f]

GivesUp(f) ==
  /\ escrow[f].status = "Created" /\ escrow'[f].status = "Cancelled"
  /\ SameFigures(f) /\ Still(f)
  /\ appeal'[f] = appeal[f]

(* The delivery is confirmed, or a dispute opened. *)
Turns(f) ==
  /\ escrow[f].status \in {"Funded", "Inspection"}
  /\ escrow'[f].status \in {"Inspection", "Disputed"}
  /\ SameFigures(f) /\ Still(f)
  /\ appeal'[f] = appeal[f]

(* A payment the record accounts for. *)
Pays(f) ==
  /\ escrow[f].status \in {"Funded", "Inspection", "Disputed"}
  /\ \E n \in Nat :
       /\ Booked(escrow[f]) + n <= escrow[f].amount
       /\ Booked(escrow'[f]) = Booked(escrow[f]) + n
       /\ Paid(f)' = Paid(f) + n
       /\ escrow'[f].status \in
            IF Booked(escrow[f]) + n = escrow[f].amount
            THEN {"Released", "Refunded"} ELSE {escrow[f].status}
  /\ escrow'[f].amount = escrow[f].amount
  /\ appeal'[f] = appeal[f]
  /\ escrow[f].status = "Disputed" =>
       escrow'[f].status \in Terminal \/ settled'[f] # settled[f]

(* A ruling that keeps the tokens while it can be appealed. *)
Rules(f) ==
  /\ escrow[f].status = "Disputed" /\ escrow'[f].status = "InitialRuling"
  /\ SameFigures(f) /\ Still(f)
  /\ appeal'[f].status = "Pending"

(* A ruling that pays the principal; it may leave a window open behind it. *)
Closes(f) ==
  /\ escrow[f].status = "Disputed" /\ escrow'[f].status \in {"Released", "Refunded"}
  /\ SameFigures(f)
  /\ Paid(f)' = Paid(f) + escrow[f].amount
  /\ appeal'[f] = appeal[f] \/ appeal'[f].status = "Pending"

Appeals(f) ==
  /\ escrow[f].status = "InitialRuling" /\ escrow'[f].status = "InitialRuling"
  /\ SameFigures(f) /\ Still(f)
  /\ appeal[f].status = "Pending" /\ appeal'[f].status = "Appealed" /\ SameTerms(f)

(* A ruling is carried out, by the council or for lack of an appeal. *)
Settles(f) ==
  /\ escrow[f].status \in Statuses /\ escrow'[f].status \in {"Released", "Refunded"}
  /\ SameFigures(f)
  /\ Paid(f)' = Paid(f) + escrow[f].amount
  /\ \/ appeal[f].status = "Appealed"
     \/ /\ appeal[f].status = "Pending" /\ ledger > appeal[f].deadline
        /\ escrow'[f].status = Closing(appeal[f].winner)
  /\ appeal'[f].status = "Finalized" /\ SameTerms(f)

Shelves(f) ==
  /\ escrow[f].status \in Terminal /\ escrow'[f].status = "Archived"
  /\ Still(f) /\ appeal'[f] = appeal[f]

Moves(f) ==
  \/ Kept(f) \/ Begins(f) \/ Funds(f) \/ GivesUp(f) \/ Turns(f) \/ Pays(f)
  \/ Rules(f) \/ Closes(f) \/ Appeals(f) \/ Settles(f) \/ Shelves(f)

(* One order moves, the others are left alone. *)
OneMoves(e) == Moves(e) /\ \A f \in EscrowIds \ {e} : Kept(f)

LEMMA NothingMoves ==
  ASSUME UNCHANGED <<escrow, deposited, toSeller, toBuyer, appeal>>
  PROVE  \A f \in EscrowIds : Kept(f)
  BY DEF Kept, SameFigures, Still

-----------------------------------------------------------------------------
(* What writing a record back does to an order. *)

(* Its fields are those of the record written. *)
LEMMA RecordStored ==
  ASSUME TypeOK, NEW e \in EscrowIds, NEW record \in EscrowRecord, Store(e, record)
  PROVE  /\ escrow' \in [EscrowIds -> EscrowRecord]
         /\ escrow'[e].status = record.status /\ escrow'[e].amount = record.amount
         /\ escrow'[e].released = record.released /\ escrow'[e].refunded = record.refunded
         /\ \A f \in EscrowIds \ {e} : escrow'[f] = escrow[f]
<1>1. /\ escrow'[e] = [record EXCEPT !.updated = ledger]
      /\ \A f \in EscrowIds \ {e} : escrow'[f] = escrow[f]
  BY StoreEffect
<1>2. escrow' \in [EscrowIds -> EscrowRecord]
  BY StoreType
<1>3. /\ escrow'[e].status = record.status /\ escrow'[e].amount = record.amount
      /\ escrow'[e].released = record.released /\ escrow'[e].refunded = record.refunded
  BY <1>1 DEF EscrowRecord
<1> QED
  BY <1>1, <1>2, <1>3

(* The status alone. *)
LEMMA StatusStored ==
  ASSUME TypeOK, NEW e \in EscrowIds, NEW status \in Statuses,
         Store(e, [escrow[e] EXCEPT !.status = status])
  PROVE  /\ escrow' \in [EscrowIds -> EscrowRecord]
         /\ SameFigures(e) /\ escrow'[e].status = status
         /\ \A f \in EscrowIds \ {e} : escrow'[f] = escrow[f]
<1> DEFINE record == [escrow[e] EXCEPT !.status = status]
<1>1. /\ record \in EscrowRecord
      /\ record.status = status /\ record.amount = escrow[e].amount
      /\ record.released = escrow[e].released /\ record.refunded = escrow[e].refunded
  BY OrderTypes DEF EscrowRecord
<1> HIDE DEF record
<1>2. Store(e, record)
  BY DEF record
<1> QED
  BY <1>1, <1>2, RecordStored DEF SameFigures

(* An order a step does not store keeps its books. *)
LEMMA LeftAlone ==
  ASSUME NEW f, escrow'[f] = escrow[f], Still(f), appeal'[f] = appeal[f]
  PROVE  Kept(f)
  BY DEF Kept, SameFigures

-----------------------------------------------------------------------------
(* The core's calls, for types alone. *)

LEMMA OpenStepMoves ==
  ASSUME TypeOK, NEW e \in EscrowIds, OpenStep(e), appeal' = appeal
  PROVE  OneMoves(e)
<1>1. ASSUME NEW a \in Amounts, NEW term \in Terms, Create(e, a, term)
      PROVE  OneMoves(e)
  <2>1. a > 0
    BY ConstantTypes
  <2>2. Begins(e)
    BY <1>1, <2>1 DEF Create, NewRecord, TypeOK, Begins
  <2>3. \A f \in EscrowIds \ {e} : Kept(f)
    BY <1>1, LeftAlone DEF Create, TypeOK, Still
  <2> QED
    BY <2>2, <2>3 DEF OneMoves, Moves
<1>2. ASSUME NEW a \in Amounts, NEW term \in Terms, NEW s \in Surpluses, Deposit(e, a, term, s)
      PROVE  OneMoves(e)
  <2>1. a + s > 0
    BY ConstantTypes
  <2>2. Begins(e)
    BY <1>2, <2>1 DEF Deposit, NewRecord, TypeOK, Begins
  <2>3. \A f \in EscrowIds \ {e} : Kept(f)
    BY <1>2, LeftAlone DEF Deposit, Receive, TypeOK, Still
  <2> QED
    BY <2>2, <2>3 DEF OneMoves, Moves
<1>3. ASSUME NEW schedule \in Schedules, NEW term \in Terms, NEW s \in Surpluses,
             CreateMilestoneEscrow(e, schedule, term, s)
      PROVE  OneMoves(e)
  <2> DEFINE total == SumFunction(schedule) + s
  <2>1. total > 0
    BY <1>3, ConstantTypes DEF CreateMilestoneEscrow
  <2>2. /\ escrow[e].status = "Unused"
        /\ escrow' = [escrow EXCEPT ![e] = NewRecord("Funded", total, term)]
        /\ deposited' = [deposited EXCEPT ![e] = @ + total]
        /\ UNCHANGED <<toSeller, toBuyer>>
    BY <1>3 DEF CreateMilestoneEscrow, Receive
  <2> HIDE DEF total
  <2>3. Begins(e)
    BY <2>1, <2>2 DEF NewRecord, TypeOK, Begins
  <2>4. \A f \in EscrowIds \ {e} : Kept(f)
    BY <2>2, LeftAlone DEF TypeOK, Still
  <2> QED
    BY <2>3, <2>4 DEF OneMoves, Moves
<1>4. ASSUME NEW s \in Surpluses, Fund(e, s)
      PROVE  OneMoves(e)
  <2> DEFINE received == escrow[e].amount + s
             record == [escrow[e] EXCEPT !.amount = received, !.status = "Funded"]
  <2>1. received \in Nat /\ received >= escrow[e].amount
    BY ConstantTypes, FieldTypes
  <2>2. /\ escrow[e].status = "Created"
        /\ Store(e, record)
        /\ deposited' = [deposited EXCEPT ![e] = @ + received]
        /\ UNCHANGED <<toSeller, toBuyer>>
    BY <1>4 DEF Fund, Receive
  <2> HIDE DEF received
  <2>3. /\ record \in EscrowRecord /\ record.status = "Funded" /\ record.amount = received
        /\ record.released = escrow[e].released /\ record.refunded = escrow[e].refunded
    BY <2>1, OrderTypes DEF EscrowRecord, Statuses
  <2> HIDE DEF record
  <2>4. /\ escrow'[e] = [record EXCEPT !.updated = ledger]
        /\ \A f \in EscrowIds \ {e} : escrow'[f] = escrow[f]
    BY <2>2, StoreEffect
  <2>5. Funds(e)
    BY <2>1, <2>2, <2>3, <2>4 DEF EscrowRecord, Funds
  <2>6. \A f \in EscrowIds \ {e} : Kept(f)
    BY <2>2, <2>4, LeftAlone DEF TypeOK, Still
  <2> QED
    BY <2>5, <2>6 DEF OneMoves, Moves
<1>5. CASE AcceptOrder(e) \/ AgreeCancel(e)
  BY <1>5, NothingMoves DEF AcceptOrder, AgreeCancel, OneMoves, Moves
<1>6. CASE Cancel(e)
  <2>1. SameFigures(e) /\ escrow'[e].status = "Cancelled"
        /\ \A f \in EscrowIds \ {e} : escrow'[f] = escrow[f]
    BY <1>6, StatusStored DEF Cancel, Statuses
  <2>2. GivesUp(e)
    BY <1>6, <2>1 DEF Cancel, MayCancel, GivesUp, Still
  <2>3. \A f \in EscrowIds \ {e} : Kept(f)
    BY <1>6, <2>1, LeftAlone DEF Cancel, Still
  <2> QED
    BY <2>2, <2>3 DEF OneMoves, Moves
<1> QED
  BY <1>1, <1>2, <1>3, <1>4, <1>5, <1>6 DEF OpenStep

LEMMA BatchMovesFresh ==
  ASSUME TypeOK, NEW batch \in SUBSET EscrowIds, NEW a \in Amounts, NEW term \in Terms,
         BatchCreate(batch, a, term), appeal' = appeal
  PROVE  \A f \in EscrowIds : Moves(f)
<1> SUFFICES ASSUME NEW f \in EscrowIds
             PROVE  Moves(f)
  OBVIOUS
<1>1. CASE f \in batch
  <2>1. a > 0
    BY ConstantTypes
  <2>2. Begins(f)
    BY <1>1, <2>1 DEF BatchCreate, NewRecord, Begins
  <2> QED
    BY <2>2 DEF Moves
<1>2. CASE f \notin batch
  <2>1. Kept(f)
    BY <1>2, LeftAlone DEF BatchCreate, Still
  <2> QED
    BY <2>1 DEF Moves
<1> QED
  BY <1>1, <1>2

(* A payment to the seller's side. *)
LEMMA ReleasePays ==
  ASSUME TypeOK, NEW e \in EscrowIds, escrow[e].status = "Funded", NEW x \in Nat,
         ExecuteRelease(e, x), UNCHANGED <<deposited, toBuyer, appeal>>
  PROVE  OneMoves(e)
<1> DEFINE r == escrow[e]
           status == IF Remaining(r) - x = 0 THEN "Released" ELSE r.status
           n == r.released + x
           record == [r EXCEPT !.released = n, !.status = status]
<1>1. status \in Statuses /\ n \in Nat /\ x > 0 /\ x <= Remaining(r)
  BY FieldTypes DEF Statuses, ExecuteRelease
<1>2. /\ Store(e, record)
      /\ toSeller' = [toSeller EXCEPT ![e] = @ + x]
  BY DEF ExecuteRelease
<1>3. /\ record \in EscrowRecord
      /\ record.status = status /\ record.amount = r.amount
      /\ record.released = n /\ record.refunded = r.refunded
  BY <1>1, OrderTypes DEF EscrowRecord
<1> HIDE DEF record
<1>4. /\ escrow'[e] = [record EXCEPT !.updated = ledger]
      /\ \A f \in EscrowIds \ {e} : escrow'[f] = escrow[f]
  BY <1>2, StoreEffect
<1>5. /\ escrow'[e].status = status /\ escrow'[e].amount = r.amount
      /\ escrow'[e].released = r.released + x /\ escrow'[e].refunded = r.refunded
  BY <1>3, <1>4 DEF EscrowRecord
<1>6. toSeller'[e] = toSeller[e] + x /\ toBuyer'[e] = toBuyer[e]
  BY <1>2 DEF TypeOK
<1>7. Pays(e)
  <2>1. /\ Booked(r) + x <= r.amount
        /\ Booked(escrow'[e]) = Booked(r) + x
        /\ Paid(e)' = Paid(e) + x
        /\ status \in IF Booked(r) + x = r.amount
                      THEN {"Released", "Refunded"} ELSE {r.status}
    <3>1. /\ r.amount \in Nat /\ r.released \in Nat /\ r.refunded \in Nat
          /\ toSeller[e] \in Nat /\ toBuyer[e] \in Nat
      BY FieldTypes, OrderTypes
    <3>2. Booked(r) + x <= r.amount
      BY <1>1, <3>1 DEF Booked, Remaining
    <3>3. Remaining(r) - x = 0 <=> Booked(r) + x = r.amount
      BY <3>1 DEF Booked, Remaining
    <3>4. Booked(escrow'[e]) = Booked(r) + x
      BY <1>5, <3>1 DEF Booked
    <3>5. Paid(e)' = Paid(e) + x
      BY <1>6, <3>1 DEF Paid
    <3> QED
      BY <3>2, <3>3, <3>4, <3>5
  <2> HIDE DEF status
  <2> QED
    BY <1>5, <2>1 DEF Pays
<1>8. \A f \in EscrowIds \ {e} : Kept(f)
  BY <1>2, <1>4, LeftAlone DEF TypeOK, Still
<1> QED
  BY <1>7, <1>8 DEF OneMoves, Moves

LEMMA PayStepMoves ==
  ASSUME TypeOK, NEW e \in EscrowIds, PayStep(e), appeal' = appeal
  PROVE  OneMoves(e)
<1>0. 1..vault \subseteq Nat
  BY OrderTypes
<1>1. ASSUME NEW caller \in Callers, NEW x \in 1..vault, PartialRelease(e, caller, x)
      PROVE  OneMoves(e)
  BY <1>0, <1>1, ReleasePays DEF PartialRelease
<1>2. ASSUME NEW caller \in Callers, NEW x \in 1..vault, PartialRefund(e, caller, x)
      PROVE  OneMoves(e)
  <2> DEFINE r == escrow[e]
             status == IF Remaining(r) = x THEN "Refunded" ELSE r.status
             m == r.refunded + x
             record == [r EXCEPT !.refunded = m, !.status = status]
  <2>0. x \in Nat
    BY <1>0
  <2>1. /\ r.status \in {"Funded", "Inspection"}
        /\ status \in Statuses /\ m \in Nat /\ x > 0 /\ x <= Remaining(r)
    BY <1>2, <2>0, FieldTypes DEF Statuses, PartialRefund, MayRefund
  <2>2. /\ Store(e, record)
        /\ toBuyer' = [toBuyer EXCEPT ![e] = @ + x]
        /\ UNCHANGED <<deposited, toSeller>>
    BY <1>2 DEF PartialRefund
  <2>3. /\ record \in EscrowRecord
        /\ record.status = status /\ record.amount = r.amount
        /\ record.released = r.released /\ record.refunded = m
    BY <2>1, OrderTypes DEF EscrowRecord
  <2> HIDE DEF record
  <2>4. /\ escrow'[e] = [record EXCEPT !.updated = ledger]
        /\ \A f \in EscrowIds \ {e} : escrow'[f] = escrow[f]
    BY <2>2, StoreEffect
  <2>5. /\ escrow'[e].status = status /\ escrow'[e].amount = r.amount
        /\ escrow'[e].released = r.released /\ escrow'[e].refunded = r.refunded + x
    BY <2>3, <2>4 DEF EscrowRecord
  <2>6. toBuyer'[e] = toBuyer[e] + x /\ toSeller'[e] = toSeller[e]
    BY <2>2 DEF TypeOK
  <2>7. Pays(e)
    <3>1. /\ Booked(r) + x <= r.amount
          /\ Booked(escrow'[e]) = Booked(r) + x
          /\ Paid(e)' = Paid(e) + x
          /\ status \in IF Booked(r) + x = r.amount
                        THEN {"Released", "Refunded"} ELSE {r.status}
      <4>1. /\ r.amount \in Nat /\ r.released \in Nat /\ r.refunded \in Nat
            /\ toSeller[e] \in Nat /\ toBuyer[e] \in Nat
        BY FieldTypes, OrderTypes
      <4>2. Booked(r) + x <= r.amount
        BY <2>0, <2>1, <4>1 DEF Booked, Remaining
      <4>3. Remaining(r) = x <=> Booked(r) + x = r.amount
        BY <2>0, <4>1 DEF Booked, Remaining
      <4>4. Booked(escrow'[e]) = Booked(r) + x
        BY <2>0, <2>5, <4>1 DEF Booked
      <4>5. Paid(e)' = Paid(e) + x
        BY <2>0, <2>6, <4>1 DEF Paid
      <4> QED
        BY <4>2, <4>3, <4>4, <4>5
    <3> HIDE DEF status
    <3> QED
      BY <2>0, <2>1, <2>5, <3>1 DEF Pays
  <2>8. \A f \in EscrowIds \ {e} : Kept(f)
    BY <2>2, <2>4, LeftAlone DEF TypeOK, Still
  <2> QED
    BY <2>7, <2>8 DEF OneMoves, Moves
<1>3. ASSUME NEW i \in DOMAIN milestones[e], ReleaseMilestone(e, i)
      PROVE  OneMoves(e)
  BY <1>3, MilestoneAmount, ReleasePays DEF ReleaseMilestone
<1> QED
  BY <1>1, <1>2, <1>3 DEF PayStep

(* Moving the timeout leaves the rest of the record. *)
LEMMA TimeoutKept ==
  ASSUME TypeOK, NEW e \in EscrowIds, NEW n \in Nat,
         Store(e, [escrow[e] EXCEPT !.timeout = n]),
         UNCHANGED <<deposited, toSeller, toBuyer, appeal>>
  PROVE  \A f \in EscrowIds : Kept(f)
<1> DEFINE record == [escrow[e] EXCEPT !.timeout = n]
<1>1. /\ record \in EscrowRecord
      /\ record.status = escrow[e].status /\ record.amount = escrow[e].amount
      /\ record.released = escrow[e].released /\ record.refunded = escrow[e].refunded
  BY OrderTypes DEF EscrowRecord
<1> HIDE DEF record
<1>2. /\ escrow'[e] = [record EXCEPT !.updated = ledger]
      /\ \A f \in EscrowIds \ {e} : escrow'[f] = escrow[f]
  BY StoreEffect DEF record
<1>3. Kept(e)
  BY <1>1, <1>2 DEF EscrowRecord, Kept, SameFigures, Still
<1> QED
  BY <1>2, <1>3, LeftAlone DEF Still

LEMMA UpkeepStepMoves ==
  ASSUME TypeOK, NEW e \in EscrowIds, UpkeepStep(e), appeal' = appeal
  PROVE  OneMoves(e)
<1>1. CASE RecordShipmentProof(e)
  BY <1>1, NothingMoves DEF RecordShipmentProof, OneMoves, Moves
<1>2. ASSUME NEW require \in BOOLEAN, SetRequireReleaseCondition(e, require)
      PROVE  OneMoves(e)
  BY <1>2, NothingMoves DEF SetRequireReleaseCondition, OneMoves, Moves
<1>3. ASSUME NEW deadline \in 1..MaxLedger, ExtendTimeout(e, deadline)
      PROVE  OneMoves(e)
  <2>1. deadline \in Nat
    BY ConstantTypes
  <2> QED
    BY <1>3, <2>1, TimeoutKept DEF ExtendTimeout, OneMoves, Moves
<1>4. CASE KeeperBump(e)
  <2> DEFINE timeout == escrow[e].timeout + BumpExtension
  <2>1. timeout \in Nat
    BY ConstantTypes, FieldTypes
  <2>2. Store(e, [escrow[e] EXCEPT !.timeout = timeout])
        /\ UNCHANGED <<deposited, toSeller, toBuyer>>
    BY <1>4 DEF KeeperBump
  <2> HIDE DEF timeout
  <2> QED
    BY <2>1, <2>2, TimeoutKept DEF OneMoves, Moves
<1>5. CASE Archive(e)
  <2>1. Shelves(e)
    BY <1>5 DEF Archive, Blank, TypeOK, Shelves, Still
  <2>2. \A f \in EscrowIds \ {e} : Kept(f)
    BY <1>5, LeftAlone DEF Archive, TypeOK, Still
  <2> QED
    BY <2>1, <2>2 DEF OneMoves, Moves
<1> QED
  BY <1>1, <1>2, <1>3, <1>4, <1>5 DEF UpkeepStep

-----------------------------------------------------------------------------
(***************************************************************************)
(* The books of an order.  Until it is ruled on, it has paid what its      *)
(* record says, and it holds something as long as it is open; a ruling     *)
(* pays the principal beyond what the record says; and one that left its   *)
(* appeal window open behind it may be carried out once more, after which  *)
(* the appeal is final.  RulingsPayThePrincipal is not inductive without   *)
(* the rows for open orders and for the state of the appeal.               *)
(***************************************************************************)

Open == {"Funded", "Inspection", "Disputed", "InitialRuling"}

Books(r, in, paid, ruling) ==
  /\ r.status = "Unused" => in = 0 /\ paid = 0
  /\ r.status \in {"Unused", "Created", "Cancelled", "Funded", "Inspection", "Disputed"} =>
       ruling = "None"
  /\ r.status \in {"Created", "Cancelled"} => Booked(r) = 0 /\ paid = 0 /\ r.amount > 0
  /\ r.status \in Open => Booked(r) < r.amount /\ paid = Booked(r)
  /\ r.status = "InitialRuling" => ruling \in {"Pending", "Appealed"}
  /\ r.status \in {"Released", "Refunded"} =>
       \/ Booked(r) = r.amount /\ paid = Booked(r) /\ ruling = "None"
       \/ /\ Booked(r) < r.amount /\ paid = Booked(r) + r.amount
          /\ ruling \in {"None", "Pending", "Finalized"}
       \/ Booked(r) < r.amount /\ paid = Booked(r) + 2 * r.amount /\ ruling = "Finalized"

DisputeBooks ==
  \A e \in EscrowIds : Books(escrow[e], deposited[e], Paid(e), appeal[e].status)

(* The numbers behind them. *)
LEMMA BookTypes ==
  ASSUME TypeOK, NEW e \in EscrowIds
  PROVE  /\ escrow[e].amount \in Nat /\ Booked(escrow[e]) \in Nat
         /\ deposited[e] \in Nat /\ Paid(e) \in Nat
         /\ escrow[e].status \in Statuses \cup NoRecord
         /\ Remaining(escrow[e]) = escrow[e].amount - Booked(escrow[e])
<1>1. /\ escrow[e].amount \in Nat /\ escrow[e].released \in Nat /\ escrow[e].refunded \in Nat
      /\ deposited[e] \in Nat /\ toSeller[e] \in Nat /\ toBuyer[e] \in Nat
      /\ escrow[e].status \in Statuses \cup NoRecord
  BY OrderTypes, FieldTypes
<1> QED
  BY <1>1 DEF Booked, Paid, Remaining

(* Every move keeps the books of the order that makes it. *)
LEMMA MoveKeepsBooks ==
  ASSUME TypeOK, TypeOK', NEW e \in EscrowIds, Moves(e),
         Books(escrow[e], deposited[e], Paid(e), appeal[e].status)
  PROVE  Books(escrow[e], deposited[e], Paid(e), appeal[e].status)'
<1> DEFINE r == escrow[e]
           s == escrow'[e]
<1>1. /\ r.amount \in Nat /\ Booked(r) \in Nat /\ deposited[e] \in Nat /\ Paid(e) \in Nat
      /\ r.status \in Statuses \cup NoRecord
  BY BookTypes
<1>2. /\ s.amount \in Nat /\ Booked(s) \in Nat /\ Paid(e)' \in Nat
  <2>1. escrow'[e] \in EscrowRecord
    BY Zenon DEF TypeOK
  <2>2. toSeller'[e] \in Nat /\ toBuyer'[e] \in Nat
    BY NextTokens
  <2> QED
    BY <2>1, <2>2 DEF EscrowRecord, Booked, Paid
<1>3. SUFFICES Books(s, deposited'[e], Paid(e)', appeal'[e].status)
  BY DEF Books, Booked
<1>4. Still(e) => Paid(e)' = Paid(e)
  BY DEF Still, Paid
<1>5. SameFigures(e) => s.amount = r.amount /\ Booked(s) = Booked(r)
  BY DEF SameFigures, Booked
<1> HIDE DEF r, s
<1>6. ASSUME Kept(e) PROVE Books(s, deposited'[e], Paid(e)', appeal'[e].status)
  <2>1. /\ s.status = r.status /\ deposited'[e] = deposited[e] /\ appeal'[e] = appeal[e]
        /\ s.amount = r.amount /\ Booked(s) = Booked(r) /\ Paid(e)' = Paid(e)
    BY <1>4, <1>5, <1>6 DEF Kept, Still, r, s
  <2> QED
    BY <2>1 DEF Books, r
<1>7. ASSUME Begins(e) PROVE Books(s, deposited'[e], Paid(e)', appeal'[e].status)
  <2>1. /\ r.status = "Unused" /\ s.status \in {"Created", "Funded"} /\ s.amount > 0
        /\ Booked(s) = 0 /\ Paid(e)' = Paid(e) /\ appeal'[e] = appeal[e]
    BY <1>7 DEF Begins, Booked, Paid, r, s
  <2> QED
    BY <2>1 DEF Books, Open, r
<1>8. ASSUME Funds(e) PROVE Books(s, deposited'[e], Paid(e)', appeal'[e].status)
  <2>1. /\ r.status = "Created" /\ s.status = "Funded" /\ s.amount >= r.amount
        /\ Booked(s) = Booked(r) /\ Paid(e)' = Paid(e) /\ appeal'[e] = appeal[e]
    BY <1>8 DEF Funds, Booked, Paid, r, s
  <2> QED
    BY <1>1, <1>2, <2>1 DEF Books, Open, r
<1>9. ASSUME GivesUp(e) PROVE Books(s, deposited'[e], Paid(e)', appeal'[e].status)
  <2>1. /\ r.status = "Created" /\ s.status = "Cancelled" /\ s.amount = r.amount
        /\ Booked(s) = Booked(r) /\ Paid(e)' = Paid(e) /\ appeal'[e] = appeal[e]
    BY <1>4, <1>5, <1>9 DEF GivesUp, r, s
  <2> QED
    BY <1>1, <1>2, <2>1 DEF Books, Open, r
<1>10. ASSUME Turns(e) PROVE Books(s, deposited'[e], Paid(e)', appeal'[e].status)
  <2>1. /\ r.status \in {"Funded", "Inspection"} /\ s.status \in {"Inspection", "Disputed"}
        /\ s.amount = r.amount
        /\ Booked(s) = Booked(r) /\ Paid(e)' = Paid(e) /\ appeal'[e] = appeal[e]
    BY <1>4, <1>5, <1>10 DEF Turns, r, s
  <2> QED
    BY <1>1, <1>2, <2>1 DEF Books, Open, r
<1>11. ASSUME Pays(e) PROVE Books(s, deposited'[e], Paid(e)', appeal'[e].status)
  <2>1. PICK n \in Nat :
          /\ Booked(r) + n <= r.amount
          /\ Booked(s) = Booked(r) + n
          /\ Paid(e)' = Paid(e) + n
          /\ s.status \in IF Booked(r) + n = r.amount
                          THEN {"Released", "Refunded"} ELSE {r.status}
    BY <1>11 DEF Pays, r, s
  <2>2. /\ r.status \in {"Funded", "Inspection", "Disputed"} /\ s.amount = r.amount
        /\ appeal'[e] = appeal[e]
    BY <1>11 DEF Pays, r, s
  <2>3. appeal[e].status = "None" /\ Paid(e) = Booked(r)
    BY <2>2 DEF Books, Open, r
  <2>4. CASE Booked(r) + n = r.amount
    BY <1>1, <2>1, <2>2, <2>3, <2>4 DEF Books, Open
  <2>5. CASE Booked(r) + n # r.amount
    BY <1>1, <2>1, <2>2, <2>3, <2>5 DEF Books, Open
  <2> QED
    BY <2>4, <2>5
<1>12. ASSUME Rules(e) PROVE Books(s, deposited'[e], Paid(e)', appeal'[e].status)
  <2>1. /\ r.status = "Disputed" /\ s.status = "InitialRuling" /\ s.amount = r.amount
        /\ Booked(s) = Booked(r) /\ Paid(e)' = Paid(e) /\ appeal'[e].status = "Pending"
    BY <1>4, <1>5, <1>12 DEF Rules, r, s
  <2> QED
    BY <1>1, <2>1 DEF Books, Open, r
<1>13. ASSUME Closes(e) PROVE Books(s, deposited'[e], Paid(e)', appeal'[e].status)
  <2>1. /\ r.status = "Disputed" /\ s.status \in {"Released", "Refunded"}
        /\ s.amount = r.amount /\ Booked(s) = Booked(r) /\ Paid(e)' = Paid(e) + r.amount
        /\ appeal'[e] = appeal[e] \/ appeal'[e].status = "Pending"
    BY <1>5, <1>13 DEF Closes, r, s
  <2>2. appeal[e].status = "None" /\ Paid(e) = Booked(r) /\ Booked(r) < r.amount
    BY <2>1 DEF Books, Open, r
  <2> QED
    BY <2>1, <2>2 DEF Books, Open
<1>14. ASSUME Appeals(e) PROVE Books(s, deposited'[e], Paid(e)', appeal'[e].status)
  <2>1. /\ r.status = "InitialRuling" /\ s.status = "InitialRuling" /\ s.amount = r.amount
        /\ Booked(s) = Booked(r) /\ Paid(e)' = Paid(e) /\ appeal'[e].status = "Appealed"
    BY <1>4, <1>5, <1>14 DEF Appeals, r, s
  <2> QED
    BY <1>1, <2>1 DEF Books, Open, r
<1>15. ASSUME Settles(e) PROVE Books(s, deposited'[e], Paid(e)', appeal'[e].status)
  <2>1. /\ r.status \in Statuses /\ s.status \in {"Released", "Refunded"}
        /\ s.amount = r.amount /\ Booked(s) = Booked(r) /\ Paid(e)' = Paid(e) + r.amount
        /\ appeal[e].status \in {"Pending", "Appealed"} /\ appeal'[e].status = "Finalized"
    BY <1>5, <1>15 DEF Settles, r, s
  <2>2. /\ Booked(r) < r.amount
        /\ Paid(e) = Booked(r) \/ Paid(e) = Booked(r) + r.amount
    BY <2>1 DEF Books, Open, Statuses, r
  <2> QED
    BY <1>1, <2>1, <2>2 DEF Books, Open
<1>16. ASSUME Shelves(e) PROVE Books(s, deposited'[e], Paid(e)', appeal'[e].status)
  <2>1. s.status = "Archived"
    BY <1>16 DEF Shelves, s
  <2> QED
    BY <2>1 DEF Books, Open
<1> QED
  BY <1>6, <1>7, <1>8, <1>9, <1>10, <1>11, <1>12, <1>13, <1>14, <1>15, <1>16 DEF Moves

-----------------------------------------------------------------------------
(* Tokens that leave. *)

LEMMA PayEffect ==
  ASSUME TypeOK, NEW e \in EscrowIds, NEW side \in Sides, NEW n \in Nat, Pay(e, side, n)
  PROVE  /\ vault' \in Nat
         /\ toSeller' \in [EscrowIds -> Nat] /\ toBuyer' \in [EscrowIds -> Nat]
         /\ UNCHANGED <<deposited, bounties>>
         /\ vault' = vault - n /\ Paid(e)' = Paid(e) + n /\ deposited'[e] = deposited[e]
         /\ \A f \in EscrowIds \ {e} : Still(f)
<1>1. /\ vault \in Nat /\ n <= vault /\ vault' = vault - n
      /\ UNCHANGED <<deposited, bounties>>
      /\ toSeller[e] \in Nat /\ toBuyer[e] \in Nat
  BY OrderTypes DEF Pay
<1>2. CASE side = "seller"
  <2>1. toSeller' = [toSeller EXCEPT ![e] = @ + n] /\ toBuyer' = toBuyer
    BY <1>2 DEF Pay
  <2>2. toSeller' \in [EscrowIds -> Nat] /\ toBuyer' \in [EscrowIds -> Nat]
    BY <2>1 DEF TypeOK
  <2>3. toSeller'[e] = toSeller[e] + n /\ toBuyer'[e] = toBuyer[e]
    BY <2>1 DEF TypeOK
  <2>4. \A f \in EscrowIds \ {e} : Still(f)
    BY <1>1, <2>1 DEF TypeOK, Still
  <2> QED
    BY <1>1, <2>2, <2>3, <2>4 DEF Paid
<1>3. CASE side = "buyer"
  <2>1. toBuyer' = [toBuyer EXCEPT ![e] = @ + n] /\ toSeller' = toSeller
    BY <1>3 DEF Pay
  <2>2. toSeller' \in [EscrowIds -> Nat] /\ toBuyer' \in [EscrowIds -> Nat]
    BY <2>1 DEF TypeOK
  <2>3. toBuyer'[e] = toBuyer[e] + n /\ toSeller'[e] = toSeller[e]
    BY <2>1 DEF TypeOK
  <2>4. \A f \in EscrowIds \ {e} : Still(f)
    BY <1>1, <2>1 DEF TypeOK, Still
  <2> QED
    BY <1>1, <2>2, <2>3, <2>4 DEF Paid
<1> QED
  BY <1>2, <1>3 DEF Sides

LEMMA PayBothEffect ==
  ASSUME TypeOK, NEW e \in EscrowIds, NEW m \in Nat, NEW n \in Nat, PayBoth(e, m, n)
  PROVE  /\ vault' \in Nat
         /\ toSeller' \in [EscrowIds -> Nat] /\ toBuyer' \in [EscrowIds -> Nat]
         /\ UNCHANGED <<deposited, bounties>>
         /\ vault' = vault - (m + n) /\ Paid(e)' = Paid(e) + (m + n)
         /\ deposited'[e] = deposited[e]
         /\ \A f \in EscrowIds \ {e} : Still(f)
<1>1. /\ vault \in Nat /\ m + n <= vault /\ vault' = vault - m - n
      /\ UNCHANGED <<deposited, bounties>>
      /\ toSeller[e] \in Nat /\ toBuyer[e] \in Nat
      /\ toSeller' = [toSeller EXCEPT ![e] = @ + m]
      /\ toBuyer' = [toBuyer EXCEPT ![e] = @ + n]
  BY OrderTypes DEF PayBoth
<1>2. toSeller' \in [EscrowIds -> Nat] /\ toBuyer' \in [EscrowIds -> Nat]
  BY <1>1 DEF TypeOK
<1>3. toSeller'[e] = toSeller[e] + m /\ toBuyer'[e] = toBuyer[e] + n
  BY <1>1 DEF TypeOK
<1>4. \A f \in EscrowIds \ {e} : Still(f)
  BY <1>1 DEF TypeOK, Still
<1>5. vault' \in Nat /\ vault' = vault - (m + n)
  BY <1>1
<1> QED
  BY <1>1, <1>2, <1>3, <1>4, <1>5 DEF Paid

(* The vault gives what the order pays, and n tokens of no order besides. *)
LEMMA PaidFlow ==
  ASSUME TypeOK, TypeOK', NEW e \in EscrowIds, NEW p \in Int, NEW n \in Int,
         vault' = vault - p + n, UNCHANGED bounties,
         Paid(e)' = Paid(e) + p, deposited'[e] = deposited[e],
         \A f \in EscrowIds \ {e} : Still(f)
  PROVE  Slack' = Slack + n
<1>1. /\ Held(e) = deposited[e] - Paid(e) /\ Held(e)' = deposited'[e] - Paid(e)'
      /\ vault \in Nat /\ bounties \in Nat /\ deposited[e] \in Nat /\ Paid(e) \in Nat
  <2>1. /\ deposited[e] \in Nat /\ toSeller[e] \in Nat /\ toBuyer[e] \in Nat
        /\ vault \in Nat /\ bounties \in Nat
    BY OrderTypes
  <2>2. deposited'[e] \in Nat /\ toSeller'[e] \in Nat /\ toBuyer'[e] \in Nat
    BY NextTokens
  <2> QED
    BY <2>1, <2>2 DEF Held, Paid
<1>2. Held(e)' - Held(e) = 0 - p
  BY <1>1
<1>3. vault' + bounties' - vault - bounties = Held(e)' - Held(e) + n
  BY <1>1, <1>2
<1> QED
  BY <1>3, SlackMoves

LEMMA PaidOutFlow ==
  ASSUME TypeOK, TypeOK', NEW e \in EscrowIds, NEW p \in Int,
         vault' = vault - p, UNCHANGED bounties,
         Paid(e)' = Paid(e) + p, deposited'[e] = deposited[e],
         \A f \in EscrowIds \ {e} : Still(f)
  PROVE  Slack' = Slack
<1>1. vault \in Nat /\ Slack \in Int
  BY OrderTypes, HeldTypes DEF Slack
<1>2. vault' = vault - p + 0
  BY <1>1
<1>3. Slack' = Slack + 0
  BY <1>2, PaidFlow
<1> QED
  BY <1>1, <1>3

-----------------------------------------------------------------------------
(* Calls that change a record: types, books and pool at once. *)

(* The status changes and no token moves. *)
LEMMA StatusCall ==
  ASSUME TypeOK, NEW e \in EscrowIds, NEW status \in Statuses,
         Store(e, [escrow[e] EXCEPT !.status = status]),
         UNCHANGED <<ledger, lockout, otherRecordVars, vault, ghostVars>>
  PROVE  /\ TypeOK' /\ Slack' = Slack
         /\ SameFigures(e) /\ escrow'[e].status = status
         /\ \A f \in EscrowIds : Still(f)
         /\ \A f \in EscrowIds \ {e} : escrow'[f] = escrow[f]
<1>1. /\ escrow' \in [EscrowIds -> EscrowRecord]
      /\ SameFigures(e) /\ escrow'[e].status = status
      /\ \A f \in EscrowIds \ {e} : escrow'[f] = escrow[f]
  BY StatusStored
<1>2. TypeOK'
  BY <1>1 DEF TypeOK, otherRecordVars, ghostVars
<1>3. Slack' = Slack
  BY NoFlow DEF ghostVars
<1> QED
  BY <1>1, <1>2, <1>3 DEF Still, ghostVars

(* The status changes and n tokens leave for one side. *)
LEMMA RulingCall ==
  ASSUME TypeOK, NEW e \in EscrowIds, NEW status \in Statuses, NEW side \in Sides,
         NEW n \in Nat,
         Store(e, [escrow[e] EXCEPT !.status = status]), Pay(e, side, n),
         UNCHANGED <<ledger, lockout, otherRecordVars>>
  PROVE  /\ TypeOK' /\ Slack' = Slack
         /\ SameFigures(e) /\ escrow'[e].status = status
         /\ Paid(e)' = Paid(e) + n
         /\ \A f \in EscrowIds \ {e} : escrow'[f] = escrow[f] /\ Still(f)
<1>1. /\ escrow' \in [EscrowIds -> EscrowRecord]
      /\ SameFigures(e) /\ escrow'[e].status = status
      /\ \A f \in EscrowIds \ {e} : escrow'[f] = escrow[f]
  BY StatusStored
<1>2. /\ vault' \in Nat
      /\ toSeller' \in [EscrowIds -> Nat] /\ toBuyer' \in [EscrowIds -> Nat]
      /\ UNCHANGED <<deposited, bounties>>
      /\ vault' = vault - n /\ Paid(e)' = Paid(e) + n /\ deposited'[e] = deposited[e]
      /\ \A f \in EscrowIds \ {e} : Still(f)
  BY PayEffect
<1>3. TypeOK'
  BY <1>1, <1>2 DEF TypeOK, otherRecordVars
<1>4. Slack' = Slack
  BY <1>2, <1>3, PaidOutFlow
<1> QED
  BY <1>1, <1>2, <1>3, <1>4

(* A payment the record is updated for. *)
LEMMA BookedCall ==
  ASSUME TypeOK, NEW e \in EscrowIds, NEW record \in EscrowRecord, Store(e, record),
         NEW n \in Nat, vault' \in Nat, vault' = vault - n,
         toSeller' \in [EscrowIds -> Nat], toBuyer' \in [EscrowIds -> Nat],
         Paid(e)' = Paid(e) + n,
         \A f \in EscrowIds \ {e} : Still(f),
         UNCHANGED <<ledger, lockout, otherRecordVars, deposited, bounties>>
  PROVE  TypeOK' /\ Slack' = Slack
<1>1. TypeOK'
  BY StoreType DEF TypeOK, otherRecordVars
<1> QED
  BY <1>1, PaidOutFlow

-----------------------------------------------------------------------------
(* Delivery and inspection. *)

LEMMA VerifyDeliveryEffect ==
  ASSUME TypeOK, NEW e \in EscrowIds, VerifyDelivery(e)
  PROVE  TypeOK' /\ Slack' = Slack /\ OneMoves(e)
<1>1. /\ TypeOK' /\ Slack' = Slack
      /\ SameFigures(e) /\ escrow'[e].status = "Inspection"
      /\ \A f \in EscrowIds : Still(f)
      /\ \A f \in EscrowIds \ {e} : escrow'[f] = escrow[f]
  BY StatusCall DEF VerifyDelivery, Statuses
<1>2. escrow[e].status = "Funded" /\ appeal' = appeal
  BY DEF VerifyDelivery, rulingVars
<1>3. Turns(e)
  BY <1>1, <1>2 DEF Turns
<1>4. \A f \in EscrowIds \ {e} : Kept(f)
  BY <1>1, <1>2, LeftAlone
<1> QED
  BY <1>1, <1>3, <1>4 DEF OneMoves, Moves

LEMMA ReleaseRestEffect ==
  ASSUME TypeOK, DisputeBooks, NEW e \in EscrowIds, escrow[e].status = "Inspection",
         ReleaseRest(e)
  PROVE  TypeOK' /\ Slack' = Slack /\ OneMoves(e)
<1> DEFINE r == escrow[e]
           n == Remaining(r)
           released == r.released + n
           record == [r EXCEPT !.released = released, !.status = "Released"]
<1>1. /\ r.amount \in Nat /\ r.released \in Nat /\ r.refunded \in Nat
      /\ Booked(r) < r.amount
  BY FieldTypes DEF DisputeBooks, Books, Open
<1>2. n \in Nat /\ released \in Nat /\ Booked(r) + n = r.amount
      /\ released + r.refunded = Booked(r) + n
  BY <1>1 DEF Booked, Remaining
<1>3. /\ Store(e, record) /\ Pay(e, "seller", n)
      /\ UNCHANGED <<ledger, lockout, otherRecordVars>> /\ appeal' = appeal
  BY DEF ReleaseRest, rulingVars
<1> HIDE DEF n, released
<1>4. /\ record \in EscrowRecord
      /\ record.status = "Released" /\ record.amount = r.amount
      /\ record.released = released /\ record.refunded = r.refunded
  BY <1>2, OrderTypes DEF EscrowRecord, Statuses
<1> HIDE DEF record
<1>5. /\ escrow'[e].status = "Released" /\ escrow'[e].amount = r.amount
      /\ escrow'[e].released = released /\ escrow'[e].refunded = r.refunded
      /\ \A f \in EscrowIds \ {e} : escrow'[f] = escrow[f]
  BY <1>3, <1>4, RecordStored
<1>6. /\ vault' \in Nat
      /\ toSeller' \in [EscrowIds -> Nat] /\ toBuyer' \in [EscrowIds -> Nat]
      /\ UNCHANGED <<deposited, bounties>>
      /\ vault' = vault - n /\ Paid(e)' = Paid(e) + n
      /\ \A f \in EscrowIds \ {e} : Still(f)
  BY <1>2, <1>3, PayEffect DEF Sides
<1>7. TypeOK' /\ Slack' = Slack
  BY <1>2, <1>3, <1>4, <1>6, BookedCall
<1>8. Pays(e)
  <2>1. Booked(escrow'[e]) = Booked(r) + n /\ Booked(r) + n <= r.amount
    BY <1>1, <1>2, <1>5 DEF Booked
  <2> QED
    BY <1>2, <1>3, <1>5, <1>6, <2>1 DEF Pays
<1>9. \A f \in EscrowIds \ {e} : Kept(f)
  BY <1>3, <1>5, <1>6, LeftAlone
<1> QED
  BY <1>7, <1>8, <1>9 DEF OneMoves, Moves

LEMMA InspectionStepEffect ==
  ASSUME TypeOK, DisputeBooks, NEW e \in EscrowIds, InspectionStep(e)
  PROVE  TypeOK' /\ Slack' = Slack /\ OneMoves(e)
<1>1. ASSUME NEW term \in InspectionTerms, SetInspectionConfig(e, term)
      PROVE  TypeOK' /\ Slack' = Slack /\ OneMoves(e)
  <2>1. UNCHANGED coreVars /\ appeal' = appeal
    BY <1>1 DEF SetInspectionConfig, rulingVars
  <2>2. TypeOK'
    BY <2>1, StepType
  <2> QED
    BY <2>1, <2>2, NoFlow, NothingMoves DEF coreVars, recordVars, OneMoves, Moves
<1>2. CASE VerifyDelivery(e)
  BY <1>2, VerifyDeliveryEffect
<1>3. CASE ReleaseOnInspectionPassed(e) \/ ClaimInspectionAutoRelease(e)
  BY <1>3, ReleaseRestEffect DEF ReleaseOnInspectionPassed, ClaimInspectionAutoRelease
<1> QED
  BY <1>1, <1>2, <1>3 DEF InspectionStep

-----------------------------------------------------------------------------
(* Arbiters. *)

(* A panel is a finite set of arbiters; its threshold is one it can reach. *)
LEMMA PanelFacts ==
  ASSUME PanelTypes
  PROVE  /\ panel.arbiters \in SUBSET Arbiters /\ IsFiniteSet(panel.arbiters)
         /\ panel # NoPanel => panel.threshold \in 1..Cardinality(panel.arbiters)
<1>1. CASE panel \in Panels
  BY <1>1, DisputeAssumption
<1>2. CASE panel = NoPanel
  BY <1>2, FS_EmptySet DEF NoPanel
<1> QED
  BY <1>1, <1>2 DEF PanelTypes

Fine(a) == 2 * (stake[a].amount \div 2)

(* The slashed stakes add up to a number of tokens. *)
LEMMA FineType ==
  ASSUME PanelTypes, NEW e \in EscrowIds
  PROVE  SumFunction([a \in Delinquent(e) |-> 2 * (stake[a].amount \div 2)]) \in Nat
<1> DEFINE D == Delinquent(e)
           fine == [a \in D |-> Fine(a)]
<1>1. IsFiniteSet(D) /\ D \subseteq Arbiters
  BY PanelFacts, FS_Subset DEF Delinquent
<1>2. \A a \in Arbiters : stake[a].amount \in Nat
  BY DEF PanelTypes, Stake
<1>3. \A a \in Arbiters : Fine(a) \in Nat
  BY <1>2 DEF Fine
<1> HIDE DEF D
<1>4. \A a \in D : fine[a] \in Nat
  BY <1>1, <1>3
<1>5. DOMAIN fine = D
  OBVIOUS
<1> HIDE DEF fine
<1>6. SumFunctionOnSet(fine, D) \in Nat
  BY <1>1, <1>4, SumType
<1> QED
  BY <1>5, <1>6 DEF SumFunction, fine, D, Fine

(* Who is slashed is paid out of the pool, and nothing else moves. *)
LEMMA SlashEffect ==
  ASSUME TypeOK, PanelTypes, NEW e \in EscrowIds, SlashDelinquentArbiters(e)
  PROVE  /\ TypeOK' /\ Slack' + penalties' = Slack + penalties /\ penalties' \in Nat
         /\ OneMoves(e) /\ appeal' = appeal
<1> DEFINE fine == SumFunction([a \in Delinquent(e) |-> 2 * (stake[a].amount \div 2)])
<1>1. fine \in Nat
  BY FineType
<1>2. /\ fine <= vault /\ vault' = vault - fine /\ penalties' = penalties + fine
      /\ UNCHANGED <<ledger, lockout, recordVars, ghostVars>> /\ appeal' = appeal
  BY DEF SlashDelinquentArbiters, rulingVars
<1> HIDE DEF fine
<1>3. vault \in Nat /\ penalties \in Nat /\ Slack \in Int
  BY OrderTypes, HeldTypes DEF PanelTypes, Slack, TypeOK
<1>4. vault' \in Nat
  BY <1>1, <1>2, <1>3
<1>5. TypeOK'
  BY <1>2, <1>4 DEF TypeOK, recordVars, ghostVars
<1>6. vault' = vault + (0 - fine) /\ (0 - fine) \in Int
  BY <1>1, <1>2, <1>3
<1>7. Slack' = Slack + (0 - fine)
  BY <1>2, <1>6, SideFlow DEF ghostVars
<1>8. Slack' + penalties' = Slack + penalties /\ penalties' \in Nat
  BY <1>1, <1>2, <1>3, <1>7
<1> QED
  BY <1>2, <1>5, <1>8, NothingMoves DEF recordVars, ghostVars, OneMoves, Moves

LEMMA ExtendTimeoutEffect ==
  ASSUME TypeOK, NEW e \in EscrowIds, NEW a \in Arbiters, NEW by \in Extensions,
         ExtendTimeoutViaQuorum(e, a, by)
  PROVE  TypeOK' /\ Slack' = Slack /\ OneMoves(e)
<1> DEFINE timeout == escrow[e].timeout + by
<1>1. timeout \in Nat
  BY FieldTypes, DisputeAssumption
<1>2. /\ UNCHANGED <<ledger, lockout, otherRecordVars, vault, ghostVars>>
      /\ appeal' = appeal
      /\ Store(e, [escrow[e] EXCEPT !.timeout = timeout]) \/ UNCHANGED escrow
  BY DEF ExtendTimeoutViaQuorum, rulingVars
<1> HIDE DEF timeout
<1>3. Slack' = Slack
  BY <1>2, NoFlow DEF ghostVars
<1>4. CASE UNCHANGED escrow
  <2>1. TypeOK'
    BY <1>2, <1>4 DEF TypeOK, otherRecordVars, ghostVars
  <2> QED
    BY <1>2, <1>3, <1>4, <2>1, NothingMoves DEF ghostVars, OneMoves, Moves
<1>5. CASE Store(e, [escrow[e] EXCEPT !.timeout = timeout])
  <2>1. [escrow[e] EXCEPT !.timeout = timeout] \in EscrowRecord
    BY <1>1, OrderTypes DEF EscrowRecord
  <2>2. TypeOK'
    BY <1>2, <1>5, <2>1, StoreType DEF TypeOK, otherRecordVars, ghostVars
  <2> QED
    BY <1>1, <1>2, <1>3, <1>5, <2>2, TimeoutKept DEF ghostVars, OneMoves, Moves
<1> QED
  BY <1>2, <1>4, <1>5

LEMMA ClosingType ==
  ASSUME NEW side \in Sides
  PROVE  Closing(side) \in {"Released", "Refunded"} /\ Closing(side) \in Statuses
  BY DEF Closing, Sides, Statuses

LEMMA ResolveQuorumEffect ==
  ASSUME TypeOK, NEW e \in EscrowIds, NEW side \in Sides, ResolveDisputeQuorum(e, side)
  PROVE  TypeOK' /\ Slack' = Slack /\ OneMoves(e)
<1>1. /\ escrow[e].status = "Disputed"
      /\ Store(e, [escrow[e] EXCEPT !.status = Closing(side)])
      /\ Pay(e, side, escrow[e].amount)
      /\ UNCHANGED <<ledger, lockout, otherRecordVars>> /\ appeal' = appeal
  BY DEF ResolveDisputeQuorum, rulingVars
<1>2. /\ TypeOK' /\ Slack' = Slack
      /\ SameFigures(e) /\ escrow'[e].status = Closing(side)
      /\ Paid(e)' = Paid(e) + escrow[e].amount
      /\ \A f \in EscrowIds \ {e} : escrow'[f] = escrow[f] /\ Still(f)
  BY <1>1, ClosingType, FieldTypes, RulingCall
<1>3. Closes(e)
  BY <1>1, <1>2, ClosingType DEF Closes
<1>4. \A f \in EscrowIds \ {e} : Kept(f)
  BY <1>1, <1>2, LeftAlone
<1> QED
  BY <1>2, <1>3, <1>4 DEF OneMoves, Moves

LEMMA ArbiterStepEffect ==
  ASSUME TypeOK, PanelTypes, NEW e \in EscrowIds, ArbiterStep(e)
  PROVE  /\ TypeOK' /\ Slack' + penalties' = Slack + penalties /\ penalties' \in Nat
         /\ OneMoves(e) /\ appeal' = appeal
<1>0. penalties \in Nat /\ Slack \in Int
  BY OrderTypes, HeldTypes DEF PanelTypes, Slack, TypeOK
<1>1. ASSUME UNCHANGED coreVars, appeal' = appeal
      PROVE  TypeOK' /\ Slack' = Slack /\ OneMoves(e)
  <2>1. TypeOK'
    BY <1>1, StepType
  <2> QED
    BY <1>1, <2>1, NoFlow, NothingMoves DEF coreVars, recordVars, OneMoves, Moves
<1>2. ASSUME NEW a \in Arbiters, NEW side \in Sides, VoteDispute(e, a, side)
      PROVE  TypeOK' /\ Slack' = Slack /\ OneMoves(e) /\ penalties' = penalties /\ appeal' = appeal
  BY <1>1, <1>2 DEF VoteDispute, rulingVars
<1>3. ASSUME NEW a \in Arbiters, NEW by \in Extensions, ExtendTimeoutViaQuorum(e, a, by)
      PROVE  TypeOK' /\ Slack' = Slack /\ OneMoves(e) /\ penalties' = penalties /\ appeal' = appeal
  <2>1. penalties' = penalties /\ appeal' = appeal
    BY <1>3 DEF ExtendTimeoutViaQuorum, rulingVars
  <2> QED
    BY <1>3, <2>1, ExtendTimeoutEffect
<1>4. ASSUME NEW side \in Sides, ResolveDisputeQuorum(e, side)
      PROVE  TypeOK' /\ Slack' = Slack /\ OneMoves(e) /\ penalties' = penalties /\ appeal' = appeal
  <2>1. penalties' = penalties /\ appeal' = appeal
    BY <1>4 DEF ResolveDisputeQuorum, rulingVars
  <2> QED
    BY <1>4, <2>1, ResolveQuorumEffect
<1>5. CASE PruneDisputeVotes(e)
  <2>1. UNCHANGED coreVars /\ penalties' = penalties /\ appeal' = appeal
    BY <1>5 DEF PruneDisputeVotes, rulingVars
  <2> QED
    BY <1>0, <1>1, <2>1
<1>6. CASE SlashDelinquentArbiters(e)
  BY <1>6, SlashEffect
<1> QED
  BY <1>0, <1>2, <1>3, <1>4, <1>5, <1>6 DEF ArbiterStep

-----------------------------------------------------------------------------
(* Rulings.  The bond of an appeal is in the vault, for no order, from the *)
(* filing to the council's word.                                           *)

Bonded(e) == IF appeal[e].status = "Appealed" THEN appeal[e].bond ELSE 0

(* What a call on e does: its order moves, the others are left alone, and  *)
(* the slack changes with the bond.                                        *)
Calls(e) ==
  /\ TypeOK'
  /\ OneMoves(e)
  /\ Slack' = Slack + (Bonded(e)' - Bonded(e))

LEMMA BondTypes ==
  ASSUME TypeOK, RulingTypes, NEW e \in EscrowIds
  PROVE  /\ appeal[e] \in Appeal /\ appeal[e].bond \in Nat /\ appeal[e].winner \in Sides
         /\ appeal[e].status \in {"None", "Pending", "Appealed", "Finalized"}
         /\ appeal[e].deadline \in Nat
         /\ Bonded(e) \in Nat /\ Slack \in Int
<1>1. appeal[e] \in Appeal
  BY DEF RulingTypes
<1>2. Slack \in Int
  BY OrderTypes, HeldTypes DEF Slack, TypeOK
<1> QED
  BY <1>1, <1>2 DEF Appeal, Bonded

(* A call that no bond has a part in. *)
LEMMA CallWithoutBond ==
  ASSUME TypeOK, RulingTypes, NEW e \in EscrowIds,
         TypeOK', OneMoves(e), Slack' = Slack, Bonded(e)' = Bonded(e)
  PROVE  Calls(e)
<1>1. Slack \in Int /\ Bonded(e) \in Nat
  BY BondTypes
<1> QED
  BY <1>1 DEF Calls

LEMMA DisputeEffect ==
  ASSUME TypeOK, RulingTypes, NEW e \in EscrowIds, Dispute(e)
  PROVE  Calls(e)
<1>1. /\ TypeOK' /\ Slack' = Slack
      /\ SameFigures(e) /\ escrow'[e].status = "Disputed"
      /\ \A f \in EscrowIds : Still(f)
      /\ \A f \in EscrowIds \ {e} : escrow'[f] = escrow[f]
  BY StatusCall DEF Dispute, Statuses
<1>2. escrow[e].status \in {"Funded", "Inspection"} /\ appeal' = appeal
  BY DEF Dispute
<1>3. Turns(e)
  BY <1>1, <1>2 DEF Turns
<1>4. \A f \in EscrowIds \ {e} : Kept(f)
  BY <1>1, <1>2, LeftAlone
<1>5. Bonded(e)' = Bonded(e)
  BY <1>2 DEF Bonded
<1> QED
  BY <1>1, <1>3, <1>4, <1>5, CallWithoutBond DEF OneMoves, Moves

LEMMA ResolveDisputeEffect ==
  ASSUME TypeOK, RulingTypes, DisputeBooks, NEW e \in EscrowIds, NEW side \in Sides,
         NEW reading \in Readings, ResolveDispute(e, side, reading)
  PROVE  Calls(e)
<1>1. /\ escrow[e].status = "Disputed"
      /\ appeal' = [appeal EXCEPT ![e] = NewAppeal(e, side)]
      /\ UNCHANGED <<ledger, lockout, otherRecordVars>>
  BY DEF ResolveDispute
<1>2. /\ appeal'[e].status = "Pending"
      /\ \A f \in EscrowIds \ {e} : appeal'[f] = appeal[f]
  BY <1>1 DEF RulingTypes, NewAppeal
<1>3. appeal[e].status = "None"
  BY <1>1 DEF DisputeBooks, Books
<1>4. Bonded(e)' = Bonded(e)
  BY <1>2, <1>3 DEF Bonded
<1>5. CASE /\ Store(e, [escrow[e] EXCEPT !.status = "InitialRuling"])
           /\ UNCHANGED <<vault, ghostVars>>
  <2>1. /\ TypeOK' /\ Slack' = Slack
        /\ SameFigures(e) /\ escrow'[e].status = "InitialRuling"
        /\ \A f \in EscrowIds : Still(f)
        /\ \A f \in EscrowIds \ {e} : escrow'[f] = escrow[f]
    BY <1>1, <1>5, StatusCall DEF Statuses
  <2>2. Rules(e)
    BY <1>1, <1>2, <2>1 DEF Rules
  <2>3. \A f \in EscrowIds \ {e} : Kept(f)
    BY <1>2, <2>1, LeftAlone
  <2> QED
    BY <1>4, <2>1, <2>2, <2>3, CallWithoutBond DEF OneMoves, Moves
<1>6. CASE /\ Store(e, [escrow[e] EXCEPT !.status = Closing(side)])
           /\ Pay(e, side, escrow[e].amount)
  <2>1. /\ TypeOK' /\ Slack' = Slack
        /\ SameFigures(e) /\ escrow'[e].status = Closing(side)
        /\ Paid(e)' = Paid(e) + escrow[e].amount
        /\ \A f \in EscrowIds \ {e} : escrow'[f] = escrow[f] /\ Still(f)
    BY <1>1, <1>6, ClosingType, FieldTypes, RulingCall
  <2>2. Closes(e)
    BY <1>1, <1>2, <2>1, ClosingType DEF Closes
  <2>3. \A f \in EscrowIds \ {e} : Kept(f)
    BY <1>2, <2>1, LeftAlone
  <2> QED
    BY <1>4, <2>1, <2>2, <2>3, CallWithoutBond DEF OneMoves, Moves
<1> QED
  BY <1>5, <1>6 DEF ResolveDispute

LEMMA FileAppealEffect ==
  ASSUME TypeOK, RulingTypes, NEW e \in EscrowIds, FileDisputeAppeal(e)
  PROVE  Calls(e)
<1>1. /\ escrow[e].status = "InitialRuling" /\ appeal[e].status = "Pending"
      /\ appeal' = [appeal EXCEPT ![e].status = "Appealed"]
      /\ vault' = vault + appeal[e].bond
      /\ UNCHANGED <<ledger, lockout, recordVars, ghostVars>>
  BY DEF FileDisputeAppeal
<1>2. /\ appeal'[e].status = "Appealed" /\ SameTerms(e)
      /\ \A f \in EscrowIds \ {e} : appeal'[f] = appeal[f]
  BY <1>1, BondTypes DEF RulingTypes, Appeal, SameTerms
<1>3. appeal[e].bond \in Nat /\ vault \in Nat
  BY BondTypes, OrderTypes
<1>4. TypeOK'
  <2>1. vault' \in Nat /\ UNCHANGED <<ledger, lockout, recordVars, ghostVars>>
    BY <1>1, <1>3
  <2> QED
    BY ONLY TypeOK, <2>1 DEF TypeOK, recordVars, ghostVars
<1>5. Slack' = Slack + appeal[e].bond
  BY <1>1, <1>3, SideFlow DEF ghostVars
<1>6. Bonded(e) = 0 /\ Bonded(e)' = appeal[e].bond
  BY <1>1, <1>2 DEF Bonded, SameTerms
<1>7. \A f \in EscrowIds : escrow'[f] = escrow[f] /\ Still(f)
  BY <1>1 DEF recordVars, ghostVars, Still
<1>8. Appeals(e)
  BY <1>1, <1>2, <1>7 DEF Appeals, SameFigures
<1>9. \A f \in EscrowIds \ {e} : Kept(f)
  BY <1>2, <1>7, LeftAlone
<1>10. Slack' = Slack + (Bonded(e)' - Bonded(e))
  BY <1>3, <1>5, <1>6
<1> QED
  BY <1>4, <1>8, <1>9, <1>10 DEF Calls, OneMoves, Moves

LEMMA FinalizeAppealEffect ==
  ASSUME TypeOK, RulingTypes, NEW e \in EscrowIds, NEW side \in Sides,
         FinalizeDisputeAppeal(e, side)
  PROVE  Calls(e)
<1> DEFINE a == escrow[e].amount
           b == appeal[e].bond
<1>1. /\ escrow[e].status \in Statuses /\ appeal[e].status = "Appealed"
      /\ appeal' = [appeal EXCEPT ![e].status = "Finalized"]
      /\ Store(e, [escrow[e] EXCEPT !.status = Closing(side)])
      /\ b + a <= vault /\ vault' = vault - b - a
      /\ toSeller' = [toSeller EXCEPT ![e] = @ + IF side = "seller" THEN a ELSE 0]
      /\ toBuyer' = [toBuyer EXCEPT ![e] = @ + IF side = "buyer" THEN a ELSE 0]
      /\ UNCHANGED <<ledger, lockout, otherRecordVars, deposited, bounties>>
  BY DEF FinalizeDisputeAppeal, HasRecord
<1>2. a \in Nat /\ b \in Nat /\ vault \in Nat /\ toSeller[e] \in Nat /\ toBuyer[e] \in Nat
  BY BondTypes, FieldTypes, OrderTypes
<1>3. /\ appeal'[e].status = "Finalized" /\ SameTerms(e)
      /\ \A f \in EscrowIds \ {e} : appeal'[f] = appeal[f]
  BY <1>1, BondTypes DEF RulingTypes, Appeal, SameTerms
<1>4. /\ escrow' \in [EscrowIds -> EscrowRecord]
      /\ SameFigures(e) /\ escrow'[e].status = Closing(side)
      /\ \A f \in EscrowIds \ {e} : escrow'[f] = escrow[f]
  BY <1>1, ClosingType, StatusStored
<1> HIDE DEF a, b
<1>5. /\ toSeller' \in [EscrowIds -> Nat] /\ toBuyer' \in [EscrowIds -> Nat]
      /\ toSeller'[e] = toSeller[e] + (IF side = "seller" THEN a ELSE 0)
      /\ toBuyer'[e] = toBuyer[e] + (IF side = "buyer" THEN a ELSE 0)
      /\ \A f \in EscrowIds \ {e} : Still(f)
  <2>1. toSeller \in [EscrowIds -> Nat] /\ toBuyer \in [EscrowIds -> Nat]
    BY DEF TypeOK
  <2>2. /\ toSeller' \in [EscrowIds -> Nat]
        /\ toSeller'[e] = toSeller[e] + (IF side = "seller" THEN a ELSE 0)
        /\ \A f \in EscrowIds \ {e} : toSeller'[f] = toSeller[f]
    BY <1>1, <1>2, <2>1
  <2>3. /\ toBuyer' \in [EscrowIds -> Nat]
        /\ toBuyer'[e] = toBuyer[e] + (IF side = "buyer" THEN a ELSE 0)
        /\ \A f \in EscrowIds \ {e} : toBuyer'[f] = toBuyer[f]
    BY <1>1, <1>2, <2>1
  <2> QED
    BY <1>1, <2>2, <2>3 DEF Still
<1>6. Paid(e)' = Paid(e) + a
  <2>1. CASE side = "seller"
    BY <1>2, <1>5, <2>1 DEF Paid
  <2>2. CASE side = "buyer"
    BY <1>2, <1>5, <2>2 DEF Paid
  <2> QED
    BY <2>1, <2>2 DEF Sides
<1>7. vault' \in Nat /\ vault' = vault - a + (0 - b)
  BY <1>1, <1>2
<1>8. TypeOK'
  BY <1>1, <1>4, <1>5, <1>7 DEF TypeOK, otherRecordVars
<1>9. Slack' = Slack + (0 - b)
  BY <1>1, <1>2, <1>5, <1>6, <1>7, <1>8, PaidFlow
<1>10. Bonded(e) = b /\ Bonded(e)' = 0
  BY <1>1, <1>3 DEF Bonded, b
<1>11. Slack' = Slack + (Bonded(e)' - Bonded(e))
  BY <1>2, <1>9, <1>10
<1>12. Settles(e)
  BY <1>1, <1>3, <1>4, <1>6, ClosingType DEF Settles, a
<1>13. \A f \in EscrowIds \ {e} : Kept(f)
  BY <1>3, <1>4, <1>5, LeftAlone
<1> QED
  BY <1>8, <1>11, <1>12, <1>13 DEF Calls, OneMoves, Moves

LEMMA FinalizeUncontestedEffect ==
  ASSUME TypeOK, RulingTypes, NEW e \in EscrowIds, FinalizeUncontestedRuling(e)
  PROVE  Calls(e)
<1>1. /\ escrow[e].status \in Statuses /\ appeal[e].status = "Pending"
      /\ ledger > appeal[e].deadline
      /\ appeal' = [appeal EXCEPT ![e].status = "Finalized"]
      /\ Store(e, [escrow[e] EXCEPT !.status = Closing(appeal[e].winner)])
      /\ Pay(e, appeal[e].winner, escrow[e].amount)
      /\ UNCHANGED <<ledger, lockout, otherRecordVars>>
  BY DEF FinalizeUncontestedRuling, HasRecord
<1>2. /\ appeal'[e].status = "Finalized" /\ SameTerms(e)
      /\ \A f \in EscrowIds \ {e} : appeal'[f] = appeal[f]
  BY <1>1, BondTypes DEF RulingTypes, Appeal, SameTerms
<1>3. appeal[e].winner \in Sides
  BY BondTypes
<1>4. /\ TypeOK' /\ Slack' = Slack
      /\ SameFigures(e) /\ escrow'[e].status = Closing(appeal[e].winner)
      /\ Paid(e)' = Paid(e) + escrow[e].amount
      /\ \A f \in EscrowIds \ {e} : escrow'[f] = escrow[f] /\ Still(f)
  BY <1>1, <1>3, ClosingType, FieldTypes, RulingCall
<1>5. Settles(e)
  BY <1>1, <1>2, <1>3, <1>4, ClosingType DEF Settles
<1>6. \A f \in EscrowIds \ {e} : Kept(f)
  BY <1>2, <1>4, LeftAlone
<1>7. Bonded(e)' = Bonded(e)
  BY <1>1, <1>2 DEF Bonded
<1> QED
  BY <1>4, <1>5, <1>6, <1>7, CallWithoutBond DEF OneMoves, Moves

(* A payment of an admin's settlement, which the record is updated for. *)
LEMMA SettlementCall ==
  ASSUME TypeOK, RulingTypes, NEW e \in EscrowIds, escrow[e].status = "Disputed",
         NEW record \in EscrowRecord, Store(e, record), record.amount = escrow[e].amount,
         NEW m \in Nat, NEW n \in Nat, PayBoth(e, m, n),
         Booked(record) = Booked(escrow[e]) + (m + n),
         Booked(escrow[e]) + (m + n) <= escrow[e].amount,
         record.status \in IF Booked(escrow[e]) + (m + n) = escrow[e].amount
                           THEN {"Released", "Refunded"} ELSE {"Disputed"},
         record.status \in Terminal \/ settled'[e] # settled[e],
         UNCHANGED <<ledger, lockout, otherRecordVars, appeal>>
  PROVE  Calls(e)
<1> DEFINE p == m + n
<1>1. p \in Nat
  OBVIOUS
<1>2. /\ vault' \in Nat
      /\ toSeller' \in [EscrowIds -> Nat] /\ toBuyer' \in [EscrowIds -> Nat]
      /\ UNCHANGED <<deposited, bounties>>
      /\ vault' = vault - p /\ Paid(e)' = Paid(e) + p
      /\ \A f \in EscrowIds \ {e} : Still(f)
  BY PayBothEffect
<1>3. /\ Booked(record) = Booked(escrow[e]) + p /\ Booked(escrow[e]) + p <= escrow[e].amount
      /\ record.status \in IF Booked(escrow[e]) + p = escrow[e].amount
                           THEN {"Released", "Refunded"} ELSE {"Disputed"}
  OBVIOUS
<1> HIDE DEF p
<1>4. TypeOK' /\ Slack' = Slack
  BY <1>1, <1>2, BookedCall
<1>5. /\ escrow'[e].status = record.status /\ escrow'[e].amount = record.amount
      /\ escrow'[e].released = record.released /\ escrow'[e].refunded = record.refunded
      /\ \A f \in EscrowIds \ {e} : escrow'[f] = escrow[f]
  BY RecordStored
<1>6. Booked(escrow'[e]) = Booked(record)
  BY <1>5 DEF Booked
<1>7. Pays(e)
  BY <1>1, <1>2, <1>3, <1>5, <1>6 DEF Pays
<1>8. \A f \in EscrowIds \ {e} : Kept(f)
  BY <1>2, <1>5, LeftAlone
<1>9. Bonded(e)' = Bonded(e)
  BY DEF Bonded
<1> QED
  BY <1>4, <1>7, <1>8, <1>9, CallWithoutBond DEF OneMoves, Moves

LEMMA SplitEffect ==
  ASSUME TypeOK, RulingTypes, NEW e \in EscrowIds, NEW forBuyer \in 0..escrow[e].amount,
         ResolveDisputeSplit(e, forBuyer)
  PROVE  Calls(e)
<1> DEFINE r == escrow[e]
           forSeller == r.amount - forBuyer
           status == IF forSeller = 0 THEN "Refunded" ELSE "Released"
           record == [r EXCEPT !.refunded = forBuyer, !.released = forSeller,
                               !.status = status]
<1>1. /\ r.amount \in Nat /\ forBuyer \in Nat /\ forSeller \in Nat
      /\ forSeller + forBuyer = r.amount
  BY FieldTypes
<1>2. /\ r.status = "Disputed" /\ r.released = 0 /\ r.refunded = 0
      /\ Store(e, record) /\ PayBoth(e, forSeller, forBuyer)
      /\ UNCHANGED <<ledger, lockout, otherRecordVars, appeal>>
  BY DEF ResolveDisputeSplit, rulingVars
<1>3. status \in {"Released", "Refunded"} /\ status \in Statuses
  BY DEF Statuses
<1> HIDE DEF status, forSeller
<1>4. /\ record \in EscrowRecord
      /\ record.status = status /\ record.amount = r.amount
      /\ record.released = forSeller /\ record.refunded = forBuyer
  BY <1>1, <1>3, OrderTypes DEF EscrowRecord
<1> HIDE DEF record
<1>5. /\ Booked(r) = 0 /\ Booked(record) = Booked(r) + (forSeller + forBuyer)
      /\ Booked(r) + (forSeller + forBuyer) = r.amount
  BY <1>1, <1>2, <1>4 DEF Booked
<1>6. record.status \in Terminal
  BY <1>3, <1>4 DEF Terminal
<1> QED
  BY <1>1, <1>2, <1>3, <1>4, <1>5, <1>6, SettlementCall

LEMMA SubItemEffect ==
  ASSUME TypeOK, RulingTypes, NEW e \in EscrowIds, NEW i \in DOMAIN items[e],
         NEW forBuyer \in 0..items[e][i], ResolveSubItem(e, i, forBuyer)
  PROVE  Calls(e)
<1> DEFINE r == escrow[e]
           n == items[e][i]
           forSeller == n - forBuyer
           closed == Remaining(r) = n
           refunded == r.refunded + forBuyer
           released == r.released + forSeller
           status == IF ~closed THEN r.status
                     ELSE IF released = 0 THEN "Refunded" ELSE "Released"
           record == [r EXCEPT !.refunded = refunded, !.released = released,
                               !.status = status]
<1>1. n \in Nat
  <2>1. items[e] \in Seq(Nat \ {0})
    BY DEF RulingTypes
  <2> QED
    BY <2>1, ElementOfSeq
<1>2. /\ r.amount \in Nat /\ r.released \in Nat /\ r.refunded \in Nat
  BY FieldTypes
<1>3. /\ forBuyer \in Nat /\ forSeller \in Nat /\ forSeller + forBuyer = n
      /\ refunded \in Nat /\ released \in Nat
      /\ released + refunded = Booked(r) + n
  BY <1>1, <1>2 DEF Booked
<1>4. /\ r.status = "Disputed" /\ n <= Remaining(r)
      /\ i \notin settled[e] /\ settled' = [settled EXCEPT ![e] = @ \cup {i}]
      /\ Store(e, record) /\ PayBoth(e, forSeller, forBuyer)
      /\ UNCHANGED <<ledger, lockout, otherRecordVars, appeal>>
  BY DEF ResolveSubItem
<1>5. /\ Booked(r) + n <= r.amount
      /\ closed <=> Booked(r) + n = r.amount
  BY <1>1, <1>2, <1>4 DEF Booked, Remaining
<1>6. /\ status \in IF Booked(r) + n = r.amount THEN {"Released", "Refunded"} ELSE {"Disputed"}
      /\ status \in Statuses
  BY <1>4, <1>5 DEF Statuses
<1> HIDE DEF status, refunded, released, forSeller, n
<1>7. /\ record \in EscrowRecord
      /\ record.status = status /\ record.amount = r.amount
      /\ record.released = released /\ record.refunded = refunded
  BY <1>3, <1>6, OrderTypes DEF EscrowRecord
<1> HIDE DEF record
<1>8. Booked(record) = Booked(r) + (forSeller + forBuyer)
  BY <1>3, <1>7 DEF Booked
<1>9. settled'[e] # settled[e]
  BY <1>4 DEF RulingTypes
<1> QED
  BY <1>3, <1>4, <1>5, <1>6, <1>7, <1>8, <1>9, SettlementCall

LEMMA RulingStepEffect ==
  ASSUME TypeOK, RulingTypes, DisputeBooks, NEW e \in EscrowIds, RulingStep(e)
  PROVE  Calls(e) /\ penalties' = penalties
<1>1. ASSUME NEW parts \in Itemisations, SetSubOrderItems(e, parts)
      PROVE  Calls(e)
  <2>1. UNCHANGED coreVars /\ appeal' = appeal
    BY <1>1 DEF SetSubOrderItems
  <2>2. TypeOK'
    BY <2>1, StepType
  <2>3. Bonded(e)' = Bonded(e)
    BY <2>1 DEF Bonded
  <2>4. Slack' = Slack /\ OneMoves(e)
    BY <2>1, NoFlow, NothingMoves DEF coreVars, recordVars, OneMoves, Moves
  <2> QED
    BY <2>2, <2>3, <2>4, CallWithoutBond
<1>2. Calls(e)
  BY <1>1, DisputeEffect, ResolveDisputeEffect, FileAppealEffect, FinalizeAppealEffect,
     FinalizeUncontestedEffect, SplitEffect, SubItemEffect DEF RulingStep
<1>3. penalties' = penalties
  BY DEF RulingStep, Dispute, ResolveDispute, FileDisputeAppeal, FinalizeDisputeAppeal,
     FinalizeUncontestedRuling, ResolveDisputeSplit, SetSubOrderItems, ResolveSubItem, panelVars
<1> QED
  BY <1>2, <1>3

-----------------------------------------------------------------------------
(* The core's calls in this larger state. *)

LEMMA CoreCallTypes ==
  ASSUME TypeOK, NEW e \in EscrowIds, OpenStep(e) \/ PayStep(e) \/ UpkeepStep(e), appeal' = appeal
  PROVE  TypeOK' /\ Slack' = Slack /\ OneMoves(e)
<1>1. TypeOK'
  BY OpenStepType, PayStepType, UpkeepStepType
<1> QED
  BY <1>1, OpenStepFlow, PayStepFlow, UpkeepStepFlow, OpenStepMoves, PayStepMoves, UpkeepStepMoves

LEMMA CoreCalls ==
  ASSUME TypeOK, NEW e \in EscrowIds,
         \/ CoreStep(e)
         \/ \E caller \in Callers, x \in 1..vault : GuardedRelease(e, caller, x)
         \/ ArchiveWithVotes(e)
  PROVE  /\ TypeOK' /\ Slack' = Slack /\ OneMoves(e)
         /\ appeal' = appeal /\ penalties' = penalties
<1>1. appeal' = appeal /\ penalties' = penalties
  BY DEF CoreStep, GuardedRelease, ArchiveWithVotes, rulingVars, panelVars
<1>2. OpenStep(e) \/ PayStep(e) \/ UpkeepStep(e)
  BY DEF CoreStep, GuardedRelease, ArchiveWithVotes, PayStep, UpkeepStep
<1> QED
  BY <1>1, <1>2, CoreCallTypes

-----------------------------------------------------------------------------
(* The types of what the disputes add to the core. *)

LEMMA InspectionTypesStep ==
  ASSUME TypeOK, InspectTypes, NEW e \in EscrowIds, InspectionStep(e)
  PROVE  InspectTypes'
<1>0. /\ ledger \in Nat /\ DefaultInspection \in Nat /\ InspectionTerms \subseteq Nat
  BY DisputeAssumption, OrderTypes
<1>1. ASSUME NEW term \in Nat,
             inspection' = [inspection EXCEPT ![e] =
                              [set |-> TRUE, duration |-> term, auto |-> ledger + term]],
             locked' \in BOOLEAN
      PROVE  InspectTypes'
  <2>1. [set |-> TRUE, duration |-> term, auto |-> ledger + term] \in InspectionPeriod
    BY <1>0 DEF InspectionPeriod
  <2> QED
    BY <1>1, <2>1 DEF InspectTypes
<1>2. ASSUME NEW term \in InspectionTerms, SetInspectionConfig(e, term)
      PROVE  InspectTypes'
  <2>1. /\ term \in Nat /\ locked' = locked
        /\ inspection' = [inspection EXCEPT ![e] =
                            [set |-> TRUE, duration |-> term, auto |-> ledger + term]]
    BY <1>0, <1>2 DEF SetInspectionConfig
  <2>2. locked' \in BOOLEAN
    BY <2>1 DEF InspectTypes
  <2> QED
    BY <1>1, <2>1, <2>2
<1>3. CASE VerifyDelivery(e)
  <2> DEFINE term == IF inspection[e].set THEN inspection[e].duration ELSE DefaultInspection
  <2>1. inspection[e].duration \in Nat
    BY DEF InspectTypes, InspectionPeriod
  <2>2. term \in Nat
    BY <1>0, <2>1
  <2>3. /\ inspection' = [inspection EXCEPT ![e] =
                            [set |-> TRUE, duration |-> term, auto |-> ledger + term]]
        /\ locked' \in BOOLEAN
    BY <1>3 DEF VerifyDelivery
  <2> HIDE DEF term
  <2> QED
    BY <1>1, <2>2, <2>3
<1>4. CASE ReleaseOnInspectionPassed(e) \/ ClaimInspectionAutoRelease(e)
  BY <1>4, InspectTypesKept
  DEF ReleaseOnInspectionPassed, ClaimInspectionAutoRelease, ReleaseRest
<1> QED
  BY <1>2, <1>3, <1>4 DEF InspectionStep

LEMMA ArbiterTypesStep ==
  ASSUME PanelTypes, NEW e \in EscrowIds, ArbiterStep(e)
  PROVE  PanelTypes'
<1>1. ASSUME NEW a \in Arbiters, NEW side \in Sides, VoteDispute(e, a, side)
      PROVE  PanelTypes'
  <2>1. [arbiter |-> a, side |-> side] \in Vote
    BY DEF Vote
  <2>2. /\ votes' \in [EscrowIds -> SUBSET Vote]
        /\ heard' \in [EscrowIds -> SUBSET Arbiters]
    BY <1>1, <2>1 DEF VoteDispute, PanelTypes
  <2> QED
    BY <1>1, <2>2 DEF VoteDispute, PanelTypes
<1>2. ASSUME NEW a \in Arbiters, NEW by \in Extensions, ExtendTimeoutViaQuorum(e, a, by)
      PROVE  PanelTypes'
  <2> DEFINE asked == extensions[e] \cup {[arbiter |-> a, by |-> by]}
  <2>1. asked \in SUBSET Request
    BY DEF PanelTypes, Request
  <2>2. \E next \in {{}, asked} : extensions' = [extensions EXCEPT ![e] = next]
    BY <1>2 DEF ExtendTimeoutViaQuorum
  <2> HIDE DEF asked
  <2>3. extensions' \in [EscrowIds -> SUBSET Request]
    BY <2>1, <2>2 DEF PanelTypes
  <2> QED
    BY <1>2, <2>3 DEF ExtendTimeoutViaQuorum, PanelTypes
<1>3. ASSUME votes' = [votes EXCEPT ![e] = {}], extensions' = [extensions EXCEPT ![e] = {}],
             UNCHANGED <<panel, stake, penalties, heard>>
      PROVE  PanelTypes'
  BY <1>3 DEF PanelTypes
<1>4. CASE (\E side \in Sides : ResolveDisputeQuorum(e, side)) \/ PruneDisputeVotes(e)
  BY <1>3, <1>4 DEF ResolveDisputeQuorum, PruneDisputeVotes
<1>5. CASE SlashDelinquentArbiters(e)
  <2> DEFINE fine == SumFunction([a \in Delinquent(e) |-> 2 * (stake[a].amount \div 2)])
  <2>1. fine \in Nat /\ penalties' = penalties + fine
    BY <1>5, FineType DEF SlashDelinquentArbiters
  <2> HIDE DEF fine
  <2>2. penalties' \in Nat
    BY <2>1 DEF PanelTypes
  <2>3. [amount |-> 0, slashed |-> TRUE] \in Stake
    BY DEF Stake
  <2>4. stake' \in [Arbiters -> Stake]
    BY <1>5, <2>3 DEF SlashDelinquentArbiters, PanelTypes
  <2> QED
    BY <1>5, <2>2, <2>4 DEF SlashDelinquentArbiters, PanelTypes
<1> QED
  BY <1>1, <1>2, <1>4, <1>5 DEF ArbiterStep

LEMMA RulingTypesStep ==
  ASSUME TypeOK, RulingTypes, NEW e \in EscrowIds, RulingStep(e)
  PROVE  RulingTypes'
<1>0. ledger \in Nat /\ escrow[e].amount \in Nat
  BY OrderTypes, FieldTypes
<1>1. ASSUME NEW a \in Appeal, appeal' = [appeal EXCEPT ![e] = a],
             UNCHANGED <<dueBy, items, settled>>
      PROVE  RulingTypes'
  BY <1>1 DEF RulingTypes
<1>2. CASE Dispute(e)
  <2>1. ledger + ResolutionWindow \in Nat
    BY <1>0, DisputeAssumption
  <2> QED
    BY <1>2, <2>1 DEF Dispute, RulingTypes
<1>3. ASSUME NEW side \in Sides, NEW reading \in Readings, ResolveDispute(e, side, reading)
      PROVE  RulingTypes'
  <2>1. Bond(escrow[e].amount) \in Nat /\ ledger + AppealWindow \in Nat
    BY <1>0, DisputeAssumption DEF Bond
  <2>2. NewAppeal(e, side) \in Appeal
    BY <2>1 DEF NewAppeal, Appeal
  <2> QED
    BY <1>1, <1>3, <2>2 DEF ResolveDispute
<1>4. ASSUME NEW status \in {"Appealed", "Finalized"},
             appeal' = [appeal EXCEPT ![e].status = status], UNCHANGED <<dueBy, items, settled>>
      PROVE  RulingTypes'
  <2>1. [appeal[e] EXCEPT !.status = status] \in Appeal
    BY DEF RulingTypes, Appeal
  <2> QED
    BY <1>1, <1>4, <2>1
<1>5. CASE \/ FileDisputeAppeal(e) \/ FinalizeUncontestedRuling(e)
           \/ \E side \in Sides : FinalizeDisputeAppeal(e, side)
  BY <1>4, <1>5 DEF FileDisputeAppeal, FinalizeUncontestedRuling, FinalizeDisputeAppeal
<1>6. CASE \E forBuyer \in 0..escrow[e].amount : ResolveDisputeSplit(e, forBuyer)
  BY <1>6, RulingTypesKept DEF ResolveDisputeSplit
<1>7. ASSUME NEW parts \in Itemisations, SetSubOrderItems(e, parts)
      PROVE  RulingTypes'
  <2>1. parts \in Seq(Nat \ {0})
    BY DisputeAssumption
  <2> QED
    BY <1>7, <2>1 DEF SetSubOrderItems, RulingTypes
<1>8. ASSUME NEW i \in DOMAIN items[e], NEW forBuyer \in 0..items[e][i],
             ResolveSubItem(e, i, forBuyer)
      PROVE  RulingTypes'
  <2>1. i \in Nat
    <3>1. items[e] \in Seq(Nat \ {0})
      BY DEF RulingTypes
    <3> QED
      BY <3>1
  <2>2. settled' = [settled EXCEPT ![e] = @ \cup {i}] /\ UNCHANGED <<dueBy, appeal, items>>
    BY <1>8 DEF ResolveSubItem
  <2> QED
    BY <2>1, <2>2 DEF RulingTypes
<1> QED
  BY <1>2, <1>3, <1>5, <1>6, <1>7, <1>8 DEF RulingStep

(* The parts each kind of call leaves alone. *)
LEMMA OtherTypesKept ==
  ASSUME NEW e \in EscrowIds
  PROVE  /\ InspectionStep(e) => UNCHANGED <<panelVars, rulingVars>>
         /\ ArbiterStep(e) => UNCHANGED <<inspectVars, rulingVars>>
         /\ RulingStep(e) => UNCHANGED <<inspectVars, panelVars>>
<1>1. InspectionStep(e) => UNCHANGED <<panelVars, rulingVars>>
  BY DEF InspectionStep, SetInspectionConfig, VerifyDelivery, ReleaseOnInspectionPassed,
     ClaimInspectionAutoRelease, ReleaseRest
<1>2. ArbiterStep(e) => UNCHANGED <<inspectVars, rulingVars>>
  BY DEF ArbiterStep, VoteDispute, ExtendTimeoutViaQuorum, ResolveDisputeQuorum,
     SlashDelinquentArbiters, PruneDisputeVotes
<1>3. RulingStep(e) => UNCHANGED <<inspectVars, panelVars>>
  BY DEF RulingStep, Dispute, ResolveDispute, FileDisputeAppeal, FinalizeDisputeAppeal,
     FinalizeUncontestedRuling, ResolveDisputeSplit, SetSubOrderItems, ResolveSubItem
<1> QED
  BY <1>1, <1>2, <1>3

-----------------------------------------------------------------------------
(* The invariant: types and books. *)

DisputeInv == DisputeTypeOK /\ DisputeBooks

LEMMA MovesEverywhere ==
  ASSUME NEW e \in EscrowIds, OneMoves(e)
  PROVE  \A f \in EscrowIds : Moves(f)
  BY DEF OneMoves, Moves

(* A step moves every order as it may, one of them at most if no batch is  *)
(* opened, and keeps the types.                                            *)
LEMMA DisputeStepMoves ==
  ASSUME DisputeInv, [DisputeNext]_disputeVars
  PROVE  DisputeTypeOK' /\ \A f \in EscrowIds : Moves(f)
<1>0. TypeOK /\ InspectTypes /\ PanelTypes /\ RulingTypes /\ DisputeBooks
  BY DEF DisputeInv, DisputeTypeOK
<1>1. ASSUME UNCHANGED <<inspectVars, panelVars, rulingVars>>
      PROVE  InspectTypes' /\ PanelTypes' /\ RulingTypes' /\ appeal' = appeal
  BY <1>0, <1>1, InspectTypesKept, PanelTypesKept, RulingTypesKept DEF rulingVars
<1>2. ASSUME UNCHANGED <<escrow, deposited, toSeller, toBuyer, appeal>>
      PROVE  \A f \in EscrowIds : Moves(f)
  BY <1>2, NothingMoves DEF Moves
<1>3. CASE UNCHANGED disputeVars
  <2>1. UNCHANGED <<coreVars, inspectVars, panelVars, rulingVars>>
    BY <1>3 DEF disputeVars
  <2>2. TypeOK'
    BY <1>0, <2>1, StepType
  <2> QED
    BY <1>1, <1>2, <2>1, <2>2 DEF coreVars, recordVars, DisputeTypeOK
<1>4. CASE /\ CloseLedger \/ \E window \in Lockouts : SetCancelLockout(window)
           /\ UNCHANGED <<inspectVars, panelVars, rulingVars>>
  <2>1. TypeOK'
    BY <1>0, <1>4, StepType DEF CoreNext
  <2>2. UNCHANGED <<escrow, deposited, toSeller, toBuyer>>
    BY <1>4 DEF CloseLedger, SetCancelLockout, recordVars
  <2> QED
    BY <1>1, <1>2, <1>4, <2>1, <2>2 DEF DisputeTypeOK
<1>5. ASSUME NEW batch \in SUBSET EscrowIds, NEW a \in Amounts, NEW term \in Terms,
             BatchCreate(batch, a, term), UNCHANGED <<inspectVars, panelVars, rulingVars>>
      PROVE  DisputeTypeOK' /\ \A f \in EscrowIds : Moves(f)
  <2>1. TypeOK'
    BY <1>0, <1>5, StepType DEF CoreNext
  <2>2. \A f \in EscrowIds : Moves(f)
    BY <1>0, <1>1, <1>5, BatchMovesFresh
  <2> QED
    BY <1>1, <1>5, <2>1, <2>2 DEF DisputeTypeOK
<1>6. ASSUME NEW p \in Panels, SetQuorumConfig(p)
      PROVE  DisputeTypeOK' /\ \A f \in EscrowIds : Moves(f)
  <2>1. UNCHANGED <<coreVars, inspectVars, rulingVars>>
    BY <1>6 DEF SetQuorumConfig
  <2>2. TypeOK' /\ InspectTypes' /\ RulingTypes'
    BY <1>0, <2>1, StepType, InspectTypesKept, RulingTypesKept
  <2>3. PanelTypes'
    BY <1>0, <1>6 DEF SetQuorumConfig, PanelTypes
  <2> QED
    BY <1>2, <2>1, <2>2, <2>3 DEF coreVars, recordVars, rulingVars, DisputeTypeOK
<1>7. ASSUME NEW a \in Arbiters, NEW amount \in Stakes, RegisterArbiter(a, amount)
      PROVE  DisputeTypeOK' /\ \A f \in EscrowIds : Moves(f)
  <2>1. UNCHANGED <<coreVars, inspectVars, rulingVars>>
    BY <1>7 DEF RegisterArbiter
  <2>2. TypeOK' /\ InspectTypes' /\ RulingTypes'
    BY <1>0, <2>1, StepType, InspectTypesKept, RulingTypesKept
  <2>3. [amount |-> amount, slashed |-> FALSE] \in Stake
    BY DisputeAssumption DEF Stake
  <2>4. PanelTypes'
    BY <1>0, <1>7, <2>3 DEF RegisterArbiter, PanelTypes
  <2> QED
    BY <1>2, <2>1, <2>2, <2>4 DEF coreVars, recordVars, rulingVars, DisputeTypeOK
<1>8. ASSUME NEW e \in EscrowIds, CoreStep(e)
      PROVE  DisputeTypeOK' /\ \A f \in EscrowIds : Moves(f)
  <2>1. UNCHANGED <<inspectVars, panelVars, rulingVars>>
    BY <1>8 DEF CoreStep
  <2>2. TypeOK' /\ OneMoves(e)
    BY <1>0, <1>8, CoreCalls
  <2> QED
    BY <1>1, <2>1, <2>2, MovesEverywhere DEF DisputeTypeOK
<1>9. ASSUME NEW e \in EscrowIds, NEW caller \in Callers, NEW x \in 1..vault,
             GuardedRelease(e, caller, x)
      PROVE  DisputeTypeOK' /\ \A f \in EscrowIds : Moves(f)
  <2>1. UNCHANGED <<inspectVars, panelVars, rulingVars>>
    BY <1>9 DEF GuardedRelease
  <2>2. TypeOK' /\ OneMoves(e)
    BY <1>0, <1>9, CoreCalls
  <2> QED
    BY <1>1, <2>1, <2>2, MovesEverywhere DEF DisputeTypeOK
<1>10. ASSUME NEW e \in EscrowIds, ArchiveWithVotes(e)
       PROVE  DisputeTypeOK' /\ \A f \in EscrowIds : Moves(f)
  <2>1. UNCHANGED <<inspectVars, rulingVars>>
    BY <1>10 DEF ArchiveWithVotes
  <2>2. PanelTypes'
    BY <1>0, <1>10 DEF ArchiveWithVotes, PanelTypes
  <2>3. TypeOK' /\ OneMoves(e)
    BY <1>0, <1>10, CoreCalls
  <2> QED
    BY <1>0, <2>1, <2>2, <2>3, InspectTypesKept, RulingTypesKept, MovesEverywhere
    DEF DisputeTypeOK
<1>11. ASSUME NEW e \in EscrowIds, InspectionStep(e)
       PROVE  DisputeTypeOK' /\ \A f \in EscrowIds : Moves(f)
  <2>1. TypeOK' /\ OneMoves(e) /\ InspectTypes'
    BY <1>0, <1>11, InspectionStepEffect, InspectionTypesStep
  <2> QED
    BY <1>0, <1>11, <2>1, OtherTypesKept, PanelTypesKept, RulingTypesKept, MovesEverywhere
    DEF DisputeTypeOK
<1>12. ASSUME NEW e \in EscrowIds, ArbiterStep(e)
       PROVE  DisputeTypeOK' /\ \A f \in EscrowIds : Moves(f)
  <2>1. TypeOK' /\ OneMoves(e) /\ PanelTypes'
    BY <1>0, <1>12, ArbiterStepEffect, ArbiterTypesStep
  <2> QED
    BY <1>0, <1>12, <2>1, OtherTypesKept, InspectTypesKept, RulingTypesKept, MovesEverywhere
    DEF DisputeTypeOK
<1>13. ASSUME NEW e \in EscrowIds, RulingStep(e)
       PROVE  DisputeTypeOK' /\ \A f \in EscrowIds : Moves(f)
  <2>1. TypeOK' /\ OneMoves(e) /\ RulingTypes'
    BY <1>0, <1>13, RulingStepEffect, RulingTypesStep DEF Calls
  <2> QED
    BY <1>0, <1>13, <2>1, OtherTypesKept, InspectTypesKept, PanelTypesKept, MovesEverywhere
    DEF DisputeTypeOK
<1> QED
  BY <1>3, <1>4, <1>5, <1>6, <1>7, <1>8, <1>9, <1>10, <1>11, <1>12, <1>13 DEF DisputeNext

(* The books are right in the initial state, and every move keeps them. *)
LEMMA DisputeInitInv == DisputeInit => DisputeInv
<1> SUFFICES ASSUME DisputeInit, NEW e \in EscrowIds
             PROVE  Books(escrow[e], deposited[e], Paid(e), appeal[e].status)
  BY DisputeInitType DEF DisputeInv, DisputeBooks
<1>1. /\ escrow[e].status = "Unused" /\ deposited[e] = 0 /\ Paid(e) = 0
      /\ appeal[e].status = "None"
  BY DEF DisputeInit, CoreInit, Blank, NoAppeal, Paid
<1> QED
  BY <1>1 DEF Books, Open

LEMMA DisputeStepInv == DisputeInv /\ [DisputeNext]_disputeVars => DisputeInv'
<1> SUFFICES ASSUME DisputeInv, [DisputeNext]_disputeVars
             PROVE  DisputeInv'
  OBVIOUS
<1>1. DisputeTypeOK' /\ \A f \in EscrowIds : Moves(f)
  BY DisputeStepMoves
<1>2. TypeOK /\ TypeOK'
  BY <1>1 DEF DisputeInv, DisputeTypeOK
<1>3. ASSUME NEW e \in EscrowIds
      PROVE  Books(escrow[e], deposited[e], Paid(e), appeal[e].status)'
  BY <1>1, <1>2, MoveKeepsBooks DEF DisputeInv, DisputeBooks
<1> QED
  BY <1>1, <1>3 DEF DisputeInv, DisputeBooks

THEOREM DisputeInvariant == DisputeSpec => []DisputeInv
<1> QED
  BY DisputeInitInv, DisputeStepInv, PTL DEF DisputeSpec

(* The storage of disputes, panels and rulings keeps its types. *)
THEOREM DisputeTypes == DisputeSpec => []DisputeTypeOK
<1>1. DisputeInv => DisputeTypeOK
  BY DEF DisputeInv
<1> QED
  BY <1>1, DisputeInvariant, PTL

(* Beyond what its record accounts for, an order pays nothing until it is  *)
(* ruled on, then the principal, and once more only when a ruling that had *)
(* paid is carried out for lack of an appeal.                              *)
THEOREM DisputeRulingsPayThePrincipal == DisputeSpec => []RulingsPayThePrincipal
<1>1. DisputeInv => RulingsPayThePrincipal
  <2> SUFFICES ASSUME DisputeInv, NEW e \in EscrowIds, HasRecord(e)
               PROVE  LET beyond == toSeller[e] + toBuyer[e] - escrow[e].released - escrow[e].refunded
                      IN  /\ Remaining(escrow[e]) >= 0
                          /\ ~Ruled(e) => beyond = 0
                          /\ Ruled(e) => \/ beyond = escrow[e].amount
                                         \/ beyond = 2 * escrow[e].amount
                                            /\ appeal[e].status = "Finalized"
    BY DEF RulingsPayThePrincipal
  <2> DEFINE r == escrow[e]
             beyond == toSeller[e] + toBuyer[e] - r.released - r.refunded
  <2>1. Books(r, deposited[e], Paid(e), appeal[e].status) /\ TypeOK
    BY DEF DisputeInv, DisputeTypeOK, DisputeBooks
  <2>2. /\ r.amount \in Nat /\ Booked(r) \in Nat /\ Paid(e) \in Nat
        /\ Remaining(r) = r.amount - Booked(r)
    BY <2>1, BookTypes
  <2>3. beyond = Paid(e) - Booked(r)
    <3>1. /\ r.released \in Nat /\ r.refunded \in Nat
          /\ toSeller[e] \in Nat /\ toBuyer[e] \in Nat
      BY <2>1, OrderTypes, FieldTypes
    <3> QED
      BY <3>1 DEF Paid, Booked
  <2>4. r.status \in Statuses
    BY DEF HasRecord
  <2> HIDE DEF r, beyond
  <2>5. /\ Remaining(r) >= 0
        /\ r.status \notin {"Released", "Refunded"} \/ Remaining(r) <= 0 => beyond = 0
        /\ r.status \in {"Released", "Refunded"} /\ Remaining(r) > 0 =>
             \/ beyond = r.amount
             \/ beyond = 2 * r.amount /\ appeal[e].status = "Finalized"
    <3>1. CASE r.status \in {"Created", "Cancelled"}
      BY <2>1, <2>2, <2>3, <3>1 DEF Books
    <3>2. CASE r.status \in Open
      BY <2>1, <2>2, <2>3, <3>2 DEF Books, Open
    <3>3. CASE r.status \in {"Released", "Refunded"}
      BY <2>1, <2>2, <2>3, <3>3 DEF Books
    <3>4. r.status \in {"Created", "Cancelled"} \/ r.status \in Open
          \/ r.status \in {"Released", "Refunded"}
      BY <2>4 DEF Statuses, Open
    <3> QED
      BY <3>1, <3>2, <3>3, <3>4, Zenon
  <2>6. Ruled(e) <=> r.status \in {"Released", "Refunded"} /\ Remaining(r) > 0
    BY DEF Ruled, r
  <2> QED
    BY <2>2, <2>5, <2>6 DEF r, beyond
<1> QED
  BY <1>1, DisputeInvariant, PTL

-----------------------------------------------------------------------------
(* Action properties, from the moves. *)

(* The money of a disputed order moves only by being settled: no release,  *)
(* refund, milestone or keeper call reaches it.                            *)
THEOREM DisputesHoldMoney == DisputeSpec => DisputeHoldsMoney
<1>1. DisputeInv /\ [DisputeNext]_disputeVars =>
        [\A e \in EscrowIds :
           escrow[e].status \in {"Disputed", "InitialRuling"}
             /\ <<toSeller[e], toBuyer[e]>>' # <<toSeller[e], toBuyer[e]>>
           => escrow'[e].status \in Terminal \/ settled'[e] # settled[e]]_disputeVars
  <2> SUFFICES ASSUME DisputeInv, [DisputeNext]_disputeVars, NEW e \in EscrowIds,
                      escrow[e].status \in {"Disputed", "InitialRuling"},
                      ~(toSeller'[e] = toSeller[e] /\ toBuyer'[e] = toBuyer[e])
               PROVE  escrow'[e].status \in Terminal \/ settled'[e] # settled[e]
    OBVIOUS
  <2>1. Moves(e)
    BY DisputeStepMoves
  <2>2. ~Kept(e) /\ ~GivesUp(e) /\ ~Turns(e) /\ ~Rules(e) /\ ~Appeals(e) /\ ~Shelves(e)
    BY DEF Kept, GivesUp, Turns, Rules, Appeals, Shelves, Still
  <2>3. ~Begins(e) /\ ~Funds(e)
    BY DEF Begins, Funds
  <2>4. Pays(e) \/ Closes(e) \/ Settles(e)
    BY <2>1, <2>2, <2>3 DEF Moves
  <2>5. CASE Pays(e) /\ escrow[e].status = "Disputed"
    BY <2>5 DEF Pays
  <2>6. CASE Closes(e) \/ Settles(e)
    BY <2>6 DEF Closes, Settles, Terminal
  <2> QED
    BY <2>4, <2>5, <2>6 DEF Pays
<1> QED
  BY <1>1, DisputeInvariant, PTL DEF DisputeSpec, DisputeHoldsMoney

(* A ruling that can be appealed keeps its winner, its bond and its        *)
(* deadline, and takes effect through the council once appealed, or for    *)
(* its winner once the window is over.                                     *)
THEOREM DisputeRulingIsFrozen == DisputeSpec => RulingIsFrozen
<1>1. DisputeInv /\ [DisputeNext]_disputeVars =>
        [\A e \in EscrowIds : escrow[e].status = "InitialRuling" =>
           LET now == appeal[e]  next == appeal'[e]
           IN  /\ <<next.winner, next.bond, next.deadline>>
                    = <<now.winner, now.bond, now.deadline>>
               /\ escrow'[e].status # "InitialRuling" =>
                    \/ now.status = "Appealed"
                    \/ ledger > now.deadline
                       /\ escrow'[e].status = Closing(now.winner)]_disputeVars
  <2> SUFFICES ASSUME DisputeInv, [DisputeNext]_disputeVars, NEW e \in EscrowIds,
                      escrow[e].status = "InitialRuling"
               PROVE  /\ SameTerms(e)
                      /\ escrow'[e].status # "InitialRuling" =>
                           \/ appeal[e].status = "Appealed"
                           \/ ledger > appeal[e].deadline
                              /\ escrow'[e].status = Closing(appeal[e].winner)
    BY DEF SameTerms
  <2>1. Moves(e)
    BY DisputeStepMoves
  <2>2. ~Begins(e) /\ ~Funds(e) /\ ~GivesUp(e) /\ ~Turns(e) /\ ~Pays(e)
        /\ ~Rules(e) /\ ~Closes(e) /\ ~Shelves(e)
    BY DEF Begins, Funds, GivesUp, Turns, Pays, Rules, Closes, Shelves, Terminal
  <2>3. CASE Kept(e)
    BY <2>3 DEF Kept, SameTerms
  <2>4. CASE Appeals(e)
    BY <2>4 DEF Appeals
  <2>5. CASE Settles(e)
    BY <2>5 DEF Settles
  <2> QED
    BY <2>1, <2>2, <2>3, <2>4, <2>5 DEF Moves
<1> QED
  BY <1>1, DisputeInvariant, PTL DEF DisputeSpec, RulingIsFrozen

-----------------------------------------------------------------------------
(***************************************************************************)
(* The votes.  An arbiter has one vote in a dispute; and as long as the    *)
(* order has a record that is not terminal, whoever was heard is in the    *)
(* vote list.  The list may be emptied only when the order is terminal or  *)
(* gone, and no order comes back from there, which is why the second part  *)
(* speaks of the orders that were never opened as well.                    *)
(***************************************************************************)

OneVote(e) == \A v, w \in votes[e] : v.arbiter = w.arbiter => v = w

Voters(e) == {v.arbiter : v \in votes[e]}

Ended == Terminal \cup {"Archived"}

VotesInv ==
  \A e \in EscrowIds : OneVote(e) /\ (escrow[e].status \notin Ended => heard[e] \subseteq Voters(e))

(* No move leads back from the end of an order. *)
LEMMA EndIsTheEnd ==
  ASSUME NEW f \in EscrowIds, Moves(f), escrow'[f].status \notin Ended
  PROVE  escrow[f].status \notin Ended
  BY DEF Moves, Kept, Begins, Funds, GivesUp, Turns, Pays, Rules, Closes, Appeals, Settles,
     Shelves, Ended, Terminal

(* The panel's business in an order leaves the votes in the others. *)
LEMMA VotesKept ==
  ASSUME DisputeInv, [DisputeNext]_disputeVars, VotesInv, NEW f \in EscrowIds,
         votes'[f] = votes[f], heard'[f] = heard[f]
  PROVE  /\ OneVote(f)'
         /\ escrow'[f].status \notin Ended => heard'[f] \subseteq Voters(f)'
<1>1. escrow'[f].status \notin Ended => escrow[f].status \notin Ended
  BY DisputeStepMoves, EndIsTheEnd
<1>2. Voters(f)' = Voters(f)
  BY DEF Voters
<1> QED
  BY <1>1, <1>2 DEF VotesInv, OneVote

(* An emptied list. *)
LEMMA VotesDropped ==
  ASSUME NEW e \in EscrowIds, votes'[e] = {}, escrow'[e].status \in Ended
  PROVE  /\ OneVote(e)'
         /\ escrow'[e].status \notin Ended => heard'[e] \subseteq Voters(e)'
  BY DEF OneVote

LEMMA VoteCast ==
  ASSUME DisputeInv, VotesInv, NEW e \in EscrowIds, NEW a \in Arbiters, NEW side \in Sides,
         VoteDispute(e, a, side)
  PROVE  OneVote(e)' /\ heard'[e] \subseteq Voters(e)'
<1> DEFINE new == [arbiter |-> a, side |-> side]
<1>1. /\ escrow[e].status = "Disputed"
      /\ \A v \in votes[e] : v.arbiter # a
      /\ votes'[e] = votes[e] \cup {new}
      /\ heard'[e] = heard[e] \cup {a}
  BY DEF VoteDispute, DisputeInv, DisputeTypeOK, PanelTypes
<1>2. new.arbiter = a
  OBVIOUS
<1> HIDE DEF new
<1>3. OneVote(e)'
  BY <1>1, <1>2 DEF OneVote, VotesInv
<1>4. heard[e] \subseteq Voters(e)
  BY <1>1 DEF VotesInv, Ended, Terminal
<1>5. Voters(e)' = Voters(e) \cup {a}
  BY <1>1, <1>2 DEF Voters
<1> QED
  BY <1>1, <1>3, <1>4, <1>5

(* Who touches the votes: a vote, and three calls that drop the list. *)
LEMMA VotesTouched ==
  ASSUME DisputeInv, [DisputeNext]_disputeVars
  PROVE  \/ UNCHANGED <<votes, heard>>
         \/ \E e \in EscrowIds, a \in Arbiters, side \in Sides : VoteDispute(e, a, side)
         \/ \E e \in EscrowIds :
              /\ votes' = [votes EXCEPT ![e] = {}] /\ heard' = heard
              /\ escrow'[e].status \in Ended
<1> DEFINE Dropped(e) == /\ votes' = [votes EXCEPT ![e] = {}] /\ heard' = heard
                         /\ escrow'[e].status \in Ended
<1>0. TypeOK
  BY DEF DisputeInv, DisputeTypeOK
<1>1. CASE UNCHANGED disputeVars \/ UNCHANGED <<inspectVars, panelVars, rulingVars>>
  BY <1>1 DEF disputeVars, panelVars
<1>2. CASE \/ \E p \in Panels : SetQuorumConfig(p)
           \/ \E a \in Arbiters, amount \in Stakes : RegisterArbiter(a, amount)
  BY <1>2 DEF SetQuorumConfig, RegisterArbiter
<1>3. ASSUME NEW e \in EscrowIds, InspectionStep(e) \/ RulingStep(e)
      PROVE  UNCHANGED <<votes, heard>>
  BY <1>3, OtherTypesKept DEF panelVars
<1>4. ASSUME NEW e \in EscrowIds, ArchiveWithVotes(e)
      PROVE  Dropped(e)
  <2>1. escrow'[e].status = "Archived"
    BY <1>0, <1>4 DEF ArchiveWithVotes, Archive, Blank, TypeOK
  <2> QED
    BY <1>4, <2>1 DEF ArchiveWithVotes, Ended
<1>5. ASSUME NEW e \in EscrowIds, NEW side \in Sides, ResolveDisputeQuorum(e, side)
      PROVE  Dropped(e)
  <2>1. escrow'[e].status = Closing(side)
    BY <1>0, <1>5, ClosingType, StatusStored DEF ResolveDisputeQuorum
  <2> QED
    BY <1>5, <2>1, ClosingType DEF ResolveDisputeQuorum, Ended, Terminal
<1>6. ASSUME NEW e \in EscrowIds, PruneDisputeVotes(e)
      PROVE  Dropped(e)
  BY <1>6 DEF PruneDisputeVotes, coreVars, recordVars, Ended
<1>7. ASSUME NEW e \in EscrowIds, SlashDelinquentArbiters(e)
      PROVE  UNCHANGED <<votes, heard>>
  BY <1>7 DEF SlashDelinquentArbiters
<1>8. ASSUME NEW e \in EscrowIds, NEW a \in Arbiters, NEW by \in Extensions,
             ExtendTimeoutViaQuorum(e, a, by)
      PROVE  UNCHANGED <<votes, heard>>
  BY <1>8 DEF ExtendTimeoutViaQuorum
<1>9. ASSUME NEW e \in EscrowIds, ArbiterStep(e)
      PROVE  \/ UNCHANGED <<votes, heard>>
             \/ \E a \in Arbiters, side \in Sides : VoteDispute(e, a, side)
             \/ Dropped(e)
  BY <1>5, <1>6, <1>7, <1>8, <1>9 DEF ArbiterStep
<1>10. ASSUME NEW e \in EscrowIds,
              CoreStep(e) \/ \E caller \in Callers, x \in 1..vault : GuardedRelease(e, caller, x)
       PROVE  UNCHANGED <<inspectVars, panelVars, rulingVars>>
  BY <1>10 DEF CoreStep, GuardedRelease
<1> QED
  BY <1>1, <1>2, <1>3, <1>4, <1>9, <1>10 DEF DisputeNext

LEMMA VotesStep ==
  DisputeInv /\ VotesInv /\ [DisputeNext]_disputeVars => VotesInv'
<1> SUFFICES ASSUME DisputeInv, VotesInv, [DisputeNext]_disputeVars, NEW f \in EscrowIds
             PROVE  /\ OneVote(f)'
                    /\ escrow'[f].status \notin Ended => heard'[f] \subseteq Voters(f)'
  BY DEF VotesInv
<1>0. votes \in [EscrowIds -> SUBSET Vote] /\ heard \in [EscrowIds -> SUBSET Arbiters]
  BY DEF DisputeInv, DisputeTypeOK, PanelTypes
<1>1. CASE UNCHANGED <<votes, heard>>
  BY <1>1, VotesKept
<1>2. ASSUME NEW e \in EscrowIds, NEW a \in Arbiters, NEW side \in Sides,
             VoteDispute(e, a, side)
      PROVE  /\ OneVote(f)'
             /\ escrow'[f].status \notin Ended => heard'[f] \subseteq Voters(f)'
  <2>1. CASE f = e
    BY <1>2, <2>1, VoteCast
  <2>2. CASE f # e
    <3>1. votes'[f] = votes[f] /\ heard'[f] = heard[f]
      BY <1>0, <1>2, <2>2 DEF VoteDispute
    <3> QED
      BY <3>1, VotesKept
  <2> QED
    BY <2>1, <2>2
<1>3. ASSUME NEW e \in EscrowIds,
             votes' = [votes EXCEPT ![e] = {}], heard' = heard, escrow'[e].status \in Ended
      PROVE  /\ OneVote(f)'
             /\ escrow'[f].status \notin Ended => heard'[f] \subseteq Voters(f)'
  <2>1. CASE f = e
    <3>1. votes'[f] = {}
      BY <1>0, <1>3, <2>1
    <3> QED
      BY <1>3, <2>1, <3>1, VotesDropped
  <2>2. CASE f # e
    <3>1. votes'[f] = votes[f] /\ heard'[f] = heard[f]
      BY <1>0, <1>3, <2>2
    <3> QED
      BY <3>1, VotesKept
  <2> QED
    BY <2>1, <2>2
<1> QED
  BY <1>1, <1>2, <1>3, VotesTouched

THEOREM DisputeVotes == DisputeSpec => [](DisputeInv /\ VotesInv)
<1>1. DisputeInit => VotesInv
  BY DEF DisputeInit, VotesInv, OneVote, Voters
<1> QED
  BY <1>1, DisputeInitInv, DisputeStepInv, VotesStep, PTL DEF DisputeSpec

(* Stakes change by a registration and by the slashing of those who are    *)
(* not in the vote list.                                                   *)
LEMMA StakesTouched ==
  ASSUME [DisputeNext]_disputeVars
  PROVE  \/ stake' = stake
         \/ \E a \in Arbiters, amount \in Stakes : RegisterArbiter(a, amount)
         \/ \E e \in EscrowIds : SlashDelinquentArbiters(e)
<1>1. CASE UNCHANGED disputeVars \/ UNCHANGED <<inspectVars, panelVars, rulingVars>>
  BY <1>1 DEF disputeVars, panelVars
<1>2. CASE \E p \in Panels : SetQuorumConfig(p)
  BY <1>2 DEF SetQuorumConfig
<1>3. ASSUME NEW e \in EscrowIds, InspectionStep(e) \/ RulingStep(e)
      PROVE  stake' = stake
  BY <1>3, OtherTypesKept DEF panelVars
<1>4. ASSUME NEW e \in EscrowIds, ArchiveWithVotes(e)
      PROVE  stake' = stake
  BY <1>4 DEF ArchiveWithVotes
<1>5. ASSUME NEW e \in EscrowIds, ArbiterStep(e)
      PROVE  stake' = stake \/ SlashDelinquentArbiters(e)
  BY <1>5 DEF ArbiterStep, VoteDispute, ExtendTimeoutViaQuorum, ResolveDisputeQuorum,
     PruneDisputeVotes
<1>6. ASSUME NEW e \in EscrowIds,
             CoreStep(e) \/ \E caller \in Callers, x \in 1..vault : GuardedRelease(e, caller, x)
      PROVE  UNCHANGED <<inspectVars, panelVars, rulingVars>>
  BY <1>6 DEF CoreStep, GuardedRelease
<1> QED
  BY <1>1, <1>2, <1>3, <1>4, <1>5, <1>6 DEF DisputeNext

(* An arbiter who spoke in a dispute is not slashed for silence in it      *)
(* while the dispute is open, however the panel changed in between.        *)
THEOREM DisputeOnlySilentAreSlashed == DisputeSpec => OnlySilentAreSlashed
<1>1. DisputeInv /\ VotesInv /\ [DisputeNext]_disputeVars =>
        [\A a \in Arbiters : ~stake[a].slashed /\ stake'[a].slashed =>
           \E e \in EscrowIds :
             /\ dueBy[e] # 0 /\ ledger > dueBy[e]
             /\ a \notin heard[e] \/ escrow[e].status \in Terminal]_disputeVars
  <2> SUFFICES ASSUME DisputeInv, VotesInv, [DisputeNext]_disputeVars, NEW a \in Arbiters,
                      ~stake[a].slashed, stake'[a].slashed
               PROVE  \E e \in EscrowIds :
                        /\ dueBy[e] # 0 /\ ledger > dueBy[e]
                        /\ a \notin heard[e] \/ escrow[e].status \in Terminal
    OBVIOUS
  <2>0. stake \in [Arbiters -> Stake]
    BY DEF DisputeInv, DisputeTypeOK, PanelTypes
  <2>1. ASSUME NEW b \in Arbiters, NEW amount \in Stakes, RegisterArbiter(b, amount)
        PROVE  FALSE
    <3>1. stake' = [stake EXCEPT ![b] = [amount |-> amount, slashed |-> FALSE]]
      BY <2>1 DEF RegisterArbiter
    <3> QED
      BY <2>0, <3>1
  <2>2. PICK e \in EscrowIds : SlashDelinquentArbiters(e)
    BY <2>1, StakesTouched
  <2>3. HasRecord(e) /\ dueBy[e] # 0 /\ ledger > dueBy[e] /\ a \in Delinquent(e)
    BY <2>0, <2>2 DEF SlashDelinquentArbiters
  <2>4. a \notin Voters(e)
    BY <2>3 DEF Delinquent, Voters
  <2>5. escrow[e].status \in Terminal \/ escrow[e].status \notin Ended
    BY <2>3 DEF HasRecord, Statuses, Ended
  <2>6. a \notin heard[e] \/ escrow[e].status \in Terminal
    BY <2>4, <2>5 DEF VotesInv
  <2> QED
    BY <2>3, <2>6
<1> QED
  BY <1>1, DisputeVotes, PTL DEF DisputeSpec, OnlySilentAreSlashed

(* Two quorums at once need a threshold of at most half the panel: an      *)
(* arbiter votes once, whatever panels there were between the votes.       *)
THEOREM DisputeConflictNeedsALaxPanel == DisputeSpec => []ConflictNeedsALaxPanel
<1>1. DisputeInv /\ VotesInv => ConflictNeedsALaxPanel
  <2> SUFFICES ASSUME DisputeInv, VotesInv, NEW e \in EscrowIds, panel # NoPanel,
                      \A side \in Sides : Tally(e, side) >= panel.threshold
               PROVE  2 * panel.threshold <= Cardinality(panel.arbiters)
    BY DEF ConflictNeedsALaxPanel
  <2> DEFINE For(side) == {v \in votes[e] : v.side = side /\ v.arbiter \in panel.arbiters}
             both == For("seller") \cup For("buyer")
             voter == [v \in both |-> v.arbiter]
  <2>1. /\ IsFiniteSet(panel.arbiters)
        /\ panel.threshold \in 1..Cardinality(panel.arbiters)
    BY PanelFacts DEF DisputeInv, DisputeTypeOK
  <2>2. voter \in Injection(both, panel.arbiters)
    <3>1. voter \in [both -> panel.arbiters]
      OBVIOUS
    <3>2. IsInjective(voter)
      <4>1. \A v, w \in both : v.arbiter = w.arbiter => v = w
        BY DEF VotesInv, OneVote
      <4> QED
        BY <4>1 DEF IsInjective
    <3> QED
      BY <3>1, <3>2 DEF Injection
  <2>3. IsFiniteSet(both) /\ Cardinality(both) <= Cardinality(panel.arbiters)
    BY <2>1, <2>2, FS_Injection
  <2>4. /\ For("seller") \in SUBSET both /\ For("buyer") \in SUBSET both
        /\ For("seller") \cap For("buyer") = {}
    OBVIOUS
  <2>5. /\ Cardinality(For("seller")) >= panel.threshold
        /\ Cardinality(For("buyer")) >= panel.threshold
    BY DEF Tally, Sides
  <2> HIDE DEF For
  <2>6. IsFiniteSet(For("seller")) /\ IsFiniteSet(For("buyer"))
    BY <2>3, <2>4, FS_Subset
  <2>7. Cardinality(both) = Cardinality(For("seller")) + Cardinality(For("buyer"))
    <3>1. Cardinality(both) = Cardinality(For("seller")) + Cardinality(For("buyer"))
                                - Cardinality(For("seller") \cap For("buyer"))
      BY <2>6, FS_Union
    <3>2. Cardinality(For("seller") \cap For("buyer")) = 0
      BY <2>4, FS_EmptySet
    <3> QED
      BY <2>6, <3>1, <3>2, FS_CardinalityType
  <2> HIDE DEF both
  <2> QED
    BY <2>1, <2>3, <2>5, <2>6, <2>7, FS_CardinalityType
<1> QED
  BY <1>1, DisputeVotes, PTL

-----------------------------------------------------------------------------
(***************************************************************************)
(* The tokens of the pool.  Beyond the balances of its orders the vault    *)
(* holds the bonds of the appeals being heard, less what keepers and the   *)
(* parties of slashed arbiters were paid.                                  *)
(***************************************************************************)

BondOf == [e \in EscrowIds |-> Bonded(e)]

PoolBalance == Slack + penalties = SumFunction(BondOf)

LEMMA BondSum ==
  ASSUME DisputeTypeOK
  PROVE  /\ DOMAIN BondOf = EscrowIds
         /\ \A e \in EscrowIds : BondOf[e] = Bonded(e) /\ BondOf[e] \in Int
         /\ SumFunction(BondOf) = SumFunctionOnSet(BondOf, EscrowIds)
         /\ SumFunction(BondOf) \in Int
<1>1. DOMAIN BondOf = EscrowIds
  BY DEF BondOf
<1>2. \A e \in EscrowIds : BondOf[e] = Bonded(e) /\ BondOf[e] \in Int
  BY BondTypes DEF BondOf, DisputeTypeOK
<1>3. IsFiniteSet(EscrowIds)
  BY CoreAssumption
<1>4. SumFunctionOnSet(BondOf, EscrowIds) \in Int
  BY <1>2, <1>3, SumType
<1> QED
  BY <1>1, <1>2, <1>4 DEF SumFunction

(* The bond of one order changes. *)
LEMMA BondMoves ==
  ASSUME DisputeTypeOK, NEW e \in EscrowIds, Bonded(e)' \in Nat,
         \A f \in EscrowIds \ {e} : appeal'[f] = appeal[f]
  PROVE  SumFunction(BondOf)' = SumFunction(BondOf) + (Bonded(e)' - Bonded(e))
<1> DEFINE next == BondOf'
<1>1. DOMAIN next = EscrowIds /\ \A f \in EscrowIds : next[f] = Bonded(f)'
  BY DEF BondOf
<1>2. /\ IsFiniteSet(EscrowIds)
      /\ \A f \in EscrowIds : BondOf[f] = Bonded(f) /\ BondOf[f] \in Int
      /\ SumFunction(BondOf) = SumFunctionOnSet(BondOf, EscrowIds)
      /\ SumFunction(BondOf) \in Int
  BY BondSum, CoreAssumption
<1>3. \A f \in EscrowIds \ {e} : next[f] = BondOf[f]
  BY <1>1, <1>2 DEF Bonded
<1>4. next[e] \in Int
  BY <1>1
<1>5. SumFunction(BondOf)' = SumFunctionOnSet(next, EscrowIds)
  BY <1>1 DEF SumFunction
<1> HIDE DEF next, BondOf
<1>6. \A f \in EscrowIds : BondOf[f] \in Int /\ next[f] \in Int
  BY <1>2, <1>3, <1>4
<1>7. SumFunctionOnSet(next, EscrowIds)
        = SumFunctionOnSet(BondOf, EscrowIds) + next[e] - BondOf[e]
  BY <1>2, <1>3, <1>6, SumChange
<1>8. next[e] = Bonded(e)' /\ BondOf[e] = Bonded(e)
  BY <1>1, <1>2
<1> QED
  BY <1>2, <1>4, <1>5, <1>6, <1>7, <1>8

LEMMA BondsKept ==
  ASSUME appeal' = appeal
  PROVE  SumFunction(BondOf)' = SumFunction(BondOf)
<1>1. BondOf' = BondOf
  BY DEF BondOf, Bonded
<1> QED
  BY <1>1 DEF SumFunction

(* An order that was never opened has brought nothing in. *)
LEMMA DisputeFresh == DisputeInv => FreshAreEmpty
<1> SUFFICES ASSUME DisputeInv, NEW e \in EscrowIds, escrow[e].status = "Unused"
             PROVE  deposited[e] = 0 /\ toSeller[e] = 0 /\ toBuyer[e] = 0
  BY DEF FreshAreEmpty
<1>1. deposited[e] = 0 /\ Paid(e) = 0
  BY DEF DisputeInv, DisputeBooks, Books
<1>2. toSeller[e] \in Nat /\ toBuyer[e] \in Nat
  BY OrderTypes DEF DisputeInv, DisputeTypeOK
<1> QED
  BY <1>1, <1>2 DEF Paid

LEMMA PoolStep ==
  DisputeInv /\ PoolBalance /\ [DisputeNext]_disputeVars => PoolBalance'
<1> SUFFICES ASSUME DisputeInv, PoolBalance, [DisputeNext]_disputeVars
             PROVE  PoolBalance'
  OBVIOUS
<1>0. /\ TypeOK /\ InspectTypes /\ PanelTypes /\ RulingTypes /\ DisputeBooks
      /\ DisputeTypeOK /\ DisputeTypeOK' /\ penalties \in Nat
  BY DisputeStepMoves DEF DisputeInv, DisputeTypeOK, PanelTypes
<1>1. ASSUME Slack' = Slack, UNCHANGED <<appeal, penalties>>
      PROVE  PoolBalance'
  BY <1>1, BondsKept DEF PoolBalance
<1>2. CASE UNCHANGED disputeVars \/ UNCHANGED <<coreVars, appeal, penalties>>
  BY <1>1, <1>2, NoFlow DEF disputeVars, coreVars, rulingVars, panelVars
<1>3. CASE \/ \E p \in Panels : SetQuorumConfig(p)
           \/ \E a \in Arbiters, amount \in Stakes : RegisterArbiter(a, amount)
  BY <1>2, <1>3 DEF SetQuorumConfig, RegisterArbiter, rulingVars
<1>4. CASE /\ \/ CloseLedger
              \/ \E window \in Lockouts : SetCancelLockout(window)
              \/ \E batch \in SUBSET EscrowIds, a \in Amounts, term \in Terms :
                   BatchCreate(batch, a, term)
           /\ UNCHANGED <<inspectVars, panelVars, rulingVars>>
  <2>1. Slack' = Slack
    BY <1>0, <1>4, DisputeFresh, CoreFlow DEF CoreNext
  <2> QED
    BY <1>1, <1>4, <2>1 DEF panelVars, rulingVars
<1>5. ASSUME NEW e \in EscrowIds,
             \/ CoreStep(e)
             \/ \E caller \in Callers, x \in 1..vault : GuardedRelease(e, caller, x)
             \/ ArchiveWithVotes(e)
      PROVE  PoolBalance'
  BY <1>0, <1>1, <1>5, CoreCalls
<1>6. ASSUME NEW e \in EscrowIds, InspectionStep(e)
      PROVE  PoolBalance'
  <2>1. UNCHANGED <<appeal, penalties>>
    BY <1>6, OtherTypesKept DEF panelVars, rulingVars
  <2> QED
    BY <1>0, <1>1, <1>6, <2>1, InspectionStepEffect
<1>7. ASSUME NEW e \in EscrowIds, ArbiterStep(e)
      PROVE  PoolBalance'
  <2>1. Slack' + penalties' = Slack + penalties /\ appeal' = appeal
    BY <1>0, <1>7, ArbiterStepEffect
  <2> QED
    BY <2>1, BondsKept DEF PoolBalance
<1>8. ASSUME NEW e \in EscrowIds, RulingStep(e)
      PROVE  PoolBalance'
  <2>1. Calls(e) /\ penalties' = penalties
    BY <1>0, <1>8, RulingStepEffect
  <2>2. \A f \in EscrowIds \ {e} : appeal'[f] = appeal[f]
    BY <2>1 DEF Calls, OneMoves, Kept
  <2>3. Bonded(e) \in Nat /\ Slack \in Int /\ SumFunction(BondOf) \in Int
    BY <1>0, BondTypes, BondSum
  <2>4. Bonded(e)' \in Nat
    <3>1. appeal'[e] \in Appeal
      BY <1>0 DEF DisputeTypeOK, RulingTypes
    <3> QED
      BY <3>1 DEF Bonded, Appeal
  <2>5. SumFunction(BondOf)' = SumFunction(BondOf) + (Bonded(e)' - Bonded(e))
    BY <1>0, <2>2, <2>4, BondMoves
  <2>6. Slack' = Slack + (Bonded(e)' - Bonded(e))
    BY <2>1 DEF Calls
  <2>7. Slack + penalties = SumFunction(BondOf)
    BY DEF PoolBalance
  <2>8. Slack' + penalties' = SumFunction(BondOf)'
    BY <1>0, <2>1, <2>3, <2>4, <2>5, <2>6, <2>7
  <2> QED
    BY <2>8 DEF PoolBalance
<1> QED
  BY <1>2, <1>3, <1>4, <1>5, <1>6, <1>7, <1>8 DEF DisputeNext

LEMMA PoolInit == DisputeInit => PoolBalance
<1> SUFFICES ASSUME DisputeInit
             PROVE  PoolBalance
  OBVIOUS
<1>1. DisputeTypeOK /\ TypeOK
  BY DisputeInitType DEF DisputeTypeOK
<1>2. /\ \A e \in EscrowIds : HeldOf[e] = 0 /\ BondOf[e] = 0
      /\ vault = 0 /\ bounties = 0 /\ penalties = 0
  BY DEF DisputeInit, CoreInit, HeldOf, Held, BondOf, Bonded, NoAppeal
<1>3. SumFunction(HeldOf) = 0 /\ SumFunction(BondOf) = 0
  BY <1>1, <1>2, HeldTypes, BondSum, SumOfZeros, CoreAssumption
<1> QED
  BY <1>2, <1>3 DEF PoolBalance, Slack

(* Every token of the pool is held for an order or is the bond of an appeal*)
(* being heard, and what is missing went to keepers or as slashed stakes,  *)
(* on whichever orders the calls interleave.                               *)
THEOREM DisputePoolIsAccountedFor == DisputeSpec => []PoolIsAccountedFor
<1>1. DisputeInv /\ PoolBalance => PoolIsAccountedFor
  <2> SUFFICES ASSUME DisputeInv, PoolBalance
               PROVE  PoolIsAccountedFor
    OBVIOUS
  <2> DEFINE both == [e \in EscrowIds |->
                        deposited[e] - toSeller[e] - toBuyer[e]
                          + IF appeal[e].status = "Appealed" THEN appeal[e].bond ELSE 0]
  <2>1. TypeOK /\ DisputeTypeOK
    BY DEF DisputeInv, DisputeTypeOK
  <2>2. /\ IsFiniteSet(EscrowIds)
        /\ \A e \in EscrowIds : HeldOf[e] = Held(e) /\ HeldOf[e] \in Int
        /\ SumFunction(HeldOf) = SumFunctionOnSet(HeldOf, EscrowIds)
        /\ SumFunction(HeldOf) \in Int
    BY <2>1, HeldTypes
  <2>3. /\ \A e \in EscrowIds : BondOf[e] = Bonded(e) /\ BondOf[e] \in Int
        /\ SumFunction(BondOf) = SumFunctionOnSet(BondOf, EscrowIds)
        /\ SumFunction(BondOf) \in Int
    BY <2>1, BondSum
  <2>4. /\ DOMAIN both = EscrowIds
        /\ \A e \in EscrowIds : both[e] = HeldOf[e] + BondOf[e]
    BY <2>2, <2>3 DEF Held, Bonded
  <2> HIDE DEF both, HeldOf, BondOf
  <2>5. SumFunction(both) = SumFunctionOnSet(both, EscrowIds)
    BY <2>4 DEF SumFunction
  <2>6. \A e \in EscrowIds : HeldOf[e] \in Int /\ BondOf[e] \in Int
    BY <2>2, <2>3
  <2>7. SumFunctionOnSet(both, EscrowIds)
          = SumFunctionOnSet(HeldOf, EscrowIds) + SumFunctionOnSet(BondOf, EscrowIds)
    BY <2>2, <2>4, <2>6, SumOfBoth
  <2>8. vault \in Nat /\ bounties \in Nat /\ penalties \in Nat
    BY <2>1 DEF DisputeTypeOK, PanelTypes, TypeOK
  <2>9. vault + bounties - SumFunction(HeldOf) + penalties = SumFunction(BondOf)
    BY DEF PoolBalance, Slack
  <2>10. vault + bounties + penalties = SumFunction(both)
    BY <2>2, <2>3, <2>5, <2>7, <2>8, <2>9
  <2> QED
    BY <2>10 DEF PoolIsAccountedFor, both
<1> QED
  BY <1>1, DisputeInitInv, DisputeStepInv, PoolInit, PoolStep, PTL DEF DisputeSpec
=============================================================================
