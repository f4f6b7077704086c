-------------------------- MODULE EscrowCoreProofs --------------------------
(***************************************************************************)
(* Proofs about EscrowCore, for any set of orders, any amounts and any     *)
(* windows.                                                                *)
(***************************************************************************)
EXTENDS EscrowCore, SumLemmas, FiniteSetTheorems, SequenceTheorems, TLAPS

-----------------------------------------------------------------------------
(* Types. *)

(* A schedule that is not empty has a positive total. *)
LEMMA ScheduleTotal ==
  ASSUME NEW schedule \in Seq(Nat \ {0}), schedule # <<>>
  PROVE  SumFunction(schedule) \in Nat \ {0}
<1>1. /\ DOMAIN schedule = 1..Len(schedule) /\ Len(schedule) \in Nat
      /\ \A i \in DOMAIN schedule : schedule[i] \in Nat /\ schedule[i] > 0
  BY ElementOfSeq
<1>2. 1 \in DOMAIN schedule
  BY <1>1, EmptySeq
<1>3. IsFiniteSet(DOMAIN schedule)
  BY <1>1, FS_Interval
<1>4. SumFunctionOnSet(schedule, DOMAIN schedule) \in Nat
  BY <1>1, <1>3, SumType
<1>5. SumFunctionOnSet(schedule, DOMAIN schedule) > 0
  BY <1>1, <1>2, <1>3, SumPositive
<1> QED
  BY <1>4, <1>5 DEF SumFunction

(* What the constants are, one fact at a time. *)
LEMMA ConstantTypes ==
  /\ Amounts \subseteq Nat /\ 0 \notin Amounts
  /\ Surpluses \subseteq Nat
  /\ Terms \subseteq Nat
  /\ Lockouts \subseteq Nat
  /\ \A schedule \in Schedules :
       schedule # <<>> => SumFunction(schedule) \in Nat \ {0}
  /\ BumpExtension \in Nat
  /\ KeeperBounty \in Nat
  /\ MaxLedger \in Nat
  BY CoreAssumption, ScheduleTotal

(* The deployed contract starts with values of the right type. *)
LEMMA InitType == CoreInit => TypeOK
  BY CoreAssumption
  DEF CoreInit, TypeOK, EscrowRecord, Blank, Statuses, NoRecord, CancelGuard, NoGuard

LEMMA NewRecordType ==
  ASSUME TypeOK, NEW status \in Statuses, NEW amount \in Nat, NEW term \in Terms
  PROVE  NewRecord(status, amount, term) \in EscrowRecord
  BY ConstantTypes DEF TypeOK, NewRecord, EscrowRecord

LEMMA NewGuardType == TypeOK => NewGuard \in CancelGuard
  BY DEF TypeOK, NewGuard, CancelGuard

(* The schedule a milestone escrow stores is a sequence of milestones. *)
LEMMA ScheduleType ==
  ASSUME NEW schedule \in Schedules
  PROVE  [i \in 1..Len(schedule) |-> [amount |-> schedule[i], done |-> FALSE]] \in Seq(Milestone)
  BY CoreAssumption DEF Milestone

(* The updates the entry points make of a record keep its type. *)
LEMMA RecordUpdates ==
  ASSUME NEW r \in EscrowRecord, NEW n \in Nat, NEW status \in Statuses \cup NoRecord
  PROVE  /\ [r EXCEPT !.amount = n, !.status = status] \in EscrowRecord
         /\ [r EXCEPT !.status = status] \in EscrowRecord
         /\ [r EXCEPT !.released = n, !.status = status] \in EscrowRecord
         /\ [r EXCEPT !.refunded = n, !.status = status] \in EscrowRecord
         /\ [r EXCEPT !.timeout = n] \in EscrowRecord
<1>1. [r EXCEPT !.amount = n, !.status = status] \in EscrowRecord
  BY DEF EscrowRecord
<1>2. [r EXCEPT !.status = status] \in EscrowRecord
  BY DEF EscrowRecord
<1>3. [r EXCEPT !.released = n, !.status = status] \in EscrowRecord
  BY DEF EscrowRecord
<1>4. [r EXCEPT !.refunded = n, !.status = status] \in EscrowRecord
  BY DEF EscrowRecord
<1>5. [r EXCEPT !.timeout = n] \in EscrowRecord
  BY DEF EscrowRecord
<1> QED
  BY <1>1, <1>2, <1>3, <1>4, <1>5

LEMMA GuardUpdates ==
  ASSUME NEW g \in CancelGuard, NEW n \in Nat, NEW agreed \in BOOLEAN
  PROVE  /\ [g EXCEPT !.accepted = TRUE, !.allowed = n] \in CancelGuard
         /\ [g EXCEPT !.agreed = agreed] \in CancelGuard
  BY DEF CancelGuard

(* Writing a record back keeps the records' type. *)
LEMMA StoreType ==
  ASSUME TypeOK, NEW e \in EscrowIds, NEW record \in EscrowRecord, Store(e, record)
  PROVE  escrow' \in [EscrowIds -> EscrowRecord]
  BY DEF TypeOK, Store, EscrowRecord

(* What the variables hold for one order. *)
LEMMA OrderTypes ==
  ASSUME TypeOK, NEW e \in EscrowIds
  PROVE  /\ ledger \in Nat /\ vault \in Nat /\ bounties \in Nat
         /\ escrow[e] \in EscrowRecord
         /\ guard[e] \in CancelGuard
         /\ milestones[e] \in Seq(Milestone)
         /\ deposited[e] \in Nat /\ toSeller[e] \in Nat /\ toBuyer[e] \in Nat
  BY DEF TypeOK

(* The numbers a record and a guard hold. *)
LEMMA FieldTypes ==
  ASSUME TypeOK, NEW e \in EscrowIds
  PROVE  /\ escrow[e].amount \in Nat /\ escrow[e].released \in Nat
         /\ escrow[e].refunded \in Nat /\ escrow[e].timeout \in Nat
         /\ escrow[e].status \in Statuses \cup NoRecord
         /\ guard[e].window \in Nat /\ guard[e].allowed \in Nat
  BY OrderTypes DEF EscrowRecord, CancelGuard

(* Changing the cancel guard of one order keeps the guards' type. *)
LEMMA GuardType ==
  ASSUME TypeOK, NEW e \in EscrowIds, NEW g \in CancelGuard,
         guard' = [guard EXCEPT ![e] = g]
  PROVE  guard' \in [EscrowIds -> CancelGuard]
  BY DEF TypeOK

LEMMA OpenStepType ==
  ASSUME TypeOK, NEW e \in EscrowIds, OpenStep(e)
  PROVE  TypeOK'
<1>1. ASSUME NEW a \in Amounts, NEW term \in Terms, Create(e, a, term)
      PROVE  TypeOK'
  <2>1. NewRecord("Created", a, term) \in EscrowRecord
    BY ConstantTypes, NewRecordType DEF Statuses
  <2>2. NewGuard \in CancelGuard
    BY NewGuardType
  <2> QED
    BY <1>1, <2>1, <2>2 DEF TypeOK, Create
<1>2. ASSUME NEW a \in Amounts, NEW term \in Terms, NEW s \in Surpluses, Deposit(e, a, term, s)
      PROVE  TypeOK'
  <2>1. a + s \in Nat
    BY ConstantTypes
  <2>2. NewRecord("Funded", a + s, term) \in EscrowRecord
    BY <2>1, NewRecordType DEF Statuses
  <2>3. NewGuard \in CancelGuard
    BY NewGuardType
  <2>4. /\ escrow' = [escrow EXCEPT ![e] = NewRecord("Funded", a + s, term)]
        /\ guard' = [guard EXCEPT ![e] = NewGuard]
        /\ vault' = vault + (a + s)
        /\ deposited' = [deposited EXCEPT ![e] = deposited[e] + (a + s)]
        /\ UNCHANGED <<ledger, lockout, shipped, gated, bumped, milestones, toSeller, toBuyer, bounties>>
    BY <1>2 DEF Deposit, Receive
  <2> QED
    BY <2>1, <2>2, <2>3, <2>4 DEF TypeOK
<1>3. ASSUME NEW schedule \in Schedules, NEW term \in Terms, NEW s \in Surpluses,
             CreateMilestoneEscrow(e, schedule, term, s)
      PROVE  TypeOK'
  <2> DEFINE total == SumFunction(schedule) + s
             plan == [i \in 1..Len(schedule) |-> [amount |-> schedule[i], done |-> FALSE]]
  <2>1. total \in Nat
    BY <1>3, ConstantTypes DEF CreateMilestoneEscrow
  <2>2. NewRecord("Funded", total, term) \in EscrowRecord
    BY <2>1, NewRecordType DEF Statuses
  <2>3. NewGuard \in CancelGuard
    BY NewGuardType
  <2>4. plan \in Seq(Milestone)
    BY ScheduleType
  <2>5. /\ escrow' = [escrow EXCEPT ![e] = NewRecord("Funded", total, term)]
        /\ guard' = [guard EXCEPT ![e] = NewGuard]
        /\ milestones' = [milestones EXCEPT ![e] = plan]
        /\ vault' = vault + total
        /\ deposited' = [deposited EXCEPT ![e] = deposited[e] + total]
        /\ UNCHANGED <<ledger, lockout, shipped, gated, bumped, toSeller, toBuyer, bounties>>
    BY <1>3 DEF CreateMilestoneEscrow, Receive
  <2> HIDE DEF total, plan
  <2> QED
    BY <2>1, <2>2, <2>3, <2>4, <2>5 DEF TypeOK
<1>4. ASSUME NEW s \in Surpluses, Fund(e, s)
      PROVE  TypeOK'
  <2> DEFINE received == escrow[e].amount + s
             record == [escrow[e] EXCEPT !.amount = received, !.status = "Funded"]
  <2>1. received \in Nat
    BY ConstantTypes, FieldTypes
  <2> HIDE DEF received
  <2>2. record \in EscrowRecord
    BY <2>1, OrderTypes, RecordUpdates DEF Statuses
  <2>3. /\ Store(e, record)
        /\ vault' = vault + received
        /\ deposited' = [deposited EXCEPT ![e] = @ + received]
        /\ UNCHANGED <<ledger, lockout, guard, shipped, gated, milestones, bumped,
                       toSeller, toBuyer, bounties>>
    BY <1>4 DEF Fund, Receive, received
  <2> HIDE DEF record
  <2>4. escrow' \in [EscrowIds -> EscrowRecord]
    BY <2>2, <2>3, StoreType
  <2>5. vault' \in Nat /\ deposited' \in [EscrowIds -> Nat]
    BY <2>1, <2>3 DEF TypeOK
  <2> QED
    BY <2>3, <2>4, <2>5 DEF TypeOK
<1>5. CASE AcceptOrder(e)
  <2> DEFINE deadline == ledger + guard[e].window
             g == [guard[e] EXCEPT !.accepted = TRUE, !.allowed = deadline]
  <2>1. deadline \in Nat
    BY OrderTypes, FieldTypes
  <2>2. guard' = [guard EXCEPT ![e] = g]
    BY <1>5 DEF AcceptOrder
  <2> HIDE DEF deadline
  <2>3. g \in CancelGuard
    BY <2>1, OrderTypes, GuardUpdates
  <2> HIDE DEF g
  <2>4. guard' \in [EscrowIds -> CancelGuard]
    BY <2>2, <2>3, GuardType
  <2> QED
    BY <1>5, <2>4 DEF TypeOK, AcceptOrder
<1>6. CASE AgreeCancel(e)
  <2>1. [guard[e] EXCEPT !.agreed = TRUE] \in CancelGuard
    BY OrderTypes, GuardUpdates
  <2>2. guard' \in [EscrowIds -> CancelGuard]
    BY <1>6, <2>1, GuardType DEF AgreeCancel
  <2> QED
    BY <1>6, <2>2 DEF TypeOK, AgreeCancel
<1>7. CASE Cancel(e)
  <2> DEFINE record == [escrow[e] EXCEPT !.status = "Cancelled"]
  <2>1. record \in EscrowRecord /\ Store(e, record)
    BY <1>7, OrderTypes, RecordUpdates DEF Cancel, Statuses
  <2> HIDE DEF record
  <2>2. escrow' \in [EscrowIds -> EscrowRecord]
    BY <2>1, StoreType
  <2>3. [guard[e] EXCEPT !.agreed = FALSE] \in CancelGuard
    BY OrderTypes, GuardUpdates
  <2>4. guard' \in [EscrowIds -> CancelGuard]
    BY <1>7, <2>3, GuardType DEF Cancel
  <2> QED
    BY <1>7, <2>2, <2>4 DEF TypeOK, Cancel
<1> QED
  BY <1>1, <1>2, <1>3, <1>4, <1>5, <1>6, <1>7 DEF OpenStep

(* A payment to the seller's side. *)
LEMMA ExecuteReleaseType ==
  ASSUME TypeOK, NEW e \in EscrowIds, NEW x \in Nat, ExecuteRelease(e, x)
  PROVE  /\ escrow' \in [EscrowIds -> EscrowRecord]
         /\ vault' \in Nat
         /\ toSeller' \in [EscrowIds -> Nat]
<1> DEFINE status == IF Remaining(escrow[e]) - x = 0 THEN "Released" ELSE escrow[e].status
           released == escrow[e].released + x
           record == [escrow[e] EXCEPT !.released = released, !.status = status]
<1>1. status \in Statuses \cup NoRecord /\ released \in Nat
  BY FieldTypes DEF Statuses
<1>2. Store(e, record)
  BY DEF ExecuteRelease
<1> HIDE DEF status, released
<1>3. record \in EscrowRecord
  BY <1>1, OrderTypes, RecordUpdates
<1> HIDE DEF record
<1>4. escrow' \in [EscrowIds -> EscrowRecord]
  BY <1>3, <1>2, StoreType
<1>5. /\ x <= vault
      /\ vault' = vault - x
      /\ toSeller' = [toSeller EXCEPT ![e] = toSeller[e] + x]
  BY DEF ExecuteRelease
<1> QED
  BY <1>4, <1>5 DEF TypeOK

LEMMA PayStepType ==
  ASSUME TypeOK, NEW e \in EscrowIds, PayStep(e)
  PROVE  TypeOK'
<1>1. ASSUME NEW caller \in Callers, NEW x \in 1..vault, PartialRelease(e, caller, x)
      PROVE  TypeOK'
  <2>1. /\ escrow' \in [EscrowIds -> EscrowRecord]
        /\ vault' \in Nat
        /\ toSeller' \in [EscrowIds -> Nat]
    BY <1>1, ExecuteReleaseType DEF PartialRelease, TypeOK
  <2> QED
    BY <1>1, <2>1 DEF TypeOK, PartialRelease
<1>2. ASSUME NEW caller \in Callers, NEW x \in 1..vault, PartialRefund(e, caller, x)
      PROVE  TypeOK'
  <2> DEFINE status == IF Remaining(escrow[e]) = x THEN "Refunded" ELSE escrow[e].status
             refunded == escrow[e].refunded + x
             record == [escrow[e] EXCEPT !.refunded = refunded, !.status = status]
  <2>1. status \in Statuses \cup NoRecord /\ x \in Nat /\ refunded \in Nat
    BY OrderTypes, FieldTypes DEF Statuses
  <2>3. Store(e, record)
    BY <1>2 DEF PartialRefund
  <2> HIDE DEF status, refunded
  <2>2. record \in EscrowRecord
    BY <2>1, OrderTypes, RecordUpdates
  <2> HIDE DEF record
  <2>4. escrow' \in [EscrowIds -> EscrowRecord]
    BY <2>2, <2>3, StoreType
  <2>5. /\ x <= vault
        /\ vault' = vault - x
        /\ toBuyer' = [toBuyer EXCEPT ![e] = @ + x]
        /\ UNCHANGED <<ledger, lockout, guard, shipped, gated, milestones, bumped,
                       deposited, toSeller, bounties>>
    BY <1>2 DEF PartialRefund
  <2> QED
    BY <2>1, <2>4, <2>5 DEF TypeOK
<1>3. ASSUME NEW i \in DOMAIN milestones[e], ReleaseMilestone(e, i)
      PROVE  TypeOK'
  <2>1. milestones[e] \in Seq(Milestone) /\ milestones[e][i] \in Milestone
    BY <1>3, ElementOfSeq, OrderTypes
  <2> DEFINE m == [milestones[e][i] EXCEPT !.done = TRUE]
  <2>m. m \in Milestone
    BY <2>1 DEF Milestone
  <2> HIDE DEF m
  <2>2. [milestones[e] EXCEPT ![i] = m] \in Seq(Milestone)
    BY <2>1, <2>m, ExceptSeq
  <2>3. milestones' \in [EscrowIds -> Seq(Milestone)]
    BY <1>3, <2>2 DEF TypeOK, ReleaseMilestone, m
  <2>4. /\ escrow' \in [EscrowIds -> EscrowRecord]
        /\ vault' \in Nat
        /\ toSeller' \in [EscrowIds -> Nat]
    BY <1>3, <2>1, ExecuteReleaseType DEF ReleaseMilestone, Milestone
  <2> QED
    BY <1>3, <2>3, <2>4 DEF TypeOK, ReleaseMilestone
<1> QED
  BY <1>1, <1>2, <1>3 DEF PayStep

LEMMA UpkeepStepType ==
  ASSUME TypeOK, NEW e \in EscrowIds, UpkeepStep(e)
  PROVE  TypeOK'
<1>1. CASE RecordShipmentProof(e)
  BY <1>1 DEF TypeOK, RecordShipmentProof
<1>2. ASSUME NEW require \in BOOLEAN, SetRequireReleaseCondition(e, require)
      PROVE  TypeOK'
  BY <1>2 DEF TypeOK, SetRequireReleaseCondition
<1>3. ASSUME NEW deadline \in 1..MaxLedger, ExtendTimeout(e, deadline)
      PROVE  TypeOK'
  <2> DEFINE record == [escrow[e] EXCEPT !.timeout = deadline]
  <2>0. deadline \in Nat
    BY ConstantTypes
  <2>1. record \in EscrowRecord /\ Store(e, record)
    BY <1>3, <2>0, OrderTypes, FieldTypes, RecordUpdates DEF ExtendTimeout
  <2> HIDE DEF record
  <2>2. escrow' \in [EscrowIds -> EscrowRecord]
    BY <2>1, StoreType
  <2> QED
    BY <1>3, <2>2 DEF TypeOK, ExtendTimeout
<1>4. CASE KeeperBump(e)
  <2> DEFINE timeout == escrow[e].timeout + BumpExtension
             record == [escrow[e] EXCEPT !.timeout = timeout]
             bounty == IF EarnsBounty(e) THEN KeeperBounty ELSE 0
  <2>0. timeout \in Nat /\ Store(e, record)
    BY <1>4, ConstantTypes, FieldTypes DEF KeeperBump
  <2> HIDE DEF timeout
  <2>1. record \in EscrowRecord
    BY <2>0, OrderTypes, FieldTypes, RecordUpdates
  <2>2. bounty \in Nat
    BY ConstantTypes
  <2>3. /\ bounty <= vault
        /\ vault' = vault - bounty
        /\ bounties' = bounties + bounty
        /\ bumped' = [bumped EXCEPT ![e] = ledger]
        /\ UNCHANGED <<ledger, lockout, guard, shipped, gated, milestones,
                       deposited, toSeller, toBuyer>>
    BY <1>4 DEF KeeperBump
  <2> HIDE DEF record, bounty
  <2>4. escrow' \in [EscrowIds -> EscrowRecord]
    BY <2>0, <2>1, StoreType
  <2>5. vault' \in Nat /\ bounties' \in Nat /\ bumped' \in [EscrowIds -> Nat]
    BY <2>2, <2>3 DEF TypeOK
  <2> QED
    BY <2>3, <2>4, <2>5 DEF TypeOK
<1>5. CASE Archive(e)
  <2>1. Blank("Archived") \in EscrowRecord
    BY DEF Blank, EscrowRecord, NoRecord
  <2> QED
    BY <1>5, <2>1 DEF TypeOK, Archive
<1> QED
  BY <1>1, <1>2, <1>3, <1>4, <1>5 DEF UpkeepStep

LEMMA BatchCreateType ==
  ASSUME TypeOK, NEW batch \in SUBSET EscrowIds, NEW a \in Amounts, NEW term \in Terms,
         BatchCreate(batch, a, term)
  PROVE  TypeOK'
<1>1. NewRecord("Funded", a, term) \in EscrowRecord
  BY ConstantTypes, NewRecordType DEF Statuses
<1>2. NewGuard \in CancelGuard
  BY NewGuardType
<1>3. Cardinality(batch) \in Nat
  BY CoreAssumption, FS_Subset, FS_CardinalityType
<1>4. a \in Nat /\ a * Cardinality(batch) \in Nat
  BY <1>3, ConstantTypes
<1> QED
  BY <1>1, <1>2, <1>4 DEF TypeOK, BatchCreate

(* No step of the contract leaves the storage types. *)
LEMMA StepType == TypeOK /\ [CoreNext]_coreVars => TypeOK'
<1> SUFFICES ASSUME TypeOK, [CoreNext]_coreVars
             PROVE  TypeOK'
  OBVIOUS
<1>1. CASE CloseLedger
  BY <1>1 DEF TypeOK, CloseLedger, recordVars
<1>2. ASSUME NEW window \in Lockouts, SetCancelLockout(window)
      PROVE  TypeOK'
  BY <1>2, ConstantTypes DEF TypeOK, SetCancelLockout, recordVars
<1>3. CASE UNCHANGED coreVars
  BY <1>3 DEF TypeOK, coreVars, recordVars
<1> QED
  BY <1>1, <1>2, <1>3, BatchCreateType, OpenStepType, PayStepType, UpkeepStepType DEF CoreNext

(* Every variable keeps its storage type, whatever is called and when. *)
THEOREM CoreTypeOK == CoreSpec => []TypeOK
  BY InitType, StepType, PTL DEF CoreSpec

-----------------------------------------------------------------------------
(* The inductive invariant: for each order, what its record says of the    *)
(* tokens in every status, those an order that was never opened or is      *)
(* already forgotten moved included (without these two BooksMatchTokens is *)
(* not preserved by create and ArchivedIsPaidOut not by archive), and a    *)
(* cancel deadline no earlier than the window promised.                    *)

Accounts(r, in, seller, buyer) ==
  /\ r.status = "Unused" => in = 0 /\ seller = 0 /\ buyer = 0
  /\ r.status = "Archived" => seller + buyer = in
  /\ r.status \in NoRecord => r.amount = 0
  /\ r.status \in Statuses => seller = r.released /\ buyer = r.refunded
  /\ r.status \in {"Created", "Cancelled"} =>
       in = 0 /\ r.released = 0 /\ r.refunded = 0 /\ r.amount > 0
  /\ r.status \in {"Funded", "Inspection", "Disputed", "InitialRuling"} =>
       in = r.amount /\ r.released + r.refunded < r.amount
  /\ r.status = "Released" =>
       in = r.amount /\ r.released + r.refunded = r.amount /\ r.released > 0
  /\ r.status = "Refunded" =>
       in = r.amount /\ r.released + r.refunded = r.amount /\ r.refunded > 0

Deadlines(r, g, now) ==
  r.status = "Created" => r.created <= now /\ r.created + g.window <= g.allowed

CoreInv ==
  /\ TypeOK
  /\ \A e \in EscrowIds : Accounts(escrow[e], deposited[e], toSeller[e], toBuyer[e])
  /\ \A e \in EscrowIds : Deadlines(escrow[e], guard[e], ledger)

(* A step that touches one order has only that order to answer for. *)
LEMMA OneOrder ==
  ASSUME CoreInv, TypeOK', NEW e \in EscrowIds, ledger' = ledger,
         \A f \in EscrowIds \ {e} :
           /\ escrow'[f] = escrow[f]
           /\ guard'[f] = guard[f]
           /\ deposited'[f] = deposited[f]
           /\ toSeller'[f] = toSeller[f]
           /\ toBuyer'[f] = toBuyer[f],
         Accounts(escrow'[e], deposited'[e], toSeller'[e], toBuyer'[e]),
         Deadlines(escrow'[e], guard'[e], ledger')
  PROVE  CoreInv'
<1>1. ASSUME NEW f \in EscrowIds
      PROVE  Accounts(escrow'[f], deposited'[f], toSeller'[f], toBuyer'[f])
  BY DEF CoreInv
<1>2. ASSUME NEW f \in EscrowIds
      PROVE  Deadlines(escrow'[f], guard'[f], ledger')
  BY DEF CoreInv
<1> QED
  BY <1>1, <1>2 DEF CoreInv

LEMMA StoreEffect ==
  ASSUME TypeOK, NEW e \in EscrowIds, NEW record, Store(e, record)
  PROVE  /\ escrow'[e] = [record EXCEPT !.updated = ledger]
         /\ \A f \in EscrowIds \ {e} : escrow'[f] = escrow[f]
  BY DEF TypeOK, Store

(* Nothing has been deposited when the contract is deployed. *)
LEMMA InitInv == CoreInit => CoreInv
<1> SUFFICES ASSUME CoreInit
             PROVE  CoreInv
  OBVIOUS
<1>1. ASSUME NEW e \in EscrowIds
      PROVE  /\ Accounts(escrow[e], deposited[e], toSeller[e], toBuyer[e])
             /\ Deadlines(escrow[e], guard[e], ledger)
  BY DEF CoreInit, Accounts, Deadlines, Blank, Statuses, NoRecord
<1> QED
  BY <1>1, InitType DEF CoreInv

(* A record with tokens in it, fresh from deposit, batch or fund. *)
LEMMA FreshRecord ==
  ASSUME TypeOK, NEW a \in Nat, a > 0, NEW term \in Terms
  PROVE  /\ Accounts(NewRecord("Created", a, term), 0, 0, 0)
         /\ Accounts(NewRecord("Funded", a, term), a, 0, 0)
         /\ Deadlines(NewRecord("Created", a, term), NewGuard, ledger)
         /\ Deadlines(NewRecord("Funded", a, term), NewGuard, ledger)
<1>1. Accounts(NewRecord("Created", a, term), 0, 0, 0)
  BY DEF Accounts, NewRecord, Statuses, NoRecord
<1>2. Accounts(NewRecord("Funded", a, term), a, 0, 0)
  BY DEF Accounts, NewRecord, Statuses, NoRecord
<1>3. /\ Deadlines(NewRecord("Created", a, term), NewGuard, ledger)
      /\ Deadlines(NewRecord("Funded", a, term), NewGuard, ledger)
  BY DEF Deadlines, NewRecord, NewGuard, TypeOK
<1> QED
  BY <1>1, <1>2, <1>3

LEMMA OpenStepInv ==
  ASSUME CoreInv, TypeOK', NEW e \in EscrowIds, OpenStep(e)
  PROVE  CoreInv'
<1> USE DEF CoreInv
<1>0. /\ Accounts(escrow[e], deposited[e], toSeller[e], toBuyer[e])
      /\ Deadlines(escrow[e], guard[e], ledger)
  OBVIOUS
<1>1. ASSUME NEW a \in Amounts, NEW term \in Terms, Create(e, a, term)
      PROVE  CoreInv'
  <2>1. /\ escrow'[e] = NewRecord("Created", a, term)
        /\ guard'[e] = NewGuard
        /\ deposited'[e] = 0 /\ toSeller'[e] = 0 /\ toBuyer'[e] = 0
    BY <1>0, <1>1 DEF TypeOK, Create, Accounts
  <2>2. /\ Accounts(escrow'[e], deposited'[e], toSeller'[e], toBuyer'[e])
        /\ Deadlines(escrow'[e], guard'[e], ledger)
    <3>1. a \in Nat /\ a > 0
      BY ConstantTypes
    <3> QED
      BY <2>1, <3>1, FreshRecord
  <2> QED
    BY <1>1, <2>2, OneOrder DEF Create, TypeOK
<1>2. ASSUME NEW a \in Amounts, NEW term \in Terms, NEW s \in Surpluses, Deposit(e, a, term, s)
      PROVE  CoreInv'
  <2>1. a + s \in Nat /\ a + s > 0
    BY ConstantTypes
  <2>2. /\ escrow'[e] = NewRecord("Funded", a + s, term)
        /\ guard'[e] = NewGuard
        /\ deposited'[e] = a + s /\ toSeller'[e] = 0 /\ toBuyer'[e] = 0
    BY <1>0, <1>2, <2>1 DEF TypeOK, Deposit, Receive, Accounts
  <2>3. /\ Accounts(escrow'[e], deposited'[e], toSeller'[e], toBuyer'[e])
        /\ Deadlines(escrow'[e], guard'[e], ledger)
    BY <2>1, <2>2, FreshRecord
  <2> QED
    BY <1>2, <2>3, OneOrder DEF Deposit, Receive, TypeOK
<1>3. ASSUME NEW schedule \in Schedules, NEW term \in Terms, NEW s \in Surpluses,
             CreateMilestoneEscrow(e, schedule, term, s)
      PROVE  CoreInv'
  <2> DEFINE total == SumFunction(schedule) + s
  <2>1. total \in Nat /\ total > 0
    BY <1>3, ConstantTypes DEF CreateMilestoneEscrow
  <2>2. /\ escrow' = [escrow EXCEPT ![e] = NewRecord("Funded", total, term)]
        /\ guard' = [guard EXCEPT ![e] = NewGuard]
        /\ deposited' = [deposited EXCEPT ![e] = deposited[e] + total]
        /\ escrow[e].status = "Unused"
        /\ UNCHANGED <<ledger, toSeller, toBuyer>>
    BY <1>3 DEF CreateMilestoneEscrow, Receive
  <2> HIDE DEF total
  <2>3. /\ escrow'[e] = NewRecord("Funded", total, term)
        /\ guard'[e] = NewGuard
        /\ deposited'[e] = total /\ toSeller'[e] = 0 /\ toBuyer'[e] = 0
    BY <1>0, <2>1, <2>2 DEF TypeOK, Accounts
  <2>4. /\ Accounts(escrow'[e], deposited'[e], toSeller'[e], toBuyer'[e])
        /\ Deadlines(escrow'[e], guard'[e], ledger)
    BY <2>1, <2>3, FreshRecord
  <2> QED
    BY <2>2, <2>4, OneOrder DEF TypeOK
<1>4. ASSUME NEW s \in Surpluses, Fund(e, s)
      PROVE  CoreInv'
  <2> DEFINE received == escrow[e].amount + s
             record == [escrow[e] EXCEPT !.amount = received, !.status = "Funded"]
  <2>1. /\ Store(e, record)
        /\ deposited' = [deposited EXCEPT ![e] = @ + received]
        /\ escrow[e].status = "Created"
        /\ UNCHANGED <<ledger, guard, toSeller, toBuyer>>
    BY <1>4 DEF Fund, Receive
  <2>2. received \in Nat /\ received > 0
    BY <1>0, <2>1, ConstantTypes, FieldTypes DEF Accounts
  <2>3. /\ escrow'[e] = [record EXCEPT !.updated = ledger]
        /\ \A f \in EscrowIds \ {e} : escrow'[f] = escrow[f]
    BY <2>1, StoreEffect
  <2>4. deposited'[e] = received /\ toSeller'[e] = 0 /\ toBuyer'[e] = 0
    BY <1>0, <2>1, <2>2 DEF Accounts, Statuses, TypeOK
  <2>5. /\ escrow'[e].status = "Funded" /\ escrow'[e].amount = received
        /\ escrow'[e].released = 0 /\ escrow'[e].refunded = 0
    BY <1>0, <2>1, <2>3, OrderTypes DEF Accounts, EscrowRecord
  <2> HIDE DEF received, record
  <2>6. /\ Accounts(escrow'[e], deposited'[e], toSeller'[e], toBuyer'[e])
        /\ Deadlines(escrow'[e], guard'[e], ledger)
    BY <2>2, <2>4, <2>5 DEF Accounts, Deadlines, Statuses, NoRecord
  <2> QED
    BY <2>1, <2>3, <2>6, OneOrder DEF TypeOK
<1>5. CASE AcceptOrder(e)
  <2>1. /\ guard'[e] = [guard[e] EXCEPT !.accepted = TRUE, !.allowed = ledger + guard[e].window]
        /\ \A f \in EscrowIds \ {e} : guard'[f] = guard[f]
        /\ UNCHANGED <<ledger, escrow, deposited, toSeller, toBuyer>>
    BY <1>5 DEF AcceptOrder, TypeOK
  <2>2. guard'[e].allowed = ledger + guard[e].window /\ guard'[e].window = guard[e].window
    BY <2>1, OrderTypes DEF CancelGuard
  <2>3. Deadlines(escrow[e], guard'[e], ledger)
    BY <1>0, <2>2, FieldTypes, OrderTypes DEF Deadlines, EscrowRecord
  <2> QED
    BY <1>0, <2>1, <2>3, OneOrder
<1>6. CASE AgreeCancel(e)
  <2>1. /\ guard'[e] = [guard[e] EXCEPT !.agreed = TRUE]
        /\ \A f \in EscrowIds \ {e} : guard'[f] = guard[f]
        /\ UNCHANGED <<ledger, escrow, deposited, toSeller, toBuyer>>
    BY <1>6 DEF AgreeCancel, TypeOK
  <2>2. guard'[e].allowed = guard[e].allowed /\ guard'[e].window = guard[e].window
    BY <2>1, OrderTypes DEF CancelGuard
  <2>3. Deadlines(escrow[e], guard'[e], ledger)
    BY <1>0, <2>2 DEF Deadlines
  <2> QED
    BY <1>0, <2>1, <2>3, OneOrder
<1>7. CASE Cancel(e)
  <2>1. /\ Store(e, [escrow[e] EXCEPT !.status = "Cancelled"])
        /\ escrow[e].status = "Created"
        /\ \A f \in EscrowIds \ {e} : guard'[f] = guard[f]
        /\ UNCHANGED <<ledger, deposited, toSeller, toBuyer>>
    BY <1>7 DEF Cancel, MayCancel, TypeOK
  <2>2. /\ escrow'[e] = [[escrow[e] EXCEPT !.status = "Cancelled"] EXCEPT !.updated = ledger]
        /\ \A f \in EscrowIds \ {e} : escrow'[f] = escrow[f]
    BY <2>1, StoreEffect
  <2>3. /\ escrow'[e].status = "Cancelled" /\ escrow'[e].amount = escrow[e].amount
        /\ escrow'[e].released = escrow[e].released /\ escrow'[e].refunded = escrow[e].refunded
    BY <2>2, OrderTypes DEF EscrowRecord
  <2>4. /\ Accounts(escrow'[e], deposited'[e], toSeller'[e], toBuyer'[e])
        /\ Deadlines(escrow'[e], guard'[e], ledger)
    BY <1>0, <2>1, <2>3 DEF Accounts, Deadlines, Statuses, NoRecord
  <2> QED
    BY <2>1, <2>2, <2>4, OneOrder
<1> QED
  BY <1>1, <1>2, <1>3, <1>4, <1>5, <1>6, <1>7 DEF OpenStep

(* A release keeps the account exact and leaves the record open or drained. *)
LEMMA ExecuteReleaseInv ==
  ASSUME CoreInv, TypeOK', NEW e \in EscrowIds, NEW x \in Nat, ExecuteRelease(e, x),
         escrow[e].status = "Funded", UNCHANGED <<ledger, guard, deposited, toBuyer>>
  PROVE  CoreInv'
<1> USE DEF CoreInv
<1>0. Accounts(escrow[e], deposited[e], toSeller[e], toBuyer[e])
  OBVIOUS
<1> DEFINE r == escrow[e]
           status == IF Remaining(r) - x = 0 THEN "Released" ELSE r.status
           record == [r EXCEPT !.released = @ + x, !.status = status]
<1>1. /\ x > 0 /\ x <= Remaining(r)
      /\ Store(e, record)
      /\ toSeller' = [toSeller EXCEPT ![e] = @ + x]
  BY DEF ExecuteRelease
<1>2. /\ escrow'[e] = [record EXCEPT !.updated = ledger]
      /\ \A f \in EscrowIds \ {e} : escrow'[f] = escrow[f]
  BY <1>1, StoreEffect
<1>3. /\ escrow'[e].released = r.released + x /\ escrow'[e].refunded = r.refunded
      /\ escrow'[e].amount = r.amount /\ escrow'[e].status = status
  BY <1>2, OrderTypes DEF EscrowRecord
<1>4. toSeller'[e] = toSeller[e] + x
  BY <1>1 DEF TypeOK
<1> HIDE DEF record
<1>5. /\ Accounts(escrow'[e], deposited'[e], toSeller'[e], toBuyer'[e])
      /\ Deadlines(escrow'[e], guard'[e], ledger)
  BY <1>0, <1>1, <1>3, <1>4, FieldTypes DEF Accounts, Deadlines, Remaining, Statuses, NoRecord
<1> QED
  BY <1>1, <1>2, <1>5, OneOrder DEF TypeOK

LEMMA PayStepInv ==
  ASSUME CoreInv, TypeOK', NEW e \in EscrowIds, PayStep(e)
  PROVE  CoreInv'
<1>1. ASSUME NEW caller \in Callers, NEW x \in 1..vault, PartialRelease(e, caller, x)
      PROVE  CoreInv'
  <2>1. x \in Nat
    BY OrderTypes DEF CoreInv
  <2> QED
    BY <1>1, <2>1, ExecuteReleaseInv DEF PartialRelease
<1>2. ASSUME NEW caller \in Callers, NEW x \in 1..vault, PartialRefund(e, caller, x)
      PROVE  CoreInv'
  <2> USE DEF CoreInv
  <2> DEFINE r == escrow[e]
             status == IF Remaining(r) = x THEN "Refunded" ELSE r.status
             record == [r EXCEPT !.refunded = @ + x, !.status = status]
  <2>0. Accounts(escrow[e], deposited[e], toSeller[e], toBuyer[e])
    OBVIOUS
  <2>1. /\ x > 0 /\ x <= Remaining(r) /\ x \in Nat
        /\ Store(e, record)
        /\ r.status \in {"Funded", "Inspection"}
        /\ toBuyer' = [toBuyer EXCEPT ![e] = @ + x]
        /\ UNCHANGED <<ledger, guard, deposited, toSeller>>
    BY <1>2 DEF PartialRefund, MayRefund, TypeOK
  <2>2. /\ escrow'[e] = [record EXCEPT !.updated = ledger]
        /\ \A f \in EscrowIds \ {e} : escrow'[f] = escrow[f]
    BY <2>1, StoreEffect
  <2>3. /\ escrow'[e].released = r.released /\ escrow'[e].refunded = r.refunded + x
        /\ escrow'[e].amount = r.amount /\ escrow'[e].status = status
    BY <2>2, OrderTypes DEF EscrowRecord
  <2>4. toBuyer'[e] = toBuyer[e] + x
    BY <2>1 DEF TypeOK
  <2> HIDE DEF record
  <2>5. /\ Accounts(escrow'[e], deposited'[e], toSeller'[e], toBuyer'[e])
        /\ Deadlines(escrow'[e], guard'[e], ledger)
    <3>1. /\ deposited'[e] = r.amount /\ toSeller'[e] = r.released
          /\ toBuyer'[e] = r.refunded + x
          /\ r.amount \in Nat /\ r.released \in Nat /\ r.refunded \in Nat
          /\ r.released + r.refunded + x <= r.amount
      BY <2>0, <2>1, <2>4, FieldTypes DEF Accounts, Remaining, Statuses
    <3>2. CASE Remaining(r) = x
      BY <2>1, <2>3, <3>1, <3>2 DEF Accounts, Deadlines, Remaining, Statuses, NoRecord
    <3>3. CASE Remaining(r) # x
      <4>1. escrow'[e].status \in {"Funded", "Inspection"}
        BY <2>1, <2>3, <3>3
      <4>2. /\ escrow'[e].released = r.released /\ escrow'[e].refunded = r.refunded + x
            /\ escrow'[e].amount = r.amount
            /\ r.released + (r.refunded + x) < r.amount
        BY <2>1, <2>3, <3>1, <3>3 DEF Remaining
      <4> HIDE DEF status, r
      <4> QED
        BY <3>1, <4>1, <4>2 DEF Accounts, Deadlines, Statuses, NoRecord
    <3> QED
      BY <3>2, <3>3
  <2> QED
    BY <2>1, <2>2, <2>5, OneOrder DEF TypeOK
<1>3. ASSUME NEW i \in DOMAIN milestones[e], ReleaseMilestone(e, i)
      PROVE  CoreInv'
  <2>1. milestones[e][i].amount \in Nat
    <3>1. milestones[e] \in Seq(Milestone)
      BY OrderTypes DEF CoreInv
    <3>2. milestones[e][i] \in Milestone
      BY <3>1, ElementOfSeq
    <3> QED
      BY <3>2 DEF Milestone
  <2> QED
    BY <1>3, <2>1, ExecuteReleaseInv DEF ReleaseMilestone
<1> QED
  BY <1>1, <1>2, <1>3 DEF PayStep

(* A step that only rewrites the timeout of a Funded record. *)
LEMMA TimeoutInv ==
  ASSUME CoreInv, TypeOK', NEW e \in EscrowIds, NEW n \in Nat,
         Store(e, [escrow[e] EXCEPT !.timeout = n]), escrow[e].status = "Funded",
         UNCHANGED <<ledger, guard, deposited, toSeller, toBuyer>>
  PROVE  CoreInv'
<1> USE DEF CoreInv
<1>0. Accounts(escrow[e], deposited[e], toSeller[e], toBuyer[e])
  OBVIOUS
<1>1. /\ escrow'[e] = [[escrow[e] EXCEPT !.timeout = n] EXCEPT !.updated = ledger]
      /\ \A f \in EscrowIds \ {e} : escrow'[f] = escrow[f]
  BY StoreEffect
<1>2. /\ escrow'[e].released = escrow[e].released /\ escrow'[e].refunded = escrow[e].refunded
      /\ escrow'[e].amount = escrow[e].amount /\ escrow'[e].status = escrow[e].status
  BY <1>1, OrderTypes DEF EscrowRecord
<1>3. /\ Accounts(escrow'[e], deposited'[e], toSeller'[e], toBuyer'[e])
      /\ Deadlines(escrow'[e], guard'[e], ledger)
  BY <1>0, <1>2 DEF Accounts, Deadlines
<1> QED
  BY <1>1, <1>3, OneOrder

LEMMA UpkeepStepInv ==
  ASSUME CoreInv, TypeOK', NEW e \in EscrowIds, UpkeepStep(e)
  PROVE  CoreInv'
<1>1. CASE RecordShipmentProof(e)
  BY <1>1 DEF CoreInv, RecordShipmentProof
<1>2. ASSUME NEW require \in BOOLEAN, SetRequireReleaseCondition(e, require)
      PROVE  CoreInv'
  BY <1>2 DEF CoreInv, SetRequireReleaseCondition
<1>3. ASSUME NEW deadline \in 1..MaxLedger, ExtendTimeout(e, deadline)
      PROVE  CoreInv'
  BY <1>3, ConstantTypes, TimeoutInv DEF ExtendTimeout
<1>4. CASE KeeperBump(e)
  <2>1. escrow[e].timeout + BumpExtension \in Nat
    BY ConstantTypes, FieldTypes DEF CoreInv
  <2> QED
    BY <1>4, <2>1, TimeoutInv DEF KeeperBump
<1>5. CASE Archive(e)
  <2> USE DEF CoreInv
  <2>0. Accounts(escrow[e], deposited[e], toSeller[e], toBuyer[e])
    OBVIOUS
  <2>1. /\ escrow[e].status \in Terminal
        /\ escrow'[e] = Blank("Archived")
        /\ \A f \in EscrowIds \ {e} : escrow'[f] = escrow[f]
        /\ UNCHANGED <<ledger, guard, deposited, toSeller, toBuyer>>
    BY <1>5 DEF Archive, TypeOK
  <2>2. toSeller[e] + toBuyer[e] = deposited[e]
    BY <2>0, <2>1, FieldTypes DEF Accounts, Terminal, Statuses
  <2>3. /\ Accounts(escrow'[e], deposited'[e], toSeller'[e], toBuyer'[e])
        /\ Deadlines(escrow'[e], guard'[e], ledger)
    BY <2>1, <2>2 DEF Accounts, Deadlines, Blank, Statuses, NoRecord
  <2> QED
    BY <2>1, <2>3, OneOrder
<1> QED
  BY <1>1, <1>2, <1>3, <1>4, <1>5 DEF UpkeepStep

(* A batch opens several orders, each as deposit would. *)
LEMMA BatchCreateInv ==
  ASSUME CoreInv, TypeOK', NEW batch \in SUBSET EscrowIds, NEW a \in Amounts, NEW term \in Terms,
         BatchCreate(batch, a, term)
  PROVE  CoreInv'
<1> USE DEF CoreInv
<1>1. a \in Nat /\ a > 0
  BY ConstantTypes
<1>2. ASSUME NEW f \in EscrowIds
      PROVE  /\ Accounts(escrow'[f], deposited'[f], toSeller'[f], toBuyer'[f])
             /\ Deadlines(escrow'[f], guard'[f], ledger')
  <2>1. CASE f \in batch
    <3>1. /\ escrow'[f] = NewRecord("Funded", a, term) /\ guard'[f] = NewGuard
          /\ deposited'[f] = a /\ toSeller'[f] = 0 /\ toBuyer'[f] = 0
          /\ ledger' = ledger
      BY <2>1 DEF BatchCreate, Accounts
    <3> QED
      BY <1>1, <3>1, FreshRecord
  <2>2. CASE f \notin batch
    BY <2>2 DEF BatchCreate
  <2> QED
    BY <2>1, <2>2
<1> QED
  BY <1>2

LEMMA StepInv == CoreInv /\ [CoreNext]_coreVars => CoreInv'
<1> SUFFICES ASSUME CoreInv, [CoreNext]_coreVars
             PROVE  CoreInv'
  OBVIOUS
<1>0. TypeOK'
  BY StepType DEF CoreInv
<1>1. CASE CloseLedger
  <2>1. ASSUME NEW e \in EscrowIds
        PROVE  /\ Accounts(escrow'[e], deposited'[e], toSeller'[e], toBuyer'[e])
               /\ Deadlines(escrow'[e], guard'[e], ledger')
    BY <1>1, OrderTypes DEF CloseLedger, recordVars, CoreInv, Deadlines, EscrowRecord
  <2> QED
    BY <1>0, <2>1 DEF CoreInv
<1>2. ASSUME NEW window \in Lockouts, SetCancelLockout(window)
      PROVE  CoreInv'
  BY <1>0, <1>2 DEF CoreInv, SetCancelLockout, recordVars
<1>3. CASE UNCHANGED coreVars
  BY <1>0, <1>3 DEF CoreInv, coreVars, recordVars
<1> QED
  BY <1>0, <1>1, <1>2, <1>3, BatchCreateInv, OpenStepInv, PayStepInv, UpkeepStepInv DEF CoreNext

THEOREM CoreInvariant == CoreSpec => []CoreInv
  BY InitInv, StepInv, PTL DEF CoreSpec

-----------------------------------------------------------------------------
(* What the invariant gives. *)

LEMMA BooksFollow == CoreInv => BooksMatchTokens
<1> SUFFICES ASSUME CoreInv, NEW e \in EscrowIds, HasRecord(e)
             PROVE  /\ toSeller[e] = escrow[e].released
                    /\ toBuyer[e] = escrow[e].refunded
                    /\ deposited[e] = IF escrow[e].status \in {"Created", "Cancelled"}
                                      THEN 0 ELSE escrow[e].amount
                    /\ toSeller[e] + toBuyer[e] <= deposited[e]
  BY DEF BooksMatchTokens
<1>1. Accounts(escrow[e], deposited[e], toSeller[e], toBuyer[e]) /\ TypeOK
  BY DEF CoreInv
<1> QED
  BY <1>1, FieldTypes DEF Accounts, HasRecord, Statuses

(* contracts.md, Invariant 1, with the tokens that really moved: of every  *)
(* order, what the record says was released and refunded is what left.     *)
THEOREM CoreBooksMatchTokens == CoreSpec => []BooksMatchTokens
  BY BooksFollow, CoreInvariant, PTL

(* The status of a record tells what is left of its money. *)
THEOREM CoreStatusMatchesBalance == CoreSpec => []StatusMatchesBalance
<1>1. CoreInv => StatusMatchesBalance
  <2> SUFFICES ASSUME CoreInv, NEW e \in EscrowIds
               PROVE  StatusMatchesBalance!(e)
    BY DEF StatusMatchesBalance
  <2>1. Accounts(escrow[e], deposited[e], toSeller[e], toBuyer[e]) /\ TypeOK
    BY DEF CoreInv
  <2> QED
    BY <2>1, FieldTypes DEF Accounts, Remaining, Statuses, NoRecord
<1> QED
  BY <1>1, CoreInvariant, PTL

(* No record is forgotten while tokens of its order are still in the vault. *)
THEOREM CoreArchivedIsPaidOut == CoreSpec => []ArchivedIsPaidOut
<1>1. CoreInv => ArchivedIsPaidOut
  BY DEF CoreInv, Accounts, ArchivedIsPaidOut
<1> QED
  BY <1>1, CoreInvariant, PTL

-----------------------------------------------------------------------------
(***************************************************************************)
(* The steps of the core: what one call may do to an order, and from that  *)
(* the action properties and the refinement of Custody.                    *)
(***************************************************************************)
(* The moves of one order. *)

Same(f) ==
  escrow'[f] = escrow[f] /\ deposited'[f] = deposited[f]
  /\ toSeller'[f] = toSeller[f] /\ toBuyer'[f] = toBuyer[f]

(* No token moves for the order. *)
Still(f) ==
  deposited'[f] = deposited[f] /\ toSeller'[f] = toSeller[f] /\ toBuyer'[f] = toBuyer[f]

Opens(f) ==
  escrow[f].status = "Unused" /\ escrow'[f].status = "Created" /\ Still(f)

Fills(f) ==
  /\ escrow[f].status \in {"Unused", "Created"}
  /\ escrow'[f].status = "Funded"
  /\ deposited'[f] \in Nat \ {0}
  /\ toSeller'[f] = toSeller[f] /\ toBuyer'[f] = toBuyer[f]

Drops(f) ==
  MayCancel(f) /\ escrow'[f].status = "Cancelled" /\ Still(f)

Edits(f) ==
  escrow[f].status = "Funded" /\ escrow'[f].status = "Funded" /\ Still(f)

(* A payment of n tokens, to either side, from what the order still holds. *)
Draws(f) ==
  /\ escrow[f].status \in {"Funded", "Inspection"}
  /\ deposited'[f] = deposited[f]
  /\ \E n \in Nat \ {0} :
       /\ toSeller'[f] + toBuyer'[f] = toSeller[f] + toBuyer[f] + n
       /\ toSeller[f] + toBuyer[f] + n <= deposited[f]
       /\ escrow'[f].status \in
            IF toSeller[f] + toBuyer[f] + n = deposited[f]
            THEN {"Released", "Refunded"} ELSE {escrow[f].status}

Archives(f) ==
  escrow[f].status \in Terminal /\ escrow'[f].status = "Archived" /\ Still(f)

LEMMA OpenMoves ==
  ASSUME CoreInv, NEW e \in EscrowIds, OpenStep(e)
  PROVE  /\ Opens(e) \/ Fills(e) \/ Drops(e) \/ Same(e)
         /\ \A f \in EscrowIds \ {e} : Same(f)
<1>0. TypeOK /\ Accounts(escrow[e], deposited[e], toSeller[e], toBuyer[e])
  BY DEF CoreInv
<1>1. ASSUME NEW a \in Amounts, NEW term \in Terms, Create(e, a, term)
      PROVE  Opens(e) /\ \A f \in EscrowIds \ {e} : Same(f)
  BY <1>0, <1>1 DEF Create, NewRecord, TypeOK, Opens, Still, Same
<1>2. ASSUME NEW a \in Amounts, NEW term \in Terms, NEW s \in Surpluses, Deposit(e, a, term, s)
      PROVE  Fills(e) /\ \A f \in EscrowIds \ {e} : Same(f)
  <2>1. a + s \in Nat /\ a + s > 0
    BY ConstantTypes
  <2> QED
    BY <1>0, <1>2, <2>1 DEF Deposit, Receive, NewRecord, TypeOK, Accounts, Fills, Same
<1>3. ASSUME NEW schedule \in Schedules, NEW term \in Terms, NEW s \in Surpluses,
             CreateMilestoneEscrow(e, schedule, term, s)
      PROVE  Fills(e) /\ \A f \in EscrowIds \ {e} : Same(f)
  <2> DEFINE total == SumFunction(schedule) + s
  <2>1. total \in Nat /\ total > 0
    BY <1>3, ConstantTypes DEF CreateMilestoneEscrow
  <2>2. /\ escrow' = [escrow EXCEPT ![e] = NewRecord("Funded", total, term)]
        /\ deposited' = [deposited EXCEPT ![e] = deposited[e] + total]
        /\ escrow[e].status = "Unused"
        /\ UNCHANGED <<toSeller, toBuyer>>
    BY <1>3 DEF CreateMilestoneEscrow, Receive
  <2> HIDE DEF total
  <2> QED
    BY <1>0, <2>1, <2>2 DEF NewRecord, TypeOK, Accounts, Fills, Same
<1>4. ASSUME NEW s \in Surpluses, Fund(e, s)
      PROVE  Fills(e) /\ \A f \in EscrowIds \ {e} : Same(f)
  <2> DEFINE received == escrow[e].amount + s
             record == [escrow[e] EXCEPT !.amount = received, !.status = "Funded"]
  <2>1. /\ Store(e, record)
        /\ deposited' = [deposited EXCEPT ![e] = @ + received]
        /\ escrow[e].status = "Created"
        /\ UNCHANGED <<toSeller, toBuyer>>
    BY <1>4 DEF Fund, Receive
  <2>2. received \in Nat /\ received > 0
    BY <1>0, <2>1, ConstantTypes, FieldTypes DEF Accounts
  <2>3. /\ escrow'[e] = [record EXCEPT !.updated = ledger]
        /\ \A f \in EscrowIds \ {e} : escrow'[f] = escrow[f]
    BY <1>0, <2>1, StoreEffect
  <2>4. escrow'[e].status = "Funded"
    BY <1>0, <2>3, OrderTypes DEF EscrowRecord
  <2> HIDE DEF received, record
  <2> QED
    BY <1>0, <2>1, <2>2, <2>3, <2>4 DEF TypeOK, Accounts, Fills, Same
<1>5. CASE AcceptOrder(e)
  BY <1>5 DEF AcceptOrder, Same
<1>6. CASE AgreeCancel(e)
  BY <1>6 DEF AgreeCancel, Same
<1>7. CASE Cancel(e)
  <2>1. /\ escrow'[e] = [[escrow[e] EXCEPT !.status = "Cancelled"] EXCEPT !.updated = ledger]
        /\ \A f \in EscrowIds \ {e} : escrow'[f] = escrow[f]
    BY <1>0, <1>7, StoreEffect DEF Cancel
  <2>2. escrow'[e].status = "Cancelled"
    BY <1>0, <2>1, OrderTypes DEF EscrowRecord
  <2> QED
    BY <1>7, <2>1, <2>2 DEF Cancel, Drops, Still, Same
<1> QED
  BY <1>1, <1>2, <1>3, <1>4, <1>5, <1>6, <1>7 DEF OpenStep

LEMMA ReleaseDraws ==
  ASSUME CoreInv, NEW e \in EscrowIds, NEW x \in Nat, ExecuteRelease(e, x),
         escrow[e].status = "Funded", UNCHANGED <<deposited, toBuyer>>
  PROVE  Draws(e) /\ \A f \in EscrowIds \ {e} : Same(f)
<1> DEFINE r == escrow[e]
           status == IF Remaining(r) - x = 0 THEN "Released" ELSE r.status
           record == [r EXCEPT !.released = @ + x, !.status = status]
<1>0. TypeOK /\ Accounts(escrow[e], deposited[e], toSeller[e], toBuyer[e])
  BY DEF CoreInv
<1>1. /\ x > 0 /\ x <= Remaining(r)
      /\ Store(e, record)
      /\ toSeller' = [toSeller EXCEPT ![e] = @ + x]
  BY DEF ExecuteRelease
<1>2. /\ escrow'[e] = [record EXCEPT !.updated = ledger]
      /\ \A f \in EscrowIds \ {e} : escrow'[f] = escrow[f]
  BY <1>0, <1>1, StoreEffect
<1>3. escrow'[e].status = status
  BY <1>0, <1>2, OrderTypes DEF EscrowRecord
<1>4. toSeller'[e] = toSeller[e] + x
  BY <1>0, <1>1 DEF TypeOK
<1>5. /\ deposited[e] = r.amount /\ toSeller[e] = r.released /\ toBuyer[e] = r.refunded
      /\ r.amount \in Nat /\ r.released \in Nat /\ r.refunded \in Nat
  BY <1>0, FieldTypes DEF Accounts, Statuses
<1>6. /\ toSeller'[e] + toBuyer'[e] = toSeller[e] + toBuyer[e] + x
      /\ toSeller[e] + toBuyer[e] + x <= deposited[e]
      /\ (toSeller[e] + toBuyer[e] + x = deposited[e]) <=> (Remaining(r) - x = 0)
  BY <1>1, <1>4, <1>5 DEF Remaining
<1> HIDE DEF record
<1>7. Draws(e)
  BY <1>1, <1>3, <1>6 DEF Draws
<1> QED
  BY <1>0, <1>1, <1>2, <1>7 DEF Same, TypeOK

LEMMA PayMoves ==
  ASSUME CoreInv, NEW e \in EscrowIds, PayStep(e)
  PROVE  Draws(e) /\ \A f \in EscrowIds \ {e} : Same(f)
<1>0. TypeOK /\ Accounts(escrow[e], deposited[e], toSeller[e], toBuyer[e])
  BY DEF CoreInv
<1>1. ASSUME NEW caller \in Callers, NEW x \in 1..vault, PartialRelease(e, caller, x)
      PROVE  Draws(e) /\ \A f \in EscrowIds \ {e} : Same(f)
  <2>1. x \in Nat
    BY <1>0, OrderTypes
  <2> QED
    BY <1>1, <2>1, ReleaseDraws DEF PartialRelease
<1>2. ASSUME NEW caller \in Callers, NEW x \in 1..vault, PartialRefund(e, caller, x)
      PROVE  Draws(e) /\ \A f \in EscrowIds \ {e} : Same(f)
  <2> DEFINE r == escrow[e]
             status == IF Remaining(r) = x THEN "Refunded" ELSE r.status
             record == [r EXCEPT !.refunded = @ + x, !.status = status]
  <2>1. /\ x > 0 /\ x <= Remaining(r) /\ x \in Nat
        /\ Store(e, record)
        /\ r.status \in {"Funded", "Inspection"}
        /\ toBuyer' = [toBuyer EXCEPT ![e] = @ + x]
        /\ UNCHANGED <<deposited, toSeller>>
    BY <1>0, <1>2 DEF PartialRefund, MayRefund, TypeOK
  <2>2. /\ escrow'[e] = [record EXCEPT !.updated = ledger]
        /\ \A f \in EscrowIds \ {e} : escrow'[f] = escrow[f]
    BY <1>0, <2>1, StoreEffect
  <2>3. escrow'[e].status = status
    BY <1>0, <2>2, OrderTypes DEF EscrowRecord
  <2>4. toBuyer'[e] = toBuyer[e] + x
    BY <1>0, <2>1 DEF TypeOK
  <2>5. /\ deposited[e] = r.amount /\ toSeller[e] = r.released /\ toBuyer[e] = r.refunded
        /\ r.amount \in Nat /\ r.released \in Nat /\ r.refunded \in Nat
    BY <1>0, <2>1, FieldTypes DEF Accounts, Statuses
  <2>6. /\ toSeller'[e] + toBuyer'[e] = toSeller[e] + toBuyer[e] + x
        /\ toSeller[e] + toBuyer[e] + x <= deposited[e]
        /\ (toSeller[e] + toBuyer[e] + x = deposited[e]) <=> (Remaining(r) = x)
    BY <2>1, <2>4, <2>5 DEF Remaining
  <2> HIDE DEF record
  <2>7. Draws(e)
    BY <2>1, <2>3, <2>6 DEF Draws
  <2> QED
    BY <1>0, <2>1, <2>2, <2>7 DEF Same, TypeOK
<1>3. ASSUME NEW i \in DOMAIN milestones[e], ReleaseMilestone(e, i)
      PROVE  Draws(e) /\ \A f \in EscrowIds \ {e} : Same(f)
  <2>1. milestones[e][i] \in Milestone
    BY <1>0, OrderTypes, ElementOfSeq
  <2>2. milestones[e][i].amount \in Nat
    BY <2>1 DEF Milestone
  <2> QED
    BY <1>3, <2>2, ReleaseDraws DEF ReleaseMilestone
<1> QED
  BY <1>1, <1>2, <1>3 DEF PayStep

LEMMA UpkeepMoves ==
  ASSUME CoreInv, NEW e \in EscrowIds, UpkeepStep(e)
  PROVE  /\ Same(e) \/ Edits(e) \/ Archives(e)
         /\ \A f \in EscrowIds \ {e} : Same(f)
<1>0. TypeOK
  BY DEF CoreInv
<1>1. CASE RecordShipmentProof(e)
  BY <1>1 DEF RecordShipmentProof, Same
<1>2. ASSUME NEW require \in BOOLEAN, SetRequireReleaseCondition(e, require)
      PROVE  \A f \in EscrowIds : Same(f)
  BY <1>2 DEF SetRequireReleaseCondition, Same
<1>t. ASSUME NEW n, Store(e, [escrow[e] EXCEPT !.timeout = n]), escrow[e].status = "Funded",
             UNCHANGED <<deposited, toSeller, toBuyer>>
      PROVE  Edits(e) /\ \A f \in EscrowIds \ {e} : Same(f)
  <2>1. /\ escrow'[e] = [[escrow[e] EXCEPT !.timeout = n] EXCEPT !.updated = ledger]
        /\ \A f \in EscrowIds \ {e} : escrow'[f] = escrow[f]
    BY <1>0, <1>t, StoreEffect
  <2>2. escrow'[e].status = escrow[e].status
    BY <1>0, <2>1, OrderTypes DEF EscrowRecord
  <2> QED
    BY <1>t, <2>1, <2>2 DEF Edits, Same, Still
<1>3. ASSUME NEW deadline \in 1..MaxLedger, ExtendTimeout(e, deadline)
      PROVE  Edits(e) /\ \A f \in EscrowIds \ {e} : Same(f)
  BY <1>3, <1>t DEF ExtendTimeout
<1>4. ASSUME KeeperBump(e)
      PROVE  Edits(e) /\ \A f \in EscrowIds \ {e} : Same(f)
  BY <1>4, <1>t DEF KeeperBump
<1>5. ASSUME Archive(e)
      PROVE  Archives(e) /\ \A f \in EscrowIds \ {e} : Same(f)
  BY <1>0, <1>5 DEF Archive, Blank, Archives, Still, Same, TypeOK
<1> QED
  BY <1>1, <1>2, <1>3, <1>4, <1>5 DEF UpkeepStep

LEMMA BatchMoves ==
  ASSUME CoreInv, NEW batch \in SUBSET EscrowIds, NEW a \in Amounts, NEW term \in Terms,
         BatchCreate(batch, a, term)
  PROVE  /\ \A f \in batch : Fills(f)
         /\ \A f \in EscrowIds \ batch : Same(f)
<1>1. a \in Nat \ {0}
  BY ConstantTypes
<1> QED
  BY <1>1 DEF BatchCreate, NewRecord, Fills, Same

(* What any step does to any order. *)
LEMMA StepMoves ==
  ASSUME CoreInv, [CoreNext]_coreVars, NEW f \in EscrowIds
  PROVE  Same(f) \/ Opens(f) \/ Fills(f) \/ Drops(f) \/ Edits(f) \/ Draws(f) \/ Archives(f)
<1>1. CASE CloseLedger
  BY <1>1 DEF CloseLedger, recordVars, Same
<1>2. ASSUME NEW window \in Lockouts, SetCancelLockout(window)
      PROVE  Same(f)
  BY <1>2 DEF SetCancelLockout, recordVars, Same
<1>3. CASE UNCHANGED coreVars
  BY <1>3 DEF coreVars, recordVars, Same
<1>4. ASSUME NEW batch \in SUBSET EscrowIds, NEW a \in Amounts, NEW term \in Terms,
             BatchCreate(batch, a, term)
      PROVE  Fills(f) \/ Same(f)
  BY <1>4, BatchMoves
<1>5. ASSUME NEW e \in EscrowIds, OpenStep(e)
      PROVE  Same(f) \/ Opens(f) \/ Fills(f) \/ Drops(f)
  BY <1>5, OpenMoves
<1>6. ASSUME NEW e \in EscrowIds, PayStep(e)
      PROVE  Same(f) \/ Draws(f)
  BY <1>6, PayMoves
<1>7. ASSUME NEW e \in EscrowIds, UpkeepStep(e)
      PROVE  Same(f) \/ Edits(f) \/ Archives(f)
  BY <1>7, UpkeepMoves
<1> QED
  BY <1>1, <1>2, <1>3, <1>4, <1>5, <1>6, <1>7 DEF CoreNext

-----------------------------------------------------------------------------
(* Action properties. *)

(* A terminal record is frozen and no token moves for it (contracts.md,    *)
(* Invariant 2).                                                           *)
THEOREM CoreTerminalIsFinal == CoreSpec => TerminalIsFinal
<1>1. CoreInv /\ [CoreNext]_coreVars =>
        [\A e \in EscrowIds : escrow[e].status \in Terminal =>
           /\ escrow'[e] = escrow[e] \/ escrow'[e].status = "Archived"
           /\ <<deposited[e], toSeller[e], toBuyer[e]>>' =
              <<deposited[e], toSeller[e], toBuyer[e]>>]_coreVars
  <2> SUFFICES ASSUME CoreInv, [CoreNext]_coreVars, NEW e \in EscrowIds,
                      escrow[e].status \in Terminal
               PROVE  /\ escrow'[e] = escrow[e] \/ escrow'[e].status = "Archived"
                      /\ <<deposited[e], toSeller[e], toBuyer[e]>>' =
                         <<deposited[e], toSeller[e], toBuyer[e]>>
    OBVIOUS
  <2>1. Same(e) \/ Archives(e)
    BY StepMoves DEF Opens, Fills, Drops, MayCancel, Edits, Draws, Terminal
  <2> QED
    BY <2>1 DEF Same, Archives, Still
<1> QED
  BY <1>1, CoreInvariant, PTL DEF CoreSpec, TerminalIsFinal

(* The seller's cancel waits for the window promised when the order was    *)
(* opened, however often the admin changes the setting.                    *)
THEOREM CoreCancelHonoursWindow == CoreSpec => CancelHonoursWindow
<1>1. CoreInv /\ [CoreNext]_coreVars =>
        [\A e \in EscrowIds :
           escrow[e].status = "Created" /\ escrow'[e].status = "Cancelled" =>
             \/ guard[e].agreed
             \/ TimedOut(e)
             \/ ledger >= escrow[e].created + guard[e].window]_coreVars
  <2> SUFFICES ASSUME CoreInv, [CoreNext]_coreVars, NEW e \in EscrowIds,
                      escrow[e].status = "Created", escrow'[e].status = "Cancelled"
               PROVE  \/ guard[e].agreed
                      \/ TimedOut(e)
                      \/ ledger >= escrow[e].created + guard[e].window
    OBVIOUS
  <2>1. MayCancel(e)
    BY StepMoves DEF Same, Opens, Fills, Drops, Edits, Draws, Archives
  <2>2. Deadlines(escrow[e], guard[e], ledger) /\ TypeOK
    BY DEF CoreInv
  <2>3. escrow[e].created \in Nat /\ guard[e].window \in Nat /\ guard[e].allowed \in Nat
        /\ ledger \in Nat
    BY <2>2, OrderTypes DEF EscrowRecord, CancelGuard
  <2> QED
    BY <2>1, <2>2, <2>3 DEF MayCancel, Deadlines
<1> QED
  BY <1>1, CoreInvariant, PTL DEF CoreSpec, CancelHonoursWindow

-----------------------------------------------------------------------------
(* The refinement of Custody: each move of an order is one of its box.     *)

LEMMA BoxAt ==
  ASSUME NEW e \in EscrowIds
  PROVE  /\ BoxOf[e] = [state |-> BoxState(e), in |-> deposited[e],
                        out |-> toSeller[e] + toBuyer[e]]
         /\ BoxOf'[e] = [state |-> BoxState(e)', in |-> deposited'[e],
                         out |-> toSeller'[e] + toBuyer'[e]]
  BY DEF BoxOf

LEMMA BoxStates ==
  ASSUME CoreInv, NEW e \in EscrowIds
  PROVE  /\ escrow[e].status \in {"Unused", "Created"} =>
              BoxState(e) = "new" /\ deposited[e] = 0 /\ toSeller[e] + toBuyer[e] = 0
         /\ escrow[e].status \in {"Funded", "Inspection"} => BoxState(e) = "open"
         /\ escrow[e].status \in Terminal \cup {"Archived"} => BoxState(e) = "shut"
         /\ deposited[e] \in Nat /\ toSeller[e] + toBuyer[e] \in Nat
<1>1. TypeOK /\ Accounts(escrow[e], deposited[e], toSeller[e], toBuyer[e])
  BY DEF CoreInv
<1>2. escrow[e].status \in {"Unused", "Created"} => BoxState(e) = "new"
  BY DEF BoxState, Terminal
<1>3. escrow[e].status \in {"Funded", "Inspection"} => BoxState(e) = "open"
  BY DEF BoxState, Terminal
<1>4. escrow[e].status \in Terminal \cup {"Archived"} => BoxState(e) = "shut"
  BY DEF BoxState, Terminal
<1>5. /\ deposited[e] \in Nat /\ toSeller[e] + toBuyer[e] \in Nat
      /\ escrow[e].status \in {"Unused", "Created"} =>
           deposited[e] = 0 /\ toSeller[e] + toBuyer[e] = 0
  BY <1>1, OrderTypes DEF Accounts, Statuses
<1> QED
  BY <1>2, <1>3, <1>4, <1>5

(* An order whose step moves no money keeps its box. *)
LEMMA BoxKept ==
  ASSUME CoreInv, CoreInv', NEW e \in EscrowIds,
         Same(e) \/ Opens(e) \/ Edits(e) \/ Archives(e)
  PROVE  BoxOf'[e] = BoxOf[e]
<1>1. CASE Same(e)
  BY <1>1, BoxAt DEF Same, BoxState
<1>2. CASE Opens(e)
  BY <1>2, BoxAt DEF Opens, Still, BoxState, Terminal
<1>3. CASE Edits(e)
  BY <1>3, BoxAt DEF Edits, Still, BoxState
<1>4. CASE Archives(e)
  BY <1>4, BoxAt DEF Archives, Still, BoxState, Terminal
<1> QED
  BY <1>1, <1>2, <1>3, <1>4

LEMMA BoxFilled ==
  ASSUME CoreInv, CoreInv', NEW filled \in SUBSET EscrowIds,
         \A e \in filled : Fills(e),
         \A e \in EscrowIds \ filled : Same(e)
  PROVE  Boxed!Fill(filled)
<1>1. ASSUME NEW e \in filled
      PROVE  /\ BoxOf[e] = Boxed!NewBox
             /\ BoxOf'[e].in \in Nat \ {0}
             /\ BoxOf'[e] = [state |-> "open", in |-> BoxOf'[e].in, out |-> 0]
  <2>1. Fills(e) /\ e \in EscrowIds
    OBVIOUS
  <2>2. BoxOf[e] = Boxed!NewBox
    BY <2>1, BoxAt, BoxStates DEF Fills, Boxed!NewBox
  <2>3. BoxState(e)' = "open" /\ toSeller'[e] + toBuyer'[e] = 0
    BY <2>1, BoxStates DEF Fills, BoxState, Terminal
  <2>4. BoxOf'[e] = [state |-> "open", in |-> deposited'[e], out |-> 0]
    BY <2>1, <2>3, BoxAt
  <2> QED
    BY <2>1, <2>2, <2>4 DEF Fills
<1>2. ASSUME NEW e \in EscrowIds \ filled
      PROVE  BoxOf'[e] = BoxOf[e]
  BY BoxKept
<1>3. BoxOf' = [e \in EscrowIds |->
                  IF e \in filled
                  THEN [state |-> "open", in |-> BoxOf'[e].in, out |-> 0]
                  ELSE BoxOf[e]]
  <2>1. BoxOf' = [e \in EscrowIds |-> BoxOf'[e]]
    BY DEF BoxOf
  <2> QED
    BY <1>1, <1>2, <2>1
<1> QED
  BY <1>1, <1>3 DEF Boxed!Fill

(* A step that touches only e changes only the box of e. *)
LEMMA OneBox ==
  ASSUME CoreInv, CoreInv', NEW e \in EscrowIds, \A f \in EscrowIds \ {e} : Same(f)
  PROVE  BoxOf' = [BoxOf EXCEPT ![e] = BoxOf'[e]]
<1>1. ASSUME NEW f \in EscrowIds \ {e}
      PROVE  BoxOf'[f] = BoxOf[f]
  BY BoxKept
<1>2. /\ BoxOf = [f \in EscrowIds |-> BoxOf[f]]
      /\ BoxOf' = [f \in EscrowIds |-> BoxOf'[f]]
  BY DEF BoxOf
<1> HIDE DEF BoxOf
<1> QED
  BY <1>1, <1>2

LEMMA BoxDropped ==
  ASSUME CoreInv, CoreInv', NEW e \in EscrowIds, Drops(e), \A f \in EscrowIds \ {e} : Same(f)
  PROVE  Boxed!Drop(e)
<1>1. BoxOf[e].state = "new"
  <2>1. BoxState(e) = "new"
    BY BoxStates DEF Drops, MayCancel
  <2>2. BoxOf[e] = [state |-> BoxState(e), in |-> deposited[e], out |-> toSeller[e] + toBuyer[e]]
    BY BoxAt
  <2> QED
    BY <2>1, <2>2
<1>2. BoxState(e)' = "shut"
  BY DEF Drops, BoxState, Terminal
<1>3. BoxOf'[e] = [BoxOf[e] EXCEPT !.state = "shut"]
  <2>1. BoxOf'[e] = [state |-> "shut", in |-> deposited[e], out |-> toSeller[e] + toBuyer[e]]
    BY <1>2, BoxAt DEF Drops, Still
  <2>2. BoxOf[e] = [state |-> BoxState(e), in |-> deposited[e], out |-> toSeller[e] + toBuyer[e]]
    BY BoxAt
  <2> QED
    BY <2>1, <2>2
<1> QED
  BY <1>1, <1>3, OneBox DEF Boxed!Drop

LEMMA BoxDrawn ==
  ASSUME CoreInv, CoreInv', NEW e \in EscrowIds, Draws(e), \A f \in EscrowIds \ {e} : Same(f)
  PROVE  \E n \in 1..BoxOf[e].in : Boxed!Draw(e, n)
<1>1. PICK n \in Nat \ {0} :
        /\ toSeller'[e] + toBuyer'[e] = toSeller[e] + toBuyer[e] + n
        /\ toSeller[e] + toBuyer[e] + n <= deposited[e]
        /\ escrow'[e].status \in
             IF toSeller[e] + toBuyer[e] + n = deposited[e]
             THEN {"Released", "Refunded"} ELSE {escrow[e].status}
  BY DEF Draws
<1> DEFINE out == toSeller[e] + toBuyer[e]
<1>2. /\ BoxOf[e] = [state |-> "open", in |-> deposited[e], out |-> out]
      /\ out \in Nat /\ deposited[e] \in Nat
  BY BoxAt, BoxStates DEF Draws
<1>3. BoxState(e)' = IF out + n = deposited[e] THEN "shut" ELSE "open"
  BY <1>1 DEF Draws, BoxState, Terminal
<1>4. BoxOf'[e] = [state |-> IF out + n = deposited[e] THEN "shut" ELSE "open",
                   in |-> deposited[e], out |-> out + n]
  BY <1>1, <1>3, BoxAt DEF Draws
<1>5. n \in 1..BoxOf[e].in
  BY <1>1, <1>2
<1>6. Boxed!Draw(e, n)
  <2>1. BoxOf' = [BoxOf EXCEPT ![e] = BoxOf'[e]]
    BY OneBox
  <2> HIDE DEF out
  <2>2. BoxOf[e].out = out /\ BoxOf[e].in = deposited[e] /\ BoxOf[e].state = "open"
    BY <1>2
  <2>3. out + n <= deposited[e] /\ n > 0
    BY <1>1 DEF out
  <2> QED
    BY <1>4, <2>1, <2>2, <2>3 DEF Boxed!Draw
<1> QED
  BY <1>5, <1>6

LEMMA BoxStep == CoreInv /\ CoreInv' /\ [CoreNext]_coreVars => [Boxed!Next]_BoxOf
<1> SUFFICES ASSUME CoreInv, CoreInv', [CoreNext]_coreVars
             PROVE  Boxed!Next \/ BoxOf' = BoxOf
  OBVIOUS
<1> DEFINE Step(e) == /\ \A f \in EscrowIds \ {e} : Same(f)
                      /\ Same(e) \/ Opens(e) \/ Fills(e) \/ Drops(e) \/ Edits(e)
                         \/ Draws(e) \/ Archives(e)
<1>0. ASSUME \A f \in EscrowIds : Same(f) \/ Opens(f) \/ Edits(f) \/ Archives(f)
      PROVE  BoxOf' = BoxOf
  <2>1. \A f \in EscrowIds : BoxOf'[f] = BoxOf[f]
    BY <1>0, BoxKept
  <2>2. /\ BoxOf = [f \in EscrowIds |-> BoxOf[f]]
        /\ BoxOf' = [f \in EscrowIds |-> BoxOf'[f]]
    BY DEF BoxOf
  <2> HIDE DEF BoxOf
  <2> QED
    BY <2>1, <2>2
<1>1. ASSUME NEW e \in EscrowIds, Step(e)
      PROVE  Boxed!Next \/ BoxOf' = BoxOf
  <2>1. CASE Fills(e)
    <3>1. Boxed!Fill({e})
      BY <1>1, <2>1, BoxFilled
    <3> QED
      BY <3>1 DEF Boxed!Next
  <2>2. CASE Drops(e)
    BY <1>1, <2>2, BoxDropped DEF Boxed!Next
  <2>3. CASE Draws(e)
    BY <1>1, <2>3, BoxDrawn DEF Boxed!Next
  <2>4. CASE Same(e) \/ Opens(e) \/ Edits(e) \/ Archives(e)
    BY <1>0, <1>1, <2>4
  <2> QED
    BY <1>1, <2>1, <2>2, <2>3, <2>4
<1>2. ASSUME NEW batch \in SUBSET EscrowIds, NEW a \in Amounts, NEW term \in Terms,
             BatchCreate(batch, a, term)
      PROVE  Boxed!Next
  BY <1>2, BatchMoves, BoxFilled DEF Boxed!Next
<1>3. ASSUME NEW e \in EscrowIds, OpenStep(e) \/ PayStep(e) \/ UpkeepStep(e)
      PROVE  Step(e)
  BY <1>3, OpenMoves, PayMoves, UpkeepMoves
<1>4. CASE CloseLedger \/ (\E window \in Lockouts : SetCancelLockout(window)) \/ UNCHANGED coreVars
  BY <1>0, <1>4 DEF CloseLedger, SetCancelLockout, coreVars, recordVars, Same
<1> HIDE DEF Step
<1> QED
  BY <1>1, <1>2, <1>3, <1>4 DEF CoreNext

(* The escrow core implements Custody: every token of every order goes in  *)
(* once, comes out no further than it went in, and a shut order is final.  *)
THEOREM CoreImplementsCustody == CoreSpec => KeepsCustody
<1>1. CoreInit => Boxed!Init
  <2> SUFFICES ASSUME CoreInit
               PROVE  Boxed!Init
    OBVIOUS
  <2>1. ASSUME NEW e \in EscrowIds
        PROVE  /\ BoxState(e) = "new"
               /\ deposited[e] = 0 /\ toSeller[e] + toBuyer[e] = 0
    <3>1. escrow[e].status = "Unused"
      BY DEF CoreInit, Blank
    <3>2. BoxState(e) = "new"
      BY <3>1 DEF BoxState, Terminal
    <3> QED
      BY <3>2 DEF CoreInit
  <2> QED
    BY <2>1 DEF Boxed!Init, Boxed!NewBox, BoxOf
<1>2. CoreInv /\ CoreInv' /\ [CoreNext]_coreVars => [Boxed!Next]_BoxOf
  BY BoxStep
<1> QED
  BY <1>1, <1>2, CoreInvariant, PTL DEF CoreSpec, KeepsCustody, Boxed!Spec

-----------------------------------------------------------------------------
(***************************************************************************)
(* The tokens of the pool.  What the contract holds beyond the balances of *)
(* its orders is called its slack; no call of the core changes it.  The    *)
(* lemmas ask for types only, so that the modules that build on the core   *)
(* can use them where its invariant does not hold any more.                *)
(***************************************************************************)

Held(e) == deposited[e] - toSeller[e] - toBuyer[e]
HeldOf == [e \in EscrowIds |-> Held(e)]
Slack == vault + bounties - SumFunction(HeldOf)

(* Nothing came in or went out for an order that was never opened. *)
FreshAreEmpty ==
  \A e \in EscrowIds : escrow[e].status = "Unused" =>
    deposited[e] = 0 /\ toSeller[e] = 0 /\ toBuyer[e] = 0

LEMMA HeldTypes ==
  ASSUME TypeOK
  PROVE  /\ DOMAIN HeldOf = EscrowIds /\ IsFiniteSet(EscrowIds)
         /\ \A e \in EscrowIds : HeldOf[e] = Held(e) /\ HeldOf[e] \in Int
         /\ SumFunction(HeldOf) \in Int
         /\ SumFunction(HeldOf) = SumFunctionOnSet(HeldOf, EscrowIds)
<1>1. DOMAIN HeldOf = EscrowIds /\ IsFiniteSet(EscrowIds)
  BY CoreAssumption DEF HeldOf
<1>2. \A e \in EscrowIds : HeldOf[e] = Held(e) /\ HeldOf[e] \in Int
  BY DEF HeldOf, Held, TypeOK
<1>3. SumFunctionOnSet(HeldOf, EscrowIds) \in Int
  BY <1>1, <1>2, SumType
<1> QED
  BY <1>1, <1>2, <1>3 DEF SumFunction

(* Token counts stay natural numbers. *)
LEMMA NextTokens ==
  ASSUME TypeOK'
  PROVE  /\ vault' \in Nat /\ bounties' \in Nat
         /\ \A e \in EscrowIds :
              deposited'[e] \in Nat /\ toSeller'[e] \in Nat /\ toBuyer'[e] \in Nat
<1>1. /\ vault' \in Nat /\ bounties' \in Nat
      /\ deposited' \in [EscrowIds -> Nat]
      /\ toSeller' \in [EscrowIds -> Nat] /\ toBuyer' \in [EscrowIds -> Nat]
  BY Zenon DEF TypeOK
<1> QED
  BY <1>1

(* The books of one order change: the sum changes as much. *)
LEMMA HeldChange ==
  ASSUME TypeOK, TypeOK', NEW e \in EscrowIds,
         \A f \in EscrowIds \ {e} : Held(f)' = Held(f)
  PROVE  SumFunction(HeldOf)' = SumFunction(HeldOf) + Held(e)' - Held(e)
<1>1. /\ IsFiniteSet(EscrowIds)
      /\ \A f \in EscrowIds : HeldOf[f] = Held(f) /\ HeldOf[f] \in Int
      /\ SumFunction(HeldOf) = SumFunctionOnSet(HeldOf, EscrowIds)
  BY HeldTypes
<1>2. /\ \A f \in EscrowIds : HeldOf'[f] = Held(f)' /\ HeldOf'[f] \in Int
      /\ SumFunction(HeldOf)' = SumFunctionOnSet(HeldOf', EscrowIds)
  <2>1. DOMAIN HeldOf' = EscrowIds /\ \A f \in EscrowIds : HeldOf'[f] = Held(f)'
    BY DEF HeldOf
  <2>2. \A f \in EscrowIds : Held(f)' \in Int
    BY NextTokens DEF Held
  <2> QED
    BY <2>1, <2>2 DEF SumFunction
<1>3. \A f \in EscrowIds \ {e} : HeldOf[f] = HeldOf'[f]
  BY <1>1, <1>2
<1> HIDE DEF HeldOf, Held
<1>4. SumFunctionOnSet(HeldOf', EscrowIds)
        = SumFunctionOnSet(HeldOf, EscrowIds) + HeldOf'[e] - HeldOf[e]
  BY <1>1, <1>2, <1>3, SumChange
<1> QED
  BY <1>1, <1>2, <1>4

(* A step that touches the money of one order: what the vault and the      *)
(* keepers see of it, the slack does not.                                  *)
LEMMA SlackMoves ==
  ASSUME TypeOK, TypeOK', NEW e \in EscrowIds, NEW n \in Int,
         \A f \in EscrowIds \ {e} : Still(f),
         vault' + bounties' - vault - bounties = Held(e)' - Held(e) + n
  PROVE  Slack' = Slack + n
<1>1. SumFunction(HeldOf)' = SumFunction(HeldOf) + Held(e)' - Held(e)
  BY HeldChange DEF Held, Still
<1>2. /\ vault \in Nat /\ bounties \in Nat /\ vault' \in Nat /\ bounties' \in Nat
      /\ Held(e) \in Int /\ Held(e)' \in Int
  <2>1. Held(e) \in Int
    BY OrderTypes DEF Held
  <2>2. Held(e)' \in Int
    BY NextTokens DEF Held
  <2> QED
    BY <2>1, <2>2, NextTokens, OrderTypes
<1>3. SumFunction(HeldOf) \in Int
  BY HeldTypes
<1> QED
  BY <1>1, <1>2, <1>3 DEF Slack

LEMMA SlackKept ==
  ASSUME TypeOK, TypeOK', NEW e \in EscrowIds,
         \A f \in EscrowIds \ {e} : Still(f),
         vault' + bounties' - vault - bounties = Held(e)' - Held(e)
  PROVE  Slack' = Slack
<1>0. SumFunction(HeldOf) \in Int /\ vault \in Nat /\ bounties \in Nat
  BY OrderTypes, HeldTypes
<1>a. Held(e) \in Int
  BY OrderTypes DEF Held
<1>b. Held(e)' \in Int
  BY NextTokens DEF Held
<1>1. Held(e) \in Int /\ Held(e)' \in Int /\ Slack \in Int
  BY <1>0, <1>a, <1>b DEF Slack
<1>2. vault' + bounties' - vault - bounties = Held(e)' - Held(e) + 0
  BY <1>1
<1>3. Slack' = Slack + 0
  BY <1>2, SlackMoves
<1> QED
  BY <1>1, <1>3

(* The same in the terms of the variables. *)
LEMMA Flow ==
  ASSUME TypeOK, TypeOK', NEW e \in EscrowIds,
         \A f \in EscrowIds \ {e} : Still(f),
         vault' + bounties' - vault - bounties
           = (deposited'[e] - toSeller'[e] - toBuyer'[e])
             - (deposited[e] - toSeller[e] - toBuyer[e])
  PROVE  Slack' = Slack
  BY SlackKept DEF Held

(* Tokens come in for an order; they go out to one of its sides. *)
LEMMA DepositFlow ==
  ASSUME TypeOK, TypeOK', NEW e \in EscrowIds, NEW n \in Int,
         vault' = vault + n, deposited' = [deposited EXCEPT ![e] = @ + n],
         UNCHANGED <<toSeller, toBuyer, bounties>>
  PROVE  Slack' = Slack
<1>1. /\ deposited'[e] = deposited[e] + n
      /\ toSeller'[e] = toSeller[e] /\ toBuyer'[e] = toBuyer[e]
      /\ \A f \in EscrowIds \ {e} : Still(f)
  BY DEF TypeOK, Still
<1>2. vault' + bounties' - vault - bounties
        = (deposited'[e] - toSeller'[e] - toBuyer'[e])
          - (deposited[e] - toSeller[e] - toBuyer[e])
  <2>1. /\ vault \in Nat /\ vault' \in Nat /\ bounties \in Nat
        /\ deposited[e] \in Nat /\ toSeller[e] \in Nat /\ toBuyer[e] \in Nat
    BY OrderTypes, NextTokens
  <2> QED
    BY <1>1, <2>1
<1> QED
  BY <1>1, <1>2, Flow

LEMMA SellerFlow ==
  ASSUME TypeOK, TypeOK', NEW e \in EscrowIds, NEW n \in Int,
         vault' = vault - n, toSeller' = [toSeller EXCEPT ![e] = @ + n],
         UNCHANGED <<deposited, toBuyer, bounties>>
  PROVE  Slack' = Slack
<1>1. /\ deposited'[e] = deposited[e]
      /\ toSeller'[e] = toSeller[e] + n /\ toBuyer'[e] = toBuyer[e]
      /\ \A f \in EscrowIds \ {e} : Still(f)
  BY DEF TypeOK, Still
<1>2. vault' + bounties' - vault - bounties
        = (deposited'[e] - toSeller'[e] - toBuyer'[e])
          - (deposited[e] - toSeller[e] - toBuyer[e])
  <2>1. /\ vault \in Nat /\ vault' \in Nat /\ bounties \in Nat
        /\ deposited[e] \in Nat /\ toSeller[e] \in Nat /\ toBuyer[e] \in Nat
    BY OrderTypes, NextTokens
  <2> QED
    BY <1>1, <2>1
<1> QED
  BY <1>1, <1>2, Flow

LEMMA BuyerFlow ==
  ASSUME TypeOK, TypeOK', NEW e \in EscrowIds, NEW n \in Int,
         vault' = vault - n, toBuyer' = [toBuyer EXCEPT ![e] = @ + n],
         UNCHANGED <<deposited, toSeller, bounties>>
  PROVE  Slack' = Slack
<1>1. /\ deposited'[e] = deposited[e]
      /\ toSeller'[e] = toSeller[e] /\ toBuyer'[e] = toBuyer[e] + n
      /\ \A f \in EscrowIds \ {e} : Still(f)
  BY DEF TypeOK, Still
<1>2. vault' + bounties' - vault - bounties
        = (deposited'[e] - toSeller'[e] - toBuyer'[e])
          - (deposited[e] - toSeller[e] - toBuyer[e])
  <2>1. /\ vault \in Nat /\ vault' \in Nat /\ bounties \in Nat
        /\ deposited[e] \in Nat /\ toSeller[e] \in Nat /\ toBuyer[e] \in Nat
    BY OrderTypes, NextTokens
  <2> QED
    BY <1>1, <2>1
<1> QED
  BY <1>1, <1>2, Flow

LEMMA NoFlow ==
  ASSUME UNCHANGED <<vault, bounties, deposited, toSeller, toBuyer>>
  PROVE  Slack' = Slack
<1>1. HeldOf' = HeldOf
  BY DEF HeldOf, Held
<1>2. SumFunction(HeldOf)' = SumFunction(HeldOf)
  BY <1>1 DEF SumFunction
<1> QED
  BY <1>2 DEF Slack

(* A keeper is paid out of what the orders share. *)
LEMMA BountyFlow ==
  ASSUME TypeOK, NEW n \in Int, vault' = vault - n, bounties' = bounties + n,
         UNCHANGED <<deposited, toSeller, toBuyer>>
  PROVE  Slack' = Slack
<1>1. HeldOf' = HeldOf
  BY DEF HeldOf, Held
<1>2. SumFunction(HeldOf)' = SumFunction(HeldOf)
  BY <1>1 DEF SumFunction
<1>3. vault \in Nat /\ bounties \in Nat /\ SumFunction(HeldOf) \in Int
  BY OrderTypes, HeldTypes DEF TypeOK
<1> QED
  BY <1>2, <1>3 DEF Slack

(* Tokens of no order come in, or go out. *)
LEMMA SideFlow ==
  ASSUME TypeOK, NEW n \in Int, vault' = vault + n,
         UNCHANGED <<bounties, deposited, toSeller, toBuyer>>
  PROVE  Slack' = Slack + n
<1>1. HeldOf' = HeldOf
  BY DEF HeldOf, Held
<1>2. SumFunction(HeldOf)' = SumFunction(HeldOf)
  BY <1>1 DEF SumFunction
<1>3. vault \in Nat /\ bounties \in Nat /\ SumFunction(HeldOf) \in Int
  BY OrderTypes, HeldTypes DEF TypeOK
<1> QED
  BY <1>2, <1>3 DEF Slack

LEMMA OpenStepFlow ==
  ASSUME TypeOK, TypeOK', NEW e \in EscrowIds, OpenStep(e)
  PROVE  Slack' = Slack
<1>1. ASSUME NEW a \in Amounts, NEW term \in Terms, Create(e, a, term)
      PROVE  Slack' = Slack
  BY <1>1, NoFlow DEF Create
<1>2. ASSUME NEW a \in Amounts, NEW term \in Terms, NEW s \in Surpluses, Deposit(e, a, term, s)
      PROVE  Slack' = Slack
  <2>1. a + s \in Int
    BY ConstantTypes
  <2> QED
    BY <1>2, <2>1, DepositFlow DEF Deposit, Receive
<1>3. ASSUME NEW schedule \in Schedules, NEW term \in Terms, NEW s \in Surpluses,
             CreateMilestoneEscrow(e, schedule, term, s)
      PROVE  Slack' = Slack
  <2> DEFINE total == SumFunction(schedule) + s
  <2>1. total \in Int
    BY <1>3, ConstantTypes DEF CreateMilestoneEscrow
  <2>2. /\ vault' = vault + total
        /\ deposited' = [deposited EXCEPT ![e] = @ + total]
        /\ UNCHANGED <<toSeller, toBuyer, bounties>>
    BY <1>3 DEF CreateMilestoneEscrow, Receive
  <2> HIDE DEF total
  <2> QED
    BY <2>1, <2>2, DepositFlow
<1>4. ASSUME NEW s \in Surpluses, Fund(e, s)
      PROVE  Slack' = Slack
  <2> DEFINE received == escrow[e].amount + s
  <2>1. received \in Int
    BY ConstantTypes, FieldTypes
  <2>2. /\ vault' = vault + received
        /\ deposited' = [deposited EXCEPT ![e] = @ + received]
        /\ UNCHANGED <<toSeller, toBuyer, bounties>>
    BY <1>4 DEF Fund, Receive
  <2> HIDE DEF received
  <2> QED
    BY <2>1, <2>2, DepositFlow
<1>5. CASE AcceptOrder(e) \/ AgreeCancel(e) \/ Cancel(e)
  BY <1>5, NoFlow DEF AcceptOrder, AgreeCancel, Cancel
<1> QED
  BY <1>1, <1>2, <1>3, <1>4, <1>5 DEF OpenStep

LEMMA ReleaseFlow ==
  ASSUME TypeOK, TypeOK', NEW e \in EscrowIds, NEW x \in Int, ExecuteRelease(e, x),
         UNCHANGED <<deposited, toBuyer, bounties>>
  PROVE  Slack' = Slack
  BY SellerFlow DEF ExecuteRelease

LEMMA MilestoneAmount ==
  ASSUME TypeOK, NEW e \in EscrowIds, NEW i \in DOMAIN milestones[e]
  PROVE  milestones[e][i] \in Milestone /\ milestones[e][i].amount \in Nat
<1>1. milestones[e][i] \in Milestone
  BY OrderTypes, ElementOfSeq
<1> QED
  BY <1>1 DEF Milestone

LEMMA PayStepFlow ==
  ASSUME TypeOK, TypeOK', NEW e \in EscrowIds, PayStep(e)
  PROVE  Slack' = Slack
<1>0. 1..vault \subseteq Int
  BY OrderTypes
<1>1. ASSUME NEW caller \in Callers, NEW x \in 1..vault, PartialRelease(e, caller, x)
      PROVE  Slack' = Slack
  BY <1>0, <1>1, ReleaseFlow DEF PartialRelease
<1>2. ASSUME NEW caller \in Callers, NEW x \in 1..vault, PartialRefund(e, caller, x)
      PROVE  Slack' = Slack
  BY <1>0, <1>2, BuyerFlow DEF PartialRefund
<1>3. ASSUME NEW i \in DOMAIN milestones[e], ReleaseMilestone(e, i)
      PROVE  Slack' = Slack
  BY <1>3, MilestoneAmount, ReleaseFlow DEF ReleaseMilestone
<1> QED
  BY <1>1, <1>2, <1>3 DEF PayStep

LEMMA UpkeepStepFlow ==
  ASSUME TypeOK, TypeOK', NEW e \in EscrowIds, UpkeepStep(e)
  PROVE  Slack' = Slack
<1>1. CASE RecordShipmentProof(e)
  BY <1>1, NoFlow DEF RecordShipmentProof
<1>2. ASSUME NEW require \in BOOLEAN, SetRequireReleaseCondition(e, require)
      PROVE  Slack' = Slack
  BY <1>2, NoFlow DEF SetRequireReleaseCondition
<1>3. ASSUME NEW deadline \in 1..MaxLedger, ExtendTimeout(e, deadline)
      PROVE  Slack' = Slack
  BY <1>3, NoFlow DEF ExtendTimeout
<1>4. CASE KeeperBump(e)
  <2> DEFINE bounty == IF EarnsBounty(e) THEN KeeperBounty ELSE 0
  <2>1. /\ vault' = vault - bounty /\ bounties' = bounties + bounty
        /\ UNCHANGED <<deposited, toSeller, toBuyer>>
    BY <1>4 DEF KeeperBump
  <2>2. bounty \in Nat
    BY ConstantTypes
  <2> HIDE DEF bounty
  <2> QED
    BY <2>1, <2>2, BountyFlow
<1>5. CASE Archive(e)
  BY <1>5, NoFlow DEF Archive
<1> QED
  BY <1>1, <1>2, <1>3, <1>4, <1>5 DEF UpkeepStep

(* A batch brings in as much as it puts in its orders. *)
LEMMA BatchFlow ==
  ASSUME TypeOK, FreshAreEmpty, NEW batch \in SUBSET EscrowIds, NEW a \in Amounts,
         NEW term \in Terms, BatchCreate(batch, a, term)
  PROVE  Slack' = Slack
<1>1. /\ \A f \in batch : escrow[f].status = "Unused"
      /\ vault' = vault + a * Cardinality(batch)
      /\ deposited' = [f \in EscrowIds |-> IF f \in batch THEN a ELSE deposited[f]]
      /\ UNCHANGED <<toSeller, toBuyer, bounties>>
  BY DEF BatchCreate
<1>2. a \in Int /\ Cardinality(batch) \in Nat
  BY ConstantTypes, CoreAssumption, FS_Subset, FS_CardinalityType
<1>3. \A f \in EscrowIds : Held(f)' = IF f \in batch THEN Held(f) + a ELSE Held(f)
  <2> SUFFICES ASSUME NEW f \in EscrowIds
               PROVE  Held(f)' = IF f \in batch THEN Held(f) + a ELSE Held(f)
    OBVIOUS
  <2>1. CASE f \in batch
    BY <1>1, <1>2, <2>1 DEF FreshAreEmpty, Held
  <2>2. CASE f \notin batch
    BY <1>1, <2>2 DEF Held
  <2> QED
    BY <2>1, <2>2
<1>4. /\ IsFiniteSet(EscrowIds)
      /\ \A f \in EscrowIds : HeldOf[f] = Held(f) /\ HeldOf[f] \in Int
      /\ SumFunction(HeldOf) = SumFunctionOnSet(HeldOf, EscrowIds)
      /\ SumFunction(HeldOf) \in Int
  BY HeldTypes
<1>5. \A f \in EscrowIds : HeldOf'[f] = IF f \in batch THEN HeldOf[f] + a ELSE HeldOf[f]
  <2>1. \A f \in EscrowIds : HeldOf'[f] = Held(f)'
    BY DEF HeldOf
  <2> HIDE DEF Held, HeldOf
  <2> QED
    BY <1>3, <1>4, <2>1
<1>6. SumFunction(HeldOf)' = SumFunctionOnSet(HeldOf', EscrowIds)
  BY DEF SumFunction, HeldOf
<1> HIDE DEF Held, HeldOf
<1>7. SumFunctionOnSet(HeldOf', EscrowIds)
        = SumFunctionOnSet(HeldOf, EscrowIds) + a * Cardinality(batch)
  BY <1>2, <1>4, <1>5, SumRaised
<1>8. a * Cardinality(batch) \in Int
  BY <1>2
<1> QED
  BY <1>1, <1>4, <1>6, <1>7, <1>8, OrderTypes DEF Slack, TypeOK

(* No call of the core leaks a token or leaves one behind. *)
LEMMA CoreFlow ==
  ASSUME TypeOK, FreshAreEmpty, [CoreNext]_coreVars
  PROVE  Slack' = Slack
<1>1. TypeOK'
  BY StepType
<1>2. CASE CloseLedger
  BY <1>1, <1>2, NoFlow DEF CloseLedger
<1>3. ASSUME NEW window \in Lockouts, SetCancelLockout(window)
      PROVE  Slack' = Slack
  BY <1>1, <1>3, NoFlow DEF SetCancelLockout
<1>4. CASE UNCHANGED coreVars
  BY <1>1, <1>4, NoFlow DEF coreVars
<1> QED
  BY <1>1, <1>2, <1>3, <1>4, BatchFlow, OpenStepFlow, PayStepFlow, UpkeepStepFlow DEF CoreNext

(* What the contract owes for an order is the balance of its books. *)
LEMMA OwedIsHeld == CoreInv => [e \in EscrowIds |-> Owed(e)] = HeldOf
<1> SUFFICES ASSUME CoreInv, NEW e \in EscrowIds
             PROVE  Owed(e) = Held(e)
  BY DEF HeldOf
<1>1. Accounts(escrow[e], deposited[e], toSeller[e], toBuyer[e]) /\ TypeOK
  BY DEF CoreInv
<1> QED
  BY <1>1, FieldTypes, OrderTypes DEF Accounts, Owed, Held, Remaining, Statuses, NoRecord

LEMMA FreshFollow == CoreInv => FreshAreEmpty
  BY DEF CoreInv, Accounts, FreshAreEmpty

(* Nothing is missing from the pool but the bounties of keepers: whatever  *)
(* orders were opened, in a batch or alone, and however they interleave,   *)
(* the vault holds what is owed for them less what keepers were paid.      *)
THEOREM CoreOnlyBountiesLeak == CoreSpec => []OnlyBountiesLeak
<1>1. CoreInit => Slack = 0
  <2> SUFFICES ASSUME CoreInit
               PROVE  Slack = 0
    OBVIOUS
  <2>1. \A e \in EscrowIds : HeldOf[e] = 0
    BY DEF CoreInit, HeldOf, Held
  <2>2. SumFunction(HeldOf) = 0
    BY <2>1, SumOfZeros, InitType, HeldTypes
  <2> QED
    BY <2>2 DEF CoreInit, Slack
<1>2. CoreInv /\ Slack = 0 /\ [CoreNext]_coreVars => (Slack = 0)'
  BY CoreFlow, FreshFollow DEF CoreInv
<1>3. CoreInv /\ Slack = 0 => OnlyBountiesLeak
  <2> SUFFICES ASSUME CoreInv, Slack = 0
               PROVE  vault + bounties = SumFunction(HeldOf)
    BY OwedIsHeld DEF OnlyBountiesLeak
  <2>1. SumFunction(HeldOf) \in Int /\ vault \in Nat /\ bounties \in Nat
    BY HeldTypes DEF CoreInv, TypeOK
  <2> QED
    BY <2>1 DEF Slack
<1> QED
  BY <1>1, <1>2, <1>3, CoreInvariant, PTL DEF CoreSpec

-----------------------------------------------------------------------------
(* Milestones. *)

(* The record of an order against its schedule, when "beside" is what it   *)
(* paid the seller by other ways than its milestones.  Nothing but an open *)
(* order has a schedule: without this create would not keep the rest.      *)
Schedule(r, schedule, beside) ==
  /\ r.status = "Unused" => schedule = <<>> /\ beside = 0
  /\ r.status \in Statuses /\ schedule # <<>> => r.released = Earned(schedule) + beside

(* Nothing is earned of a schedule no milestone of which is done. *)
LEMMA NothingEarned ==
  ASSUME NEW schedule \in Seq(Nat \ {0})
  PROVE  Earned([i \in 1..Len(schedule) |-> [amount |-> schedule[i], done |-> FALSE]]) = 0
<1> DEFINE plan == [i \in 1..Len(schedule) |-> [amount |-> schedule[i], done |-> FALSE]]
           part == [i \in DOMAIN plan |-> IF plan[i].done THEN plan[i].amount ELSE 0]
<1>1. /\ IsFiniteSet(DOMAIN plan) /\ DOMAIN part = DOMAIN plan
      /\ \A i \in DOMAIN plan : part[i] = 0
  BY FS_Interval
<1>2. SumFunction(part) = 0
  BY <1>1, SumOfZeros DEF SumFunction
<1> HIDE DEF plan
<1> QED
  BY <1>2 DEF Earned, plan

(* What is earned of a schedule is a number. *)
LEMMA EarnedType ==
  ASSUME NEW m \in Seq(Milestone)
  PROVE  Earned(m) \in Int
<1> DEFINE part == [j \in DOMAIN m |-> IF m[j].done THEN m[j].amount ELSE 0]
<1>1. \A j \in DOMAIN m : m[j] \in Milestone
  BY ElementOfSeq
<1>2. DOMAIN part = DOMAIN m /\ \A j \in DOMAIN m : part[j] \in Int
  BY <1>1 DEF Milestone
<1>3. IsFiniteSet(DOMAIN m)
  <2>1. DOMAIN m = 1..Len(m) /\ Len(m) \in Nat
    OBVIOUS
  <2> QED
    BY <2>1, FS_Interval
<1>4. Earned(m) = SumFunctionOnSet(part, DOMAIN m)
  BY <1>2 DEF Earned, SumFunction
<1> HIDE DEF part
<1> QED
  BY <1>2, <1>3, <1>4, SumType

(* Marking one more milestone adds its amount. *)
LEMMA OneMoreEarned ==
  ASSUME NEW m \in Seq(Milestone), NEW i \in DOMAIN m, ~m[i].done
  PROVE  /\ Earned(m) \in Int
         /\ Earned([m EXCEPT ![i].done = TRUE]) = Earned(m) + m[i].amount
<1> DEFINE next == [m EXCEPT ![i].done = TRUE]
           part(s) == [j \in DOMAIN s |-> IF s[j].done THEN s[j].amount ELSE 0]
           old == part(m)
           new == part(next)
<1>1. \A j \in DOMAIN m : m[j] \in Milestone
  BY ElementOfSeq
<1>2. DOMAIN next = DOMAIN m /\ next[i].done /\ next[i].amount = m[i].amount
  BY <1>1 DEF Milestone
<1>3. /\ DOMAIN old = DOMAIN m /\ DOMAIN new = DOMAIN m
      /\ \A j \in DOMAIN m : old[j] \in Int
      /\ \A j \in DOMAIN m \ {i} : new[j] = old[j]
      /\ old[i] = 0 /\ new[i] = m[i].amount /\ m[i].amount \in Int
  BY <1>1, <1>2 DEF Milestone
<1>4. IsFiniteSet(DOMAIN m)
  <2>1. DOMAIN m = 1..Len(m) /\ Len(m) \in Nat
    OBVIOUS
  <2> QED
    BY <2>1, FS_Interval
<1>5. Earned(m) = SumFunctionOnSet(old, DOMAIN m) /\ Earned(next) = SumFunctionOnSet(new, DOMAIN m)
  BY <1>2, <1>3 DEF Earned, SumFunction
<1> HIDE DEF old, new, next
<1>6. \A j \in DOMAIN m : new[j] \in Int
  BY <1>3
<1>7. SumFunctionOnSet(new, DOMAIN m) = SumFunctionOnSet(old, DOMAIN m) + new[i] - old[i]
  BY <1>3, <1>4, <1>6, SumChange
<1>8. SumFunctionOnSet(old, DOMAIN m) \in Int
  BY <1>3, <1>4, SumType
<1> QED
  BY <1>3, <1>5, <1>7, <1>8 DEF next

(* A call that leaves the schedule of an order alone. *)
LEMMA ScheduleKept ==
  ASSUME TypeOK, NEW e \in EscrowIds, NEW beside \in Nat,
         Schedule(escrow[e], milestones[e], beside), milestones'[e] = milestones[e],
         \/ escrow[e].status = "Unused"
         \/ milestones[e] = <<>> /\ escrow'[e].status # "Unused"
         \/ escrow'[e].status = "Archived"
         \/ /\ escrow'[e].released = escrow[e].released
            /\ escrow[e].status \in Statuses /\ escrow'[e].status \in Statuses
         \/ escrow'[e] = escrow[e]
  PROVE  Schedule(escrow'[e], milestones'[e], beside)
  BY DEF Schedule, Statuses, NoRecord

LEMMA OpenStepSchedules ==
  ASSUME TypeOK, NEW e \in EscrowIds, NEW beside \in Nat,
         Schedule(escrow[e], milestones[e], beside), OpenStep(e)
  PROVE  Schedule(escrow'[e], milestones'[e], beside)
<1>1. ASSUME NEW a \in Amounts, NEW term \in Terms, Create(e, a, term)
      PROVE  Schedule(escrow'[e], milestones'[e], beside)
  BY <1>1, ScheduleKept DEF Create
<1>2. ASSUME NEW a \in Amounts, NEW term \in Terms, NEW s \in Surpluses, Deposit(e, a, term, s)
      PROVE  Schedule(escrow'[e], milestones'[e], beside)
  BY <1>2, ScheduleKept DEF Deposit
<1>3. ASSUME NEW schedule \in Schedules, NEW term \in Terms, NEW s \in Surpluses,
             CreateMilestoneEscrow(e, schedule, term, s)
      PROVE  Schedule(escrow'[e], milestones'[e], beside)
  <2> DEFINE plan == [i \in 1..Len(schedule) |-> [amount |-> schedule[i], done |-> FALSE]]
             total == SumFunction(schedule) + s
  <2>1. escrow' = [escrow EXCEPT ![e] = NewRecord("Funded", total, term)]
        /\ milestones' = [milestones EXCEPT ![e] = plan]
        /\ escrow[e].status = "Unused"
    BY <1>3 DEF CreateMilestoneEscrow
  <2>2. Earned(plan) = 0
    BY CoreAssumption, NothingEarned
  <2> HIDE DEF plan, total
  <2>3. escrow'[e].status = "Funded" /\ escrow'[e].released = 0 /\ milestones'[e] = plan
    BY <2>1 DEF TypeOK, NewRecord
  <2>4. beside = 0
    BY <2>1 DEF Schedule
  <2> QED
    BY <2>2, <2>3, <2>4 DEF Schedule
<1>4. ASSUME NEW s \in Surpluses, Fund(e, s)
      PROVE  Schedule(escrow'[e], milestones'[e], beside)
  <2> DEFINE record == [escrow[e] EXCEPT !.amount = escrow[e].amount + s, !.status = "Funded"]
  <2>1. escrow'[e] = [record EXCEPT !.updated = ledger]
        /\ milestones' = milestones /\ escrow[e].status \in Statuses
    BY <1>4, StoreEffect DEF Fund, Statuses
  <2>2. escrow'[e].status \in Statuses /\ escrow'[e].released = escrow[e].released
    BY <2>1, OrderTypes DEF EscrowRecord, Statuses
  <2> QED
    BY <2>1, <2>2, ScheduleKept
<1>5. CASE AcceptOrder(e) \/ AgreeCancel(e)
  BY <1>5, ScheduleKept DEF AcceptOrder, AgreeCancel
<1>6. CASE Cancel(e)
  <2>1. escrow'[e] = [[escrow[e] EXCEPT !.status = "Cancelled"] EXCEPT !.updated = ledger]
        /\ milestones' = milestones /\ escrow[e].status \in Statuses
    BY <1>6, StoreEffect DEF Cancel, MayCancel, Statuses
  <2>2. escrow'[e].status \in Statuses /\ escrow'[e].released = escrow[e].released
    BY <2>1, OrderTypes DEF EscrowRecord, Statuses
  <2> QED
    BY <2>1, <2>2, ScheduleKept
<1> QED
  BY <1>1, <1>2, <1>3, <1>4, <1>5, <1>6 DEF OpenStep

LEMMA PayStepSchedules ==
  ASSUME TypeOK, NEW e \in EscrowIds, NEW beside \in Nat,
         Schedule(escrow[e], milestones[e], beside), PayStep(e)
  PROVE  Schedule(escrow'[e], milestones'[e], beside)
<1>1. ASSUME NEW caller \in Callers, NEW x \in 1..vault, PartialRelease(e, caller, x)
      PROVE  Schedule(escrow'[e], milestones'[e], beside)
  <2> DEFINE r == escrow[e]
             status == IF Remaining(r) - x = 0 THEN "Released" ELSE r.status
             record == [r EXCEPT !.released = @ + x, !.status = status]
  <2>1. /\ Store(e, record) /\ milestones' = milestones /\ milestones[e] = <<>>
        /\ r.status = "Funded"
    BY <1>1 DEF PartialRelease, ExecuteRelease, IsMilestoneEscrow
  <2>2. escrow'[e] = [record EXCEPT !.updated = ledger]
    BY <2>1, StoreEffect
  <2>3. escrow'[e].status = status
    BY <2>2, OrderTypes DEF EscrowRecord
  <2> QED
    BY <2>1, <2>3, ScheduleKept
<1>2. ASSUME NEW caller \in Callers, NEW x \in 1..vault, PartialRefund(e, caller, x)
      PROVE  Schedule(escrow'[e], milestones'[e], beside)
  <2> DEFINE r == escrow[e]
             status == IF Remaining(r) = x THEN "Refunded" ELSE r.status
             record == [r EXCEPT !.refunded = @ + x, !.status = status]
  <2>1. /\ Store(e, record) /\ milestones' = milestones
        /\ r.status \in {"Funded", "Inspection"}
    BY <1>2 DEF PartialRefund, MayRefund
  <2>2. escrow'[e] = [record EXCEPT !.updated = ledger]
    BY <2>1, StoreEffect
  <2>3. escrow'[e].released = r.released /\ escrow'[e].status = status
    BY <2>2, OrderTypes DEF EscrowRecord
  <2> QED
    BY <2>1, <2>3, ScheduleKept DEF Statuses
<1>3. ASSUME NEW i \in DOMAIN milestones[e], ReleaseMilestone(e, i)
      PROVE  Schedule(escrow'[e], milestones'[e], beside)
  <2> DEFINE m == milestones[e]
             r == escrow[e]
             x == milestones[e][i].amount
             status == IF Remaining(r) - x = 0 THEN "Released" ELSE r.status
             record == [r EXCEPT !.released = @ + x, !.status = status]
  <2>1. /\ Store(e, record) /\ ~m[i].done
        /\ milestones' = [milestones EXCEPT ![e] = [m EXCEPT ![i].done = TRUE]]
        /\ r.status = "Funded"
    BY <1>3 DEF ReleaseMilestone, ExecuteRelease
  <2>2. escrow'[e] = [record EXCEPT !.updated = ledger]
    BY <2>1, StoreEffect
  <2>3. escrow'[e].released = r.released + x /\ escrow'[e].status \in {"Funded", "Released"}
    BY <2>1, <2>2, OrderTypes DEF EscrowRecord
  <2>4. milestones'[e] = [m EXCEPT ![i].done = TRUE] /\ m \in Seq(Milestone) /\ m # <<>>
    BY <2>1 DEF TypeOK
  <2>5. /\ Earned(m) \in Int
        /\ Earned([m EXCEPT ![i].done = TRUE]) = Earned(m) + x
    BY <2>1, <2>4, OneMoreEarned
  <2>6. r.released = Earned(m) + beside
    BY <2>1, <2>4 DEF Schedule, Statuses
  <2>7. x \in Int
    <3>1. m[i] \in Milestone
      BY <2>4, ElementOfSeq
    <3> QED
      BY <3>1 DEF Milestone
  <2> HIDE DEF m, x, r, record
  <2> QED
    BY <2>3, <2>4, <2>5, <2>6, <2>7 DEF Schedule
<1> QED
  BY <1>1, <1>2, <1>3 DEF PayStep

(* No call touches the schedule of another order. *)
LEMMA OtherSchedules ==
  ASSUME TypeOK, NEW e \in EscrowIds, OpenStep(e) \/ PayStep(e),
         NEW f \in EscrowIds \ {e}
  PROVE  milestones'[f] = milestones[f]
<1>1. CASE OpenStep(e)
  BY <1>1 DEF OpenStep, Create, Deposit, CreateMilestoneEscrow, Fund, AcceptOrder, AgreeCancel,
              Cancel, TypeOK
<1>2. CASE PayStep(e)
  BY <1>2 DEF PayStep, PartialRelease, PartialRefund, ReleaseMilestone, TypeOK
<1> QED
  BY <1>1, <1>2

=============================================================================
