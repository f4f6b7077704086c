-------------------------- MODULE MCEscrowControls --------------------------
(***************************************************************************)
(* EscrowControls with small constants for TLC: one order, small, large or *)
(* paid by milestones.                                                     *)
(***************************************************************************)
EXTENDS EscrowControls, TLC

CONSTANTS e1, o1, o2

MCSchedules == {<<1, 1>>}
MCBounds == {[minOut |-> 1, maxIn |-> 2], [minOut |-> 2, maxIn |-> 1]}
MCPanels == {[oracles |-> {o1, o2}, required |-> 2], [oracles |-> {o2}, required |-> 1]}
MCVouchers == {[deadline |-> 2, nonce |-> 1], [deadline |-> 3, nonce |-> 2]}

(* The controls an order has been put under. *)
InUse ==
  {c \in {"dual", "swap", "pool", "path", "root", "panel", "voucher"} :
     \/ c = "dual" /\ cosigner[e1] # Nobody
     \/ c = "swap" /\ swappable[e1]
     \/ c = "pool" /\ pool # 0
     \/ c = "path" /\ slippage[e1] # <<>>
     \/ c = "root" /\ \E d \in Dates : root[d] # <<>>
     \/ c = "panel" /\ oracles[e1] # <<>>
     \/ c = "voucher" /\ nonce[e1] # 0}

(* An order meets two of them, in every combination. *)
TwoControls == Cardinality(InUse) <= 2

(* The ways the core has for this order, with a schedule or without; the   *)
(* cancel guard and the gate play no part in them.                         *)
FewCoreSteps ==
  /\ \/ \E a \in Amounts, term \in Terms : Create(e1, a, term) \/ Deposit(e1, a, term, 0)
     \/ \E schedule \in Schedules, term \in Terms : CreateMilestoneEscrow(e1, schedule, term, 0)
     \/ Fund(e1, 0)
     \/ Cancel(e1)
     \/ PayStep(e1)
  /\ UNCHANGED controlVars

FewSteps ==
  \/ CloseLedger /\ UNCHANGED controlVars
  \/ \E a \in PoolAmounts : FundPool(a) \/ WithdrawFromPool(a)
  \/ \E d \in Dates, orders \in SUBSET EscrowIds : PublishMerkleRoot(d, orders)
  \/ FewCoreSteps
  \/ ArchiveWithApproval(e1)
  \/ DualStep(e1) \/ SettleFromPool(e1) \/ PathStep(e1) \/ ProofStep(e1)
  \/ \E v \in Vouchers : ExtendTimeoutWithMutualSignatures(e1, v)

FewNext == FewSteps /\ TwoControls'

FewFairSpec ==
  /\ ControlsInit /\ [][FewNext]_controlsVars
  /\ \A e \in EscrowIds : WF_controlsVars(HandleDualControlTimeout(e))

=============================================================================
