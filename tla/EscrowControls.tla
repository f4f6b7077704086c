--------------------------- MODULE EscrowControls ---------------------------
(***************************************************************************)
(* The other ways out of a Funded order (escrow/src/lib.rs), on top of the *)
(* custody core: a second approver for large orders and what happens when  *)
(* it stays silent, the liquidity pool, payment along a path of swaps, a   *)
(* swap at release, delivery attested by a published Merkle root or by a   *)
(* panel of oracles, and a timeout both parties extend by a voucher.       *)
(*                                                                         *)
(* Fees leave with the seller's net, so a payment is the whole amount it   *)
(* takes from the contract.  Tokens other than the order's are outside.    *)
(* split_release is left out: its body is two versions run together and    *)
(* pays every share twice.                                                 *)
(***************************************************************************)
EXTENDS EscrowCore

CONSTANTS
  Approvers,        \* addresses an admin may name as second approver
  ApprovalTerms,    \* timeout_ledgers an approver may be given
  PoolAmounts,      \* amounts funded into and withdrawn from the pool
  MaxPool,          \* bound on the pool
  Bounds,           \* slippage bounds: [minOut, maxIn]
  Outputs,          \* what a path of swaps may yield
  Dates,            \* days a Merkle root is published for
  Oracles,          \* addresses that may sit on a panel
  OraclePanels,     \* panels: [oracles, required]
  OracleWindow,     \* MULTI_ORACLE_CONSENSUS_WINDOW_LEDGERS
  Vouchers          \* extensions both parties may sign: [deadline, nonce]

ASSUME ControlsAssumption ==
  /\ ApprovalTerms \subseteq Nat \ {0}
  /\ PoolAmounts \subseteq Nat \ {0}
  /\ \A b \in Bounds : b.minOut \in Nat \ {0} /\ b.maxIn \in Nat \ {0}
  /\ Outputs \subseteq Nat \ {0}
  /\ \A p \in OraclePanels : /\ p.oracles \in SUBSET Oracles /\ IsFiniteSet(p.oracles)
                             /\ p.required \in 1..Cardinality(p.oracles)
  /\ \A v \in Vouchers : v.deadline \in Nat /\ v.nonce \in Nat
  /\ {MaxPool, OracleWindow} \subseteq Nat

VARIABLES
  cosigner,    \* DualControlConfig of each escrow: the approver named, an option, and its answer
  signoff,     \* DualControlTimeout, an option
  pool,        \* balance of the LiquidityPool
  slippage,    \* PathSlippageBounds, an option
  swappable,   \* is a CrossCurrencySwapConfig stored?
  root,        \* MerkleRoot of each date: the orders the tree holds, an option
  oracles,     \* MultiOracleConfig, an option
  oracleVotes, \* EscrowOracleVotes
  nonce,       \* TimeoutExtensionNonce
  signed,      \* ghost: who has ever approved as second approver
  swapped,     \* ghost: orders settled by a swap at release
  advanced,    \* ghost: what the pool paid in an order's stead
  aside        \* ghost: what the seller got by the ways that look at no milestone

dualVars == <<cosigner, signoff, signed, swapped, swappable>>
poolVars == <<pool, advanced, aside>>
proofVars == <<root, oracles, oracleVotes>>
controlVars == <<dualVars, poolVars, slippage, proofVars, nonce>>
controlsVars == <<coreVars, controlVars>>
outVars == <<ledger, lockout, guard, shipped, gated, milestones, bumped, bounties>>

Nobody == [who |-> <<>>, approved |-> FALSE]

ControlsInit ==
  /\ CoreInit
  /\ cosigner = [e \in EscrowIds |-> Nobody]
  /\ signoff = [e \in EscrowIds |-> <<>>]
  /\ pool = 0
  /\ slippage = [e \in EscrowIds |-> <<>>]
  /\ swappable = [e \in EscrowIds |-> FALSE]
  /\ root = [d \in Dates |-> <<>>]
  /\ oracles = [e \in EscrowIds |-> <<>>]
  /\ oracleVotes = [e \in EscrowIds |-> <<>>]
  /\ nonce = [e \in EscrowIds |-> 0]
  /\ signed = [e \in EscrowIds |-> {}]
  /\ swapped = {}
  /\ advanced = [e \in EscrowIds |-> 0]
  /\ aside = [e \in EscrowIds |-> 0]

Funded(e) == escrow[e].status = "Funded"
Large(e) == escrow[e].amount > DualControlThreshold

-----------------------------------------------------------------------------
(* Dual control. *)

(* Mutant: an approval survives the naming of another approver. *)
SetDualControlConfigKeeps(e, u) ==
  /\ HasRecord(e)
  /\ Large(e)
  /\ cosigner' = [cosigner EXCEPT ![e].who = <<u>>]
  /\ UNCHANGED <<coreVars, signoff, signed, swapped, swappable, poolVars, slippage, proofVars,
                 nonce>>

(* set_dual_control_config: an admin names the approver of a large order,  *)
(* whatever its status; an approval given before is void.                  *)
SetDualControlConfig(e, u) ==
  /\ HasRecord(e)
  /\ Large(e)
  /\ cosigner' = [cosigner EXCEPT ![e] = [who |-> <<u>>, approved |-> FALSE]]
  /\ UNCHANGED <<coreVars, signoff, signed, swapped, swappable, poolVars, slippage, proofVars,
                 nonce>>

(* set_dual_control_timeout: an admin gives the approver until a ledger. *)
SetDualControlTimeout(e, n, fallback) ==
  /\ Funded(e)
  /\ cosigner[e] # Nobody
  /\ signoff' = [signoff EXCEPT ![e] = <<[deadline |-> ledger + n, fallback |-> fallback]>>]
  /\ UNCHANGED <<coreVars, cosigner, signed, swapped, swappable, poolVars, slippage, proofVars,
                 nonce>>

ApproverDeadlinePassed(e) == signoff[e] # <<>> /\ ledger >= signoff[e][1].deadline

(* approve_release: the approver named, in time. *)
ApproveRelease(e, u) ==
  /\ cosigner[e].who = <<u>>
  /\ Funded(e)
  /\ Large(e)
  /\ ~ApproverDeadlinePassed(e)
  /\ cosigner' = [cosigner EXCEPT ![e].approved = TRUE]
  /\ signed' = [signed EXCEPT ![e] = @ \cup {u}]
  /\ UNCHANGED <<coreVars, signoff, swapped, swappable, poolVars, slippage, proofVars, nonce>>

(* Mutant: the deadline is compared with equality. *)
HandleTimeoutAtDeadline(e) ==
  /\ signoff[e] # <<>> /\ ledger = signoff[e][1].deadline
  /\ Funded(e)
  /\ cosigner[e] # Nobody /\ ~cosigner[e].approved
  /\ \/ /\ signoff[e][1].fallback = "Refunded"
        /\ Remaining(escrow[e]) <= vault
        /\ Store(e, [escrow[e] EXCEPT !.refunded = @ + Remaining(escrow[e]),
                                      !.status = "Refunded"])
        /\ vault' = vault - Remaining(escrow[e])
        /\ toBuyer' = [toBuyer EXCEPT ![e] = @ + Remaining(escrow[e])]
     \/ /\ signoff[e][1].fallback = "Disputed"
        /\ Store(e, [escrow[e] EXCEPT !.status = "Disputed"])
        /\ UNCHANGED <<vault, toBuyer>>
  /\ UNCHANGED <<outVars, deposited, toSeller, controlVars>>

(* handle_dual_control_timeout: anyone, once the approver named has let    *)
(* its deadline pass; the order is refunded or goes to dispute.            *)
HandleDualControlTimeout(e) ==
  /\ ApproverDeadlinePassed(e)
  /\ Funded(e)
  /\ cosigner[e] # Nobody /\ ~cosigner[e].approved
  /\ \/ /\ signoff[e][1].fallback = "Refunded"
        /\ Remaining(escrow[e]) <= vault
        /\ Store(e, [escrow[e] EXCEPT !.refunded = @ + Remaining(escrow[e]),
                                      !.status = "Refunded"])
        /\ vault' = vault - Remaining(escrow[e])
        /\ toBuyer' = [toBuyer EXCEPT ![e] = @ + Remaining(escrow[e])]
     \/ /\ signoff[e][1].fallback = "Disputed"
        /\ Store(e, [escrow[e] EXCEPT !.status = "Disputed"])
        /\ UNCHANGED <<vault, toBuyer>>
  /\ UNCHANGED <<outVars, deposited, toSeller, controlVars>>

(* set_cross_currency_swap_config: the buyer or an admin. *)
SetCrossCurrencySwapConfig(e) ==
  /\ HasRecord(e)
  /\ escrow[e].status \notin Terminal
  /\ swappable' = [swappable EXCEPT ![e] = TRUE]
  /\ UNCHANGED <<coreVars, cosigner, signoff, signed, swapped, poolVars, slippage, proofVars,
                 nonce>>

(* release_with_swap: all that remains goes to the router, which pays the  *)
(* seller; a large order needs its second approver.                        *)
ReleaseWithSwap(e) ==
  /\ Funded(e)
  /\ Large(e) => cosigner[e] # Nobody /\ cosigner[e].approved
  /\ swappable[e]
  /\ ~IsMilestoneEscrow(e)
  /\ ExecuteRelease(e, Remaining(escrow[e]))
  /\ swapped' = swapped \cup {e}
  /\ UNCHANGED <<outVars, deposited, toBuyer, cosigner, signoff, signed, swappable, poolVars,
                 slippage, proofVars, nonce>>

-----------------------------------------------------------------------------
(* The liquidity pool, in the contract's one balance. *)

FundPool(a) ==
  /\ pool + a <= MaxPool
  /\ pool' = pool + a
  /\ vault' = vault + a
  /\ UNCHANGED <<outVars, escrow, deposited, toSeller, toBuyer, advanced, aside, dualVars,
                 slippage, proofVars, nonce>>

(* withdraw_from_pool: an admin, of the pool's balance. *)
WithdrawFromPool(a) ==
  /\ a <= pool
  /\ a <= vault
  /\ pool' = pool - a
  /\ vault' = vault - a
  /\ UNCHANGED <<outVars, escrow, deposited, toSeller, toBuyer, advanced, aside, dualVars,
                 slippage, proofVars, nonce>>

(* Mutant: the pool's balance is not charged. *)
SettleFromPoolFree(e) ==
  LET x == Remaining(escrow[e])
  IN  /\ Funded(e)
      /\ x <= pool
      /\ ExecuteRelease(e, x)
      /\ advanced' = [advanced EXCEPT ![e] = @ + x]
      /\ aside' = [aside EXCEPT ![e] = @ + x]
      /\ UNCHANGED <<outVars, pool, deposited, toBuyer, dualVars, slippage, proofVars, nonce>>

(* settle_from_pool: an admin has the pool pay the seller all that remains.*)
(* The order's own tokens stay behind, and belong to no order nor pool.    *)
(* Neither the milestones nor the second approver is looked at.            *)
SettleFromPool(e) ==
  LET x == Remaining(escrow[e])
  IN  /\ Funded(e)
      /\ x <= pool
      /\ ExecuteRelease(e, x)
      /\ pool' = pool - x
      /\ advanced' = [advanced EXCEPT ![e] = @ + x]
      /\ aside' = [aside EXCEPT ![e] = @ + x]
      /\ UNCHANGED <<outVars, deposited, toBuyer, dualVars, slippage, proofVars, nonce>>

-----------------------------------------------------------------------------
(* Payment along a path of swaps. *)

(* set_slippage_bounds: the buyer or an admin; never looser than before. *)
SetSlippageBounds(e, b) ==
  /\ escrow[e].status \in {"Created", "Funded"}
  /\ slippage[e] # <<>> =>
       b.minOut >= slippage[e][1].minOut /\ b.maxIn <= slippage[e][1].maxIn
  /\ slippage' = [slippage EXCEPT ![e] = <<b>>]
  /\ UNCHANGED <<coreVars, dualVars, poolVars, proofVars, nonce>>

(* Mutant: what the router used is not compared with what remains. *)
ExecutePathPaymentUnchecked(e, x, out) ==
  LET r == escrow[e]
  IN  /\ Funded(e)
      /\ slippage[e] # <<>>
      /\ out >= slippage[e][1].minOut
      /\ x <= slippage[e][1].maxIn
      /\ x > 0 /\ x <= vault
      /\ Store(e, [r EXCEPT !.released = @ + x,
                           !.status = IF Remaining(r) = x THEN "Released" ELSE @])
      /\ vault' = vault - x
      /\ toSeller' = [toSeller EXCEPT ![e] = @ + x]
      /\ aside' = [aside EXCEPT ![e] = @ + x]
      /\ UNCHANGED <<outVars, deposited, toBuyer, pool, advanced, dualVars, slippage, proofVars,
                     nonce>>

(* execute_path_payment: the buyer or an admin; the router answers what it *)
(* used and what it got, within the bounds and what remains.  Neither the  *)
(* gate, the milestones nor the second approver is looked at.              *)
ExecutePathPayment(e, x, out) ==
  /\ Funded(e)
  /\ slippage[e] # <<>>
  /\ out >= slippage[e][1].minOut
  /\ x <= slippage[e][1].maxIn
  /\ ExecuteRelease(e, x)
  /\ aside' = [aside EXCEPT ![e] = @ + x]
  /\ UNCHANGED <<outVars, deposited, toBuyer, pool, advanced, dualVars, slippage, proofVars,
                 nonce>>

-----------------------------------------------------------------------------
(* Proof of delivery. *)

(* publish_merkle_root: an admin, once for each date. *)
PublishMerkleRoot(d, orders) ==
  /\ root[d] = <<>>
  /\ root' = [root EXCEPT ![d] = <<orders>>]
  /\ UNCHANGED <<coreVars, oracles, oracleVotes, dualVars, poolVars, slippage, nonce>>

(* release_with_merkle_proof: the buyer, with a path from the order to the *)
(* root of a date (verify_merkle_path).  Neither gate nor second approver. *)
ReleaseWithMerkleProof(e, d) ==
  /\ Funded(e)
  /\ ~IsMilestoneEscrow(e)
  /\ root[d] # <<>> /\ e \in root[d][1]
  /\ ExecuteRelease(e, Remaining(escrow[e]))
  /\ UNCHANGED <<outVars, deposited, toBuyer, controlVars>>

(* Mutant: the votes of the panel before are kept. *)
SetMultiOracleConfigKeeps(e, p) ==
  /\ HasRecord(e)
  /\ escrow[e].status \notin Terminal
  /\ oracles' = [oracles EXCEPT ![e] = <<p>>]
  /\ UNCHANGED <<coreVars, root, oracleVotes, dualVars, poolVars, slippage, nonce>>

(* set_multi_oracle_config: a party or an admin; votes start over. *)
SetMultiOracleConfig(e, p) ==
  /\ HasRecord(e)
  /\ escrow[e].status \notin Terminal
  /\ oracles' = [oracles EXCEPT ![e] = <<p>>]
  /\ oracleVotes' = [oracleVotes EXCEPT ![e] = <<>>]
  /\ UNCHANGED <<coreVars, root, dualVars, poolVars, slippage, nonce>>

Affirmative(vs) == {i \in DOMAIN vs : vs[i].met}
Reached(e, vs) == Cardinality(Affirmative(vs)) >= oracles[e][1].required

(* submit_oracle_attestation: an oracle of the panel, once, within the     *)
(* window of the first vote; the vote that completes the panel pays all    *)
(* that remains.  Milestones and second approver are not looked at.        *)
SubmitOracleAttestation(e, o, met) ==
  LET cast == Append(oracleVotes[e], [oracle |-> o, met |-> met, at |-> ledger])
  IN  /\ oracles[e] # <<>> /\ o \in oracles[e][1].oracles
      /\ Funded(e)
      /\ \A i \in DOMAIN oracleVotes[e] : oracleVotes[e][i].oracle # o
      /\ oracleVotes[e] # <<>> => ledger <= oracleVotes[e][1].at + OracleWindow
      /\ oracleVotes' = [oracleVotes EXCEPT ![e] = cast]
      /\ IF Reached(e, cast)
         THEN /\ ExecuteRelease(e, Remaining(escrow[e]))
              /\ aside' = [aside EXCEPT ![e] = @ + Remaining(escrow[e])]
         ELSE UNCHANGED <<escrow, vault, toSeller, aside>>
      /\ UNCHANGED <<outVars, deposited, toBuyer, root, oracles, dualVars, pool, advanced,
                     slippage, nonce>>

(* extend_timeout_with_mutual_signatures *)
ExtendTimeoutWithMutualSignatures(e, v) ==
  /\ Funded(e)
  /\ v.deadline > escrow[e].timeout
  /\ v.nonce > nonce[e]
  /\ Store(e, [escrow[e] EXCEPT !.timeout = v.deadline])
  /\ nonce' = [nonce EXCEPT ![e] = v.nonce]
  /\ UNCHANGED <<outVars, vault, deposited, toSeller, toBuyer, dualVars, poolVars, slippage,
                 proofVars>>

-----------------------------------------------------------------------------

(* archive_terminal_escrow drops the approver's answer with the record. *)
ArchiveWithApproval(e) ==
  /\ Archive(e)
  /\ cosigner' = [cosigner EXCEPT ![e] = Nobody]
  /\ UNCHANGED <<signoff, signed, swapped, swappable, poolVars, slippage, proofVars, nonce>>

CoreOperation(e) ==
  /\ OpenStep(e) \/ PayStep(e)
  /\ UNCHANGED controlVars

DualStep(e) ==
  \/ \E u \in Approvers : SetDualControlConfig(e, u) \/ ApproveRelease(e, u)
  \/ \E n \in ApprovalTerms, fallback \in {"Refunded", "Disputed"} :
        SetDualControlTimeout(e, n, fallback)
  \/ HandleDualControlTimeout(e)
  \/ SetCrossCurrencySwapConfig(e)
  \/ ReleaseWithSwap(e)

PathStep(e) ==
  \/ \E b \in Bounds : SetSlippageBounds(e, b)
  \/ \E x \in 1..vault, out \in Outputs : ExecutePathPayment(e, x, out)

ProofStep(e) ==
  \/ \E d \in Dates : ReleaseWithMerkleProof(e, d)
  \/ \E p \in OraclePanels : SetMultiOracleConfig(e, p)
  \/ \E o \in Oracles, met \in BOOLEAN : SubmitOracleAttestation(e, o, met)

ControlsNext ==
  \/ CloseLedger /\ UNCHANGED controlVars
  \/ \E a \in PoolAmounts : FundPool(a) \/ WithdrawFromPool(a)
  \/ \E d \in Dates, orders \in SUBSET EscrowIds : PublishMerkleRoot(d, orders)
  \/ \E e \in EscrowIds :
        \/ CoreOperation(e)
        \/ ArchiveWithApproval(e)
        \/ DualStep(e)
        \/ SettleFromPool(e)
        \/ PathStep(e)
        \/ ProofStep(e)
        \/ \E v \in Vouchers : ExtendTimeoutWithMutualSignatures(e, v)

ControlsSpec == ControlsInit /\ [][ControlsNext]_controlsVars

(* handle_dual_control_timeout is anyone's to call, so a party who wants   *)
(* out calls it.  No admin, approver, router or oracle is assumed to act.  *)
ControlsFairSpec ==
  /\ ControlsSpec
  /\ \A e \in EscrowIds : WF_controlsVars(HandleDualControlTimeout(e))

-----------------------------------------------------------------------------

(* Every variable holds a value of its storage type. *)
ControlsTypeOK ==
  /\ TypeOK
  /\ cosigner \in [EscrowIds -> [who : {<<>>} \cup {<<u>> : u \in Approvers}, approved : BOOLEAN]]
  /\ signoff \in [EscrowIds -> Seq([deadline : Nat, fallback : {"Refunded", "Disputed"}])]
  /\ pool \in Nat
  /\ slippage \in [EscrowIds -> {<<>>} \cup {<<b>> : b \in Bounds}]
  /\ oracles \in [EscrowIds -> {<<>>} \cup {<<p>> : p \in OraclePanels}]
  /\ nonce \in [EscrowIds -> Nat]

(* The contract's one balance covers what it owes to open orders and to    *)
(* the pool, and what is over is exactly what the pool advanced for orders *)
(* whose own tokens were left behind: no way out pays one from the other.  *)
PoolIsBacked ==
  vault + bounties = pool + SumFunction(advanced) + SumFunction([e \in EscrowIds |-> Owed(e)])

(* Partial releases, the swap and the Merkle proof keep off an order with  *)
(* a schedule: what it has released is the sum of the milestones marked    *)
(* done, and what the three ways that do not ask for a schedule paid (the  *)
(* oracles of a panel, a path of swaps, the pool) -- against what the code *)
(* says of ensure_not_milestone_escrow, that release_milestone alone pays. *)
MilestonesMatchReleases ==
  \A e \in EscrowIds : HasRecord(e) /\ IsMilestoneEscrow(e) =>
    escrow[e].released = Earned(milestones[e]) + aside[e]

(* A large order leaves by a swap only when the very person who is its     *)
(* second approver that day has approved: an approval does not pass from   *)
(* one approver to the next.                                               *)
SwapNeedsItsCosigner ==
  [][\A e \in EscrowIds : e \in swapped' \ swapped /\ Large(e) =>
       \E u \in signed[e] : cosigner[e].who = <<u>>]_controlsVars

(* A panel pays only what enough of its own members attested, each once,   *)
(* all within one window: votes for an earlier panel never count.          *)
ConsensusIsFresh ==
  [][\A e \in EscrowIds :
       Len(oracleVotes'[e]) > Len(oracleVotes[e]) /\ escrow'[e].released > escrow[e].released =>
         LET cast == oracleVotes'[e]
             by == {cast[i].oracle : i \in
                      {j \in DOMAIN cast : cast[j].met /\ ledger - cast[j].at <= OracleWindow}}
         IN  Cardinality(by \cap oracles[e][1].oracles) >= oracles[e][1].required]_controlsVars

(* The predicates escrow/src/invariants.rs states of a record and of a     *)
(* change of it.                                                           *)
VerifyValueConservation(r) == r.released + r.refunded <= r.amount
VerifyMonotonicDistributions(r, s) == s.released >= r.released /\ s.refunded >= r.refunded
IsValidTransition(from, to) ==
  \/ from = to
  \/ from = "Created" /\ to \in {"Funded", "Cancelled"}
  \/ from \in {"Funded", "Disputed"} /\ to \in {"Released", "Refunded", "Cancelled"}
  \/ from = "Funded" /\ to = "Disputed"

(* No record breaks them, on whichever ways out one order takes in turn.   *)
RecordsMoveByTheTable ==
  [][\A e \in EscrowIds : HasRecord(e) /\ HasRecord(e)' =>
       /\ VerifyValueConservation(escrow'[e])
       /\ VerifyMonotonicDistributions(escrow[e], escrow'[e])
       /\ IsValidTransition(escrow[e].status, escrow'[e].status)]_controlsVars

(* Nobody's silence holds an order: once the approver's deadline passes    *)
(* and no approval is given, the order leaves Funded, is approved after    *)
(* all by another approver, or an admin sets another deadline.             *)
SilentApproverIsBypassed ==
  \A e \in EscrowIds :
    Funded(e) /\ ApproverDeadlinePassed(e) /\ cosigner[e] # Nobody /\ ~cosigner[e].approved
      ~> ~Funded(e) \/ ~ApproverDeadlinePassed(e) \/ cosigner[e].approved

=============================================================================
