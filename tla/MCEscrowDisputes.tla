-------------------------- MODULE MCEscrowDisputes --------------------------
(* Small instances of EscrowDisputes for TLC: one order that may be        *)
(* disputed, beside others that only fill the pool.                        *)
EXTENDS EscrowDisputes, TLC

CONSTANTS e1, a1, a2

NoSchedules == {}
NoPanels == {}
NoItems == {}
OneOrTwoItems == {<<1, 1>>, <<2>>}
TwoArbiters == [arbiters |-> {a1, a2}, threshold |-> 2]
OneArbiter == [arbiters |-> {a1}, threshold |-> 1]
AnyArbiter == [arbiters |-> {a1, a2}, threshold |-> 1]
SmallPanels == {TwoArbiters, OneArbiter, AnyArbiter}

(* What came before the deposits does not matter to them, so they are made *)
(* in the first ledger, the bystanders' first, and arbiters register       *)
(* before the order they will hear.                                        *)
Opening ==
  /\ ledger = 0
  /\ \/ /\ \E e \in EscrowIds, a \in Amounts, term \in Terms :
             /\ e = e1 => \A other \in EscrowIds \ {e1} : HasRecord(other)
             /\ Deposit(e, a, term, 0)
        /\ UNCHANGED <<inspectVars, panelVars, rulingVars>>
     \/ escrow[e1].status = "Unused" /\ \E amount \in Stakes : RegisterArbiter(a1, amount)
     \/ \E term \in InspectionTerms : SetInspectionConfig(e1, term)

DisputedOrder ==
  \/ \E caller \in Callers, x \in 1..vault :
       PartialRefund(e1, caller, x) /\ UNCHANGED <<inspectVars, panelVars, rulingVars>>
  \/ \E x \in 1..vault : GuardedRelease(e1, "buyer", x)
  \/ ArchiveWithVotes(e1)
  \/ VerifyDelivery(e1) \/ ReleaseOnInspectionPassed(e1) \/ ClaimInspectionAutoRelease(e1)
  \/ RulingStep(e1)

(* A delivery leaves the release guard locked and with it every resolution *)
(* by quorum, so arbiters are left out of an order that is inspected; and, *)
(* to keep the instance small, of one that is itemised.                    *)
Arbitration ==
  /\ ~inspection[e1].set
  /\ items[e1] = <<>>
  /\ \/ /\ \/ escrow[e1].status = "Disputed"
           \/ escrow[e1].status = "InitialRuling" /\ extensions[e1] # {}
        /\ \E p \in Panels : SetQuorumConfig(p)
     \/ \E a \in Arbiters, side \in Sides : VoteDispute(e1, a, side)
     \/ \E side \in Sides : ResolveDisputeQuorum(e1, side)
     \/ SlashDelinquentArbiters(e1)
     \/ PruneDisputeVotes(e1)
     \/ /\ escrow[e1].status = "InitialRuling"
        /\ \E a \in Arbiters, by \in Extensions : ExtendTimeoutViaQuorum(e1, a, by)

SmallNext ==
  \/ CloseLedger /\ UNCHANGED <<inspectVars, panelVars, rulingVars>>
  \/ Opening
  \/ DisputedOrder
  \/ Arbitration

SmallSpec == DisputeInit /\ [][SmallNext]_disputeVars
SmallFairSpec ==
  SmallSpec /\ \A e \in EscrowIds : WF_disputeVars(FinalizeUncontestedRuling(e))

=============================================================================
