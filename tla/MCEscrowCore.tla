---------------------------- MODULE MCEscrowCore ----------------------------
(* Small instances of EscrowCore for TLC. *)
EXTENDS EscrowCore, TLC

NoSchedules == {}
SmallSchedules == {<<1, 2>>}

Symmetry == Permutations(EscrowIds)

(* The operations that move tokens or open and close records, for the      *)
(* instance in which two orders share the vault; the settings of a single  *)
(* order are covered by the instances with one.                            *)
MoneyStep(e) ==
  \/ \E a \in Amounts, term \in Terms, s \in Surpluses :
        Create(e, a, term) \/ Deposit(e, a, term, s) \/ Fund(e, s)
  \/ Cancel(e)
  \/ PayStep(e)
  \/ KeeperBump(e)
  \/ Archive(e)

MoneyNext ==
  \/ CloseLedger
  \/ \E batch \in SUBSET EscrowIds, a \in Amounts, term \in Terms : BatchCreate(batch, a, term)
  \/ \E e \in EscrowIds : MoneyStep(e)

MoneySpec == CoreInit /\ [][MoneyNext]_coreVars

=============================================================================
