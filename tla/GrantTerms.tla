----------------------------- MODULE GrantTerms -----------------------------
(***************************************************************************)
(* What the two halves of the permissions contract share: the ledger they  *)
(* read, and the terms a grant may have, of one owner (Permissions) or of  *)
(* several (QuorumGrants).                                                 *)
(***************************************************************************)
EXTENDS Integers

CONSTANTS
  Terms,      \* terms a grant may have: [limit, perTx, ttl]
  MaxLedger   \* bound on the clock

ASSUME TermsAssumption ==
  /\ \A t \in Terms : /\ t.perTx \in Nat \ {0}
                      /\ t.limit \in Nat /\ t.limit >= t.perTx
                      /\ t.ttl \in Nat
  /\ MaxLedger \in Nat

VARIABLE ledger   \* sequence number and timestamp of the ledger

=============================================================================
