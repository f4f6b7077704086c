--------------------------- MODULE MCQuorumGrants ---------------------------
(***************************************************************************)
(* QuorumGrants with small constants for TLC.                              *)
(***************************************************************************)
EXTENDS QuorumGrants, TLC

MCTerms == {[limit |-> 2, perTx |-> 2, ttl |-> 2]}
\* Not all amounts asked for are positive.
MCAmounts == {-1, 1, 2}
MCWindows == {[length |-> 2, cap |-> 1], [length |-> 0, cap |-> 0]}

Symmetry == Permutations(Owners)

(* The window and the quorum are looked at in turns: once there has been a *)
(* window or a negative spend, there is one grant, of one owner, and one   *)
(* queued spend.                                                           *)
MCInTurns ==
  limit.length > 0 \/ reversed # {} \/ (\E p \in Owners : window[p] # <<>>) =>
    /\ lastId <= 1
    /\ Cardinality(Granted) <= 1
    /\ \A p \in Granted : grant[p].threshold = 1 /\ Cardinality(grant[p].owners) = 1

=============================================================================
