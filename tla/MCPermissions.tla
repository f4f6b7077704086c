--------------------------- MODULE MCPermissions ---------------------------
(***************************************************************************)
(* Permissions with small constants for TLC.                               *)
(***************************************************************************)
EXTENDS Permissions

(* A chain of three, "a" to "b" to "c" and back to "b", and a last pair    *)
(* that is a second child of the first, may be moved to the place of the   *)
(* second, or becomes the fourth of the chain.                             *)
MCFamily == {<<"a", "b">>, <<"b", "c">>, <<"c", "b">>, <<"b", "d">>}
(* A pair with a relayer key, and the pair its grant may be moved to. *)
MCOne == {<<"a", "b">>}
MCSigned == {<<"a", "b">>, <<"a", "c">>}

MCTerms == {[limit |-> 1, perTx |-> 1, ttl |-> 1]}
MCSessions == {[cap |-> 1, ttl |-> 1]}

(* No grant is paused or swept, one is transferred at a time, what "b" and *)
(* "c" grant are parts of what they were granted and not of each other's,  *)
(* and one of the records is pruned, or never made, by the third ledger.   *)
MCHandedOn ==
  /\ \A p \in Pairs : perm[p].status \notin {"Paused", "Expired"}
  /\ Cardinality(moved) <= 1
  /\ perm[<<"b", "c">>].parent # <<"c", "b">>
  /\ \A p \in Pairs : Exists(p) /\ perm[p].parent = NoParent => p[1] = "a"
  /\ ledger < 3 \/ \E p \in Pairs : ~Exists(p)

(* Beside the signed pair, one more, which gets what is transferred only,  *)
(* and whose allowance is not decreased.                                   *)
MCMovedBeside ==
  \A p \in Pairs \ Signed :
    (Exists(p) => p \in moved) /\ ~InSession(p) /\ pending[p] = NoDecrease
=============================================================================
