--------------------------- MODULE MCReputation ---------------------------
(***************************************************************************)
(* Reputation with small constants for TLC.                                *)
(***************************************************************************)
EXTENDS Reputation

(* "a" sells twice to "b"; the first escrow ends Released, and a contract  *)
(* of the choice of "c" reports an escrow of "a" and "c" under that id.    *)
MCDeals == {[id |-> i, entity |-> "a", counterparty |-> "b"] : i \in 1..2}
MCSettled == {[id |-> 1, parties |-> {"a", x}] : x \in {"b", "c"}}
MCConfigs == {[window |-> 1, penalty |-> 500, freeze |-> 1],
              [window |-> 2, penalty |-> 500, freeze |-> 1]}

(* "b" may flag, and only "a" is frozen; "c" is not rated, and the ratings *)
(* of the second escrow are all the same.                                  *)
MCSellerOnTrial ==
  /\ frozen \subseteq {"a"}
  /\ record[1].entity # "c"
  /\ record[2].rating # 9000
=============================================================================
