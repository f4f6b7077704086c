------------------------ MODULE MCDelegationRegistry ------------------------
(* Small instances of DelegationRegistry for TLC. *)
EXTENDS DelegationRegistry, TLC

CONSTANTS o1, o2, c1

(* A delegation created and then paused before snapshots were keyed. *)
Old(status, v) == [owner |-> o1, contract |-> c1, status |-> status, expires |-> 2,
                   version |-> v, permissions |-> Flags, nonce |-> 0]
FreshOrOld == {<<>>, <<Old("Active", 1), Old("Paused", 2)>>}
FreshOnly == {<<>>}

=============================================================================
