--------------------------- MODULE MCEscrowAdmin ---------------------------
(***************************************************************************)
(* EscrowAdmin with small constants for TLC.                               *)
(***************************************************************************)
EXTENDS EscrowAdmin, TLC

MCSplits == {<<1>>, <<1, 1>>}

Symmetry == Permutations(Users)

Queueing == lastId > 0
(* The settings a queued change or a change made is about. *)
Touched ==
  {TopicOf[proposal[id].action] : id \in {i \in Ids : Stored(i)}}
  \cup {t \in {"split"} : split # <<>>} \cup {t \in {"tokens"} : tokens # <<>>}
Rescuing == \E e \in Orders : rescue[e] # <<>>
Upgrading == bar > 0

(* One concern at a time: what they share is who the admins are.  While    *)
(* changes (of one setting at a time) are queued there is a single admin,  *)
(* and orders move only when a rescue is on its way.                       *)
MCOneConcern ==
  /\ ~(Queueing /\ Rescuing) /\ ~(Queueing /\ Upgrading) /\ ~(Rescuing /\ Upgrading)
  /\ Cardinality(Touched) <= 1
  /\ Queueing => coAdmins = {} /\ nominee = <<>> /\ threshold = MinThreshold
  /\ guardian # <<>> => ~Rescuing /\ ~Upgrading /\ coAdmins = {}
  /\ (\E e \in Orders : order[e].status # "Funded" \/ paid[e] > 0) => ~Queueing /\ ~Upgrading
  /\ redeployed => ~Queueing /\ ~Rescuing
  /\ Rescuing => nominee = <<>>

=============================================================================
