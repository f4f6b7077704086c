--------------------------- MODULE MCMarketplace ---------------------------
(***************************************************************************)
(* Marketplace with small constants for TLC.                               *)
(***************************************************************************)
EXTENDS Marketplace

(* One category in two spellings. *)
MCNormal == [c \in {"food", "Food"} |-> "food"]

(* The second storefront is there for what it shares with the first, the   *)
(* counters and indexes: it is opened in the first moment, when nobody has *)
(* vouched for the first one and no policy was raised; no escrow is open,  *)
(* it files no appeal, and its policy is not set before it exists.         *)
MCSecondIsPlain ==
  /\ nextId < 3 => policy[2] = NoPolicy
  /\ nextId = 3 =>
       /\ now = 0
       /\ \A i \in Ids : open[i] = 0 /\ policy[i].raisedAt = Never
       /\ policy[1].required = 1 /\ attested[1] = {} /\ appeal[2] = NoAppeal
=============================================================================
