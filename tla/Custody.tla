------------------------------ MODULE Custody ------------------------------
(***************************************************************************)
(* What an escrow contract promises to the two parties of each order,      *)
(* whatever its entry points are: the order's money is a box.  Tokens go   *)
(* in once; they come out a part at a time, never more than went in; a box *)
(* is shut exactly when it has been emptied, or because nothing was ever   *)
(* put in it; and a shut box stays as it is.                               *)
(***************************************************************************)
EXTENDS Integers

CONSTANT Boxes

VARIABLE box

Box == [state : {"new", "open", "shut"}, in : Nat, out : Nat]

NewBox == [state |-> "new", in |-> 0, out |-> 0]

Init == box = [b \in Boxes |-> NewBox]

(* Tokens go into some new boxes at once. *)
Fill(filled) ==
  LET put(b) == box'[b].in
  IN  /\ \A b \in filled : box[b] = NewBox /\ put(b) \in Nat \ {0}
      /\ box' = [b \in Boxes |->
                   IF b \in filled
                   THEN [state |-> "open", in |-> put(b), out |-> 0]
                   ELSE box[b]]

(* Some of the tokens leave, to either party. *)
Draw(b, n) ==
  /\ box[b].state = "open"
  /\ n > 0
  /\ box[b].out + n <= box[b].in
  /\ box' = [box EXCEPT
                ![b] = [state |-> IF @.out + n = @.in THEN "shut" ELSE "open",
                        in    |-> @.in,
                        out   |-> @.out + n]]

(* An order nobody paid for is dropped. *)
Drop(b) ==
  /\ box[b].state = "new"
  /\ box' = [box EXCEPT ![b].state = "shut"]

Next ==
  \/ \E filled \in SUBSET Boxes : Fill(filled)
  \/ \E b \in Boxes : Drop(b) \/ \E n \in 1..box[b].in : Draw(b, n)

Spec == Init /\ [][Next]_box

=============================================================================
