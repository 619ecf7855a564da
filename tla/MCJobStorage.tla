---------------------------- MODULE MCJobStorage ----------------------------
(* Instances of JobStorage for TLC. *)
EXTENDS JobStorage, TLC

Subscribed(status, canceling, end, price) ==
    [mapped |-> TRUE, held |-> TRUE, status |-> status, canceling |-> canceling,
     dated |-> TRUE, end |-> end, price |-> price]

(* One row of each class that the storage functions tell apart.             *)
Plans == {Subscribed("active", FALSE, 1, "premium"),
          Subscribed("canceled", FALSE, 0, "premium"),
          Subscribed("active", TRUE, -1, "premium")}

AllRows == Plans \cup {Subscribed("active", FALSE, 1, "retired"),
                       Subscribed("unpaid", FALSE, 1, "premium")}

Symmetry == Permutations(Workers)

=============================================================================
