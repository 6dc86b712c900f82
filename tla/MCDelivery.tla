------------------------------ MODULE MCDelivery ------------------------------
(* Delivery of a playlist and a segment, for TLC. *)
EXTENDS Delivery, TLC

\* A range that ends past every object, and a reversed one.
TwoRanges == {<<1, 9>>, <<2, 1>>}

\* Handlers are interchangeable.
Symmetry == Permutations(Requests)

=============================================================================
