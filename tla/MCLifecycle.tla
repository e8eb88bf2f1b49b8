---------------------------- MODULE MCLifecycle ----------------------------
EXTENDS Lifecycle, TLC

CONSTANTS top, ann, bob, d1, d2, d3, dev, ops, W, S, T

\* The root's workspace W, a directory S in it, and T in S.
MCBeneath == {<<S, W>>, <<T, S>>, <<T, W>>}
Carve(d) == [ws |-> d, heir |-> FALSE, normal |-> TRUE]
Guest(d) == [ws |-> d, heir |-> FALSE, normal |-> FALSE]
Heir(d) == [ws |-> d, heir |-> TRUE, normal |-> TRUE]
MCKinds == {Carve(S), Carve(T), Heir(W), Guest(S)}
DeliverySymmetry == Permutations(Deliveries)
Symmetry == Permutations({ann, bob}) \cup Permutations(Roles) \cup Permutations(Deliveries)
=============================================================================
