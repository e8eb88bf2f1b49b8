----------------------------- MODULE MCApproval -----------------------------
(* Approval for TLC. *)
EXTENDS Approval, TLC

\* Ids differ only in being gated or not.
Symmetry == Permutations(Gated) \cup Permutations(Ids \ Gated)

====
