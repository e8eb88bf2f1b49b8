---------------------------- MODULE MCAgentLoop ----------------------------
(* AgentLoop for TLC. *)
EXTENDS AgentLoop, TLC

\* The senders are interchangeable within their kind.
Symmetry == Permutations(Msgs) \cup Permutations(Notices)

====
