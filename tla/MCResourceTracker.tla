------------------------- MODULE MCResourceTracker -------------------------
(* Instances of ResourceTracker for TLC. *)
EXTENDS ResourceTracker, TLC

CONSTANTS n1, n2, i1

\* Two units on each node: two large instances never fit, two small ones do.
TwoNodesLimit == [n \in {n1, n2} |-> 2]

\* Without reschedules an instance is built on one node only, and the nodes are
\* alike: the first is built on n1.
BuildsNext == Next /\ flow'[i1].node # n2
BuildsSpec == Init /\ [][BuildsNext]_vars /\ Fairness
=============================================================================
