--------------------------- MODULE MCComputeMoves ---------------------------
(* Instances of ComputeMoves for TLC.                                       *)
EXTENDS ComputeMoves

CONSTANTS n1, n2

\* A large flavor fits on n1 only, and only while nothing else is there.
UnevenLimit == [n \in {n1, n2} |-> IF n = n1 THEN 3 ELSE 1]
=============================================================================
