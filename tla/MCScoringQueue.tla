--------------------------- MODULE MCScoringQueue ---------------------------
(* Small instances of ScoringQueue: two jobs of one application, and a     *)
(* third one of another application where a run has room for it.           *)
EXTENDS ScoringQueue, TLC

CONSTANTS a1, a2

MCAppOf == [j \in Job |-> IF j = 3 THEN a2 ELSE a1]

\* Workers and operators are interchangeable.
Symmetry == Permutations(Worker) \cup Permutations(Operator)

=============================================================================
