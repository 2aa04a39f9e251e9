---------------------------- MODULE MCAssignment ----------------------------
(* One or two processes; tasks t1 and t2 belong to the first, t3 to the      *)
(* last of them.  Three speaker numbers and three tasks let identifiers of a *)
(* legacy database have a gap and still leave room for new ones.             *)
EXTENDS Assignment, TLC

CONSTANTS p1, p2, t1, t2, t3

OneProcess == [t \in Tasks |-> p1]
TwoProcesses == [t \in Tasks |-> IF t = t3 THEN p2 ELSE p1]
InOneProcess == Permutations(Tasks)
InTwoProcesses == Permutations(Tasks \ {t3})
=============================================================================
