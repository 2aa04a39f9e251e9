----------------------------- MODULE MCBatcher -----------------------------
(* Three or four requests of two sessions, a short and a long bucket.       *)
EXTENDS Batcher, TLC

CONSTANTS a1, a2, a3, b1   \* requests: a1, a2, a3 of one session, b1 of another

MCBoundaries == <<1>>
MCSessionOf == [r \in Requests |-> IF r = b1 THEN "b" ELSE "a"]
MCSymmetry == Permutations({a1, a2, a3} \cap Requests)
=============================================================================
