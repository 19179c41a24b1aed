----------------------------- MODULE MCCascade -----------------------------
(* Three executions, of which the second may hand off to a fourth, in      *)
(* flows that hand off and in flows that execute each other's children.    *)
EXTENDS Cascade, TLC

CONSTANTS r1, r2, r3, r4

MCNextRound == [r \in Runs |-> IF r = r2 THEN r4 ELSE None]

MCBodies == {[handOffs |-> TRUE, diamonds |-> FALSE],
             [handOffs |-> FALSE, diamonds |-> TRUE]}

(* The second is set apart by its round.                                   *)
MCSymmetry == Permutations({r1, r3})
============================================================================
