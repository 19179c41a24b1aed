---------------------------- MODULE MCStepCache ----------------------------
(* Two runs on one machine and a third on another. *)
EXTENDS StepCache

CONSTANTS m1, m2

MCOn == [r \in Runs |-> IF r = 3 THEN m2 ELSE m1]

(* A deterministic action behind the shared tiers. *)
MCShared == [runs |-> {1, 2, 3}, outs |-> {1}, nondet |-> FALSE, strict |-> FALSE,
             shared |-> TRUE]

(* An action that is not deterministic and does not say so, under a strict *)
(* receiver.                                                               *)
MCStrict == [runs |-> {1, 2}, outs |-> {1, 2}, nondet |-> FALSE, strict |-> TRUE,
             shared |-> FALSE]

MCSettings == {MCShared, MCStrict}
=============================================================================
