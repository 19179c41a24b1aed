-------------------------- MODULE MCActionDispatch --------------------------
(* Incarnations that follow one another, one or two fibers in each.        *)
EXTENDS ActionDispatch

CONSTANTS p1, p2, p3, f1, f2, f3

(* An effect on the outside world, under steals and a retry budget.        *)
MCIrreversible ==
    [tier |-> "irreversible", keyed |-> TRUE, steals |-> TRUE, hostFails |-> FALSE,
     expires |-> TRUE, maxFaults |-> 2, results |-> {"v", "w"},
     home |-> [x \in Fibers |-> CASE x = f1 -> p1 [] x = f2 -> p2 [] OTHER -> None]]

(* The same without a key: a failed attempt is not repeated.               *)
MCUnkeyed == [MCIrreversible EXCEPT !.keyed = FALSE, !.expires = FALSE]

(* Two branches of one flow that dispatch the same key.                    *)
MCShared ==
    [tier |-> "sealed", keyed |-> TRUE, steals |-> TRUE, hostFails |-> FALSE,
     expires |-> FALSE, maxFaults |-> 2, results |-> {"v", "w"},
     home |-> [x \in Fibers |-> IF x = f3 THEN p2 ELSE p1]]

(* A working copy that three processes in turn find dirty.                 *)
MCCompensable ==
    [tier |-> "compensable", keyed |-> TRUE, steals |-> FALSE, hostFails |-> FALSE,
     expires |-> TRUE, maxFaults |-> 3, results |-> {"v"},
     home |-> [x \in Fibers |-> CASE x = f1 -> p1 [] x = f2 -> p2 [] OTHER -> p3]]

(* The same under a host that fails.                                       *)
MCHostFails == [MCCompensable EXCEPT !.hostFails = TRUE, !.maxFaults = 2]

MCSettings == {MCIrreversible, MCUnkeyed, MCShared, MCCompensable, MCHostFails}
============================================================================
