----------------------------- MODULE MCTriggers -----------------------------
(* One trigger under each overlap policy, and under two schedulers. *)
EXTENDS Triggers

CONSTANTS p1, p2

MCBuffered == [procs |-> {p1}, overlap |-> "buffer-one", catchUp |-> "one",
               maxCatchUp |-> 2, last |-> 5, maxFaults |-> 0]
MCSkipped == [procs |-> {p1}, overlap |-> "skip", catchUp |-> "all",
              maxCatchUp |-> 1, last |-> 3, maxFaults |-> 2]
MCSuperseded == [procs |-> {p1}, overlap |-> "supersede", catchUp |-> "all",
                 maxCatchUp |-> 3, last |-> 3, maxFaults |-> 1]
MCTwo == [procs |-> {p1, p2}, overlap |-> "skip", catchUp |-> "none",
          maxCatchUp |-> 2, last |-> 2, maxFaults |-> 0]
MCTwoBuffered == [MCTwo EXCEPT !.overlap = "buffer-one"]
MCUndisturbed == [MCSkipped EXCEPT !.maxFaults = 0]

MCSettings == {MCBuffered, MCSkipped, MCSuperseded, MCTwo, MCTwoBuffered, MCUndisturbed}
=============================================================================
