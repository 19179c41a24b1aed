------------------------------ MODULE MCRewind ------------------------------
(* Services that follow one another, that overlap, and that alone have the run. *)
EXTENDS Rewind

SafeSteps == {"activate", "audit", "preflight", "archive", "commit", "children", "suspend", "complete"}

(* A rewind or its process fails once, and the engine drives the run between. *)
MCSequential ==
    [policy |-> "cancel", probe |-> TRUE, lapsed |-> TRUE, drives |-> {Nobody}, concurrent |-> FALSE,
     faults |-> {"revert", "store"}, crashAt |-> SafeSteps, maxFaults |-> 1]

(* Two services at once, and a failure at any step but the database's.     *)
MCOverlapping ==
    [policy |-> "block", probe |-> TRUE, lapsed |-> TRUE, drives |-> {Nobody}, concurrent |-> TRUE,
     faults |-> {"revert", "rollback", "jj", "interrupt"}, crashAt |-> {}, maxFaults |-> 1]

(* Nobody else drives the run: what is begun must end.                        *)
MCAlone ==
    [policy |-> "block", probe |-> TRUE, lapsed |-> TRUE, drives |-> {}, concurrent |-> FALSE,
     faults |-> {"revert"}, crashAt |-> SafeSteps, maxFaults |-> 1]

(* The composition that TimeTravel.make builds: no evidence of liveness.      *)
MCShipped == [MCAlone EXCEPT !.probe = FALSE]

(* The database fails again and again, a process may die meanwhile, and its   *)
(* heartbeat may be fresh when it is judged.                                  *)
MCFailing ==
    [policy |-> "cancel", probe |-> TRUE, lapsed |-> FALSE, drives |-> {}, concurrent |-> FALSE,
     faults |-> {"store"}, crashAt |-> {"archive"}, maxFaults |-> 3]

MCSettings == {MCSequential, MCOverlapping, MCAlone, MCShipped, MCFailing}
=============================================================================
