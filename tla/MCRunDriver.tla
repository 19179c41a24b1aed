---------------------------- MODULE MCRunDriver ----------------------------
(* Two processes, in four settings.                                        *)
EXTENDS RunDriver

CONSTANTS p1, p2

(* Processes side by side, a crash or an interruption at any await, writes *)
(* of the heartbeat that fail; no clock.                                   *)
MCHostile == [caller |-> None, sequential |-> FALSE, pulsesFail |-> TRUE,
              truthful |-> TRUE, clocked |-> FALSE,
              crashes |-> Phases, interrupts |-> Phases, maxCrashes |-> 1,
              cancellers |-> {p1}]

(* One process after another; a discarded run, so nobody polls it.         *)
MCRestart == [caller |-> None, sequential |-> TRUE, pulsesFail |-> FALSE,
              truthful |-> TRUE, clocked |-> TRUE,
              crashes |-> Phases \ {"claimed"}, interrupts |-> {"idle", "flow"},
              maxCrashes |-> 1, cancellers |-> {p1, p2}]

(* Processes side by side, one of them with the caller of execute.         *)
MCFollowed == [caller |-> p1, sequential |-> FALSE, pulsesFail |-> FALSE,
               truthful |-> TRUE, clocked |-> TRUE,
               crashes |-> {}, interrupts |-> {"idle", "flow"}, maxCrashes |-> 0,
               cancellers |-> {p2}]

(* Processes side by side, each of which takes the other for dead; no      *)
(* clock.                                                                  *)
MCMisjudged == [caller |-> None, sequential |-> FALSE, pulsesFail |-> TRUE,
                truthful |-> FALSE, clocked |-> FALSE,
                crashes |-> {}, interrupts |-> {"flow"}, maxCrashes |-> 1,
                cancellers |-> {p1}]

MCSettings == {MCHostile, MCRestart, MCFollowed, MCMisjudged}
============================================================================
