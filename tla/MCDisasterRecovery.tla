------------------------ MODULE MCDisasterRecovery ------------------------
(* Instances of DisasterRecovery for TLC: two processes on one host, one   *)
(* run, and readings 0 and 1 with everything before the current reading    *)
(* stale.                                                                  *)
EXTENDS DisasterRecovery, TLC

CONSTANTS o1, o2, h1

MCHostOf == [o \in Owners |-> h1]
MCTimes == 0..1
Symmetric == Permutations({o1, o2})
===========================================================================
