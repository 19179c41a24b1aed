---------------------------- MODULE MCRunStore ----------------------------
(* Instances of RunStore for TLC: o1 and o2 share a host, o3 has its own.  *)
EXTENDS RunStore, TLC

CONSTANTS o1, o2, o3, h1, h2

MCHostOf == [o \in Owners |-> IF o = o3 THEN h2 ELSE h1]
MCTimes == 0..2
Symmetric == Permutations({o1, o2})
===========================================================================
