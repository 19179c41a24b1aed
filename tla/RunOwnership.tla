--------------------------- MODULE RunOwnership ---------------------------
(***************************************************************************)
(* What the run store promises to the processes that share it, without     *)
(* claims, heartbeats, evidence or a journal: a run exists, somebody takes *)
(* it, it changes hands, it is given back, and its owner settles it, once  *)
(* and for all.                                                            *)
(***************************************************************************)
CONSTANTS Runs, Owners, None

VARIABLES
    phase,   \* "absent", "idle", "running" or "settled"
    owner    \* who may write for the run, None unless it is running

vars == <<phase, owner>>

Init ==
    /\ phase = [r \in Runs |-> "absent"]
    /\ owner = [r \in Runs |-> None]

Goes(r, p, o) ==
    /\ phase' = [phase EXCEPT ![r] = p]
    /\ owner' = [owner EXCEPT ![r] = o]

Create(r)      == phase[r] = "absent" /\ Goes(r, "idle", None)
Take(r, o)     == phase[r] = "idle" /\ Goes(r, "running", o)
Displace(r, o) == phase[r] = "running" /\ Goes(r, "running", o)
Release(r)     == phase[r] = "running" /\ Goes(r, "idle", None)
Settle(r)      == phase[r] = "running" /\ Goes(r, "settled", None)

Next ==
    \E r \in Runs :
        \/ Create(r) \/ Release(r) \/ Settle(r)
        \/ \E o \in Owners : Take(r, o) \/ Displace(r, o)

Spec == Init /\ [][Next]_vars
===========================================================================
