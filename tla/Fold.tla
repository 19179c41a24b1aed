------------------------------- MODULE Fold -------------------------------
(***************************************************************************)
(* The run reducer of packages/run-store/src/Fold.ts: what one committed   *)
(* journal entry of the flows.run.* and flows.consensus.* namespaces does  *)
(* to the folded flows_runs row.  Timestamps other than the claim's        *)
(* generation, parentage and state_json are left out: they are copied from *)
(* the entry.  heartbeat_at_ms is left out because pulses are never        *)
(* journalled.                                                             *)
(***************************************************************************)
EXTENDS SqlConsensus

Terminal == {"completed", "failed", "cancelled"}
Statuses == {"pending", "running", "suspended"} \cup Terminal
Reasons  == {"event", "released"}

FoldRow ==
    [status : Statuses \cup {"absent"}, cancelRequested : BOOLEAN,
     owner : Owners \cup {None},
     claim : Owners \cup {None}, claimedAt : Times \cup {None},
     waiting : Reasons \cup {None}]

NoFoldRow == [status |-> "absent", cancelRequested |-> FALSE, owner |-> None,
              claim |-> None, claimedAt |-> None, waiting |-> None]

(* flows.run.created seeds the row, whatever the fold held before.         *)
Created(f) == [NoFoldRow EXCEPT !.status = "pending"]

CancelRequested(f) == [f EXCEPT !.cancelRequested = TRUE]

(* flows.run.transitioned with a status: running keeps the ownership       *)
(* columns, every other status clears them and the claim with them.        *)
Transitioned(f, status) ==
    IF status = "running"
    THEN [f EXCEPT !.status = "running"]
    ELSE [f EXCEPT !.status = status, !.owner = None,
                   !.claim = None, !.claimedAt = None]

(* Mutant: a waiting payload re-asserts the parked status.                 *)
WaitingSetWithStatus(f, reason) ==
    [f EXCEPT !.waiting = reason, !.status = "suspended"]

(* flows.run.transitioned that carries only a waiting payload.             *)
WaitingSet(f, reason) == [f EXCEPT !.waiting = reason]

(* flows.consensus.claimed and flows.consensus.stolen                      *)
ClaimedBy(f, claimant, grantedAt) ==
    [f EXCEPT !.claim = claimant, !.claimedAt = grantedAt]

(* flows.consensus.activated                                               *)
ActivatedBy(f, owner) ==
    [f EXCEPT !.owner = owner, !.claim = None, !.claimedAt = None]

(* flows.consensus.expired                                                 *)
ClaimExpired(f, claimant) ==
    IF f.claim = claimant
    THEN [f EXCEPT !.claim = None, !.claimedAt = None] ELSE f

(* flows.consensus.released                                                *)
ReleasedBy(f, actor) ==
    [ClaimExpired(f, actor) EXCEPT !.owner = IF f.owner = actor THEN None ELSE @]

(* flows.run.snapshot replaces the folded row by the row it was taken of.  *)
FoldOf(row) ==
    [status |-> row.status, cancelRequested |-> row.cancelRequested,
     owner |-> row.owner, claim |-> row.claim, claimedAt |-> row.claimedAt,
     waiting |-> row.waiting]
===========================================================================
