--------------------------- MODULE SqlConsensus ---------------------------
(***************************************************************************)
(* The database-backed lease strategy (packages/journal/src/SqlConsensus). *)
(*                                                                         *)
(* One row of flows_consensus_leases arbitrates one run.  A run without a  *)
(* row is the lease NoLease: prune deletes exactly the rows that hold      *)
(* neither an owner nor a claim.  Every operation of the strategy is one   *)
(* serialized write transaction, so it is given here as a guard on the     *)
(* lease and the lease it leaves behind; RunStore runs them inside its own *)
(* transactions.  granted_at_ms is written and never read, and is left     *)
(* out.                                                                    *)
(***************************************************************************)
EXTENDS Integers

CONSTANTS
    Owners,        \* process identities (host, pid, nonce); a restart is a new one
    Hosts,         \* machines
    HostOf,        \* the host of an identity
    None,          \* SQL NULL
    Times,         \* readings of the callers' wall clocks, in units of the model
    StaleAfter     \* heartbeatStaleAfter

ASSUME OwnersAssumption == None \notin Owners
ASSUME HostAssumption == HostOf \in [Owners -> Hosts]
ASSUME TimesAssumption == Times \subseteq Nat /\ None \notin Times
ASSUME StaleAssumption == StaleAfter \in Nat

EvidenceKinds == {"same-host-pid-dead", "cross-host-unreachable-stale"}

LivenessEvidence ==
    [expectedOwner : Owners, checkedAtMs : Times, kind : EvidenceKinds]

Lease == [owner : Owners \cup {None}, heartbeatAt : Times \cup {None},
          claim : Owners \cup {None}, claimedAt : Times \cup {None}]

NoLease == [owner |-> None, heartbeatAt |-> None, claim |-> None, claimedAt |-> None]

(* The one staleness rule of the lease: strictly older than the cutoff.    *)
Stale(at, now) == at < now - StaleAfter

(* The evidence names the owner it disproves, carries the observer's       *)
(* current reading, and its kind fits the two hosts.                       *)
MatchesEvidence(expected, observer, now, ev) ==
    /\ ev.expectedOwner = expected
    /\ ev.checkedAtMs = now
    /\ ev.kind = IF HostOf[expected] = HostOf[observer]
                 THEN "same-host-pid-dead" ELSE "cross-host-unreachable-stale"

Later(a, b) == IF a < b THEN b ELSE a

---------------------------------------------------------------------------
ClaimGranted(lease) == lease.claim = None /\ lease.owner = None

WithClaim(lease, claimant, now) ==
    [lease EXCEPT !.claim = claimant, !.claimedAt = now]

WithoutClaim(lease) == [lease EXCEPT !.claim = None, !.claimedAt = None]

ActivateAdmitted(lease, claimant, grantedAt) ==
    lease.claim = claimant /\ lease.claimedAt = grantedAt

Activated(owner, now) ==
    [owner |-> owner, heartbeatAt |-> now, claim |-> None, claimedAt |-> None]

(* guard: the commit-time fence of every durable write of an owner.        *)
Guard(lease, owner) == lease.owner = owner

(* Mutant: a late pulse overwrites a newer one.                             *)
RenewedBackwards(lease, now) == [lease EXCEPT !.heartbeatAt = now]

(* heartbeat: monotonic, a delayed pulse never moves the lease backwards.  *)
Renewed(lease, now) == [lease EXCEPT !.heartbeatAt = Later(@, now)]

(* release: clears whatever the caller holds, its claim and its ownership. *)
Released(lease, owner) ==
    [owner       |-> IF lease.owner = owner THEN None ELSE lease.owner,
     heartbeatAt |-> IF lease.owner = owner THEN None ELSE lease.heartbeatAt,
     claim       |-> IF lease.claim = owner THEN None ELSE lease.claim,
     claimedAt   |-> IF lease.claim = owner THEN None ELSE lease.claimedAt]

(* A database from before the lease table holds the owner only in the run  *)
(* row, and that row answers when the run has no lease.                    *)
LegacyStaleOwner(row, expected, now) ==
    /\ row.status = "running" /\ row.owner = expected
    /\ Stale(row.heartbeatAt, now)
    /\ row.claim = None

StealGranted(lease, row, expected, now) ==
    IF lease = NoLease
    THEN LegacyStaleOwner(row, expected, now)
    ELSE /\ lease.owner = expected
         /\ Stale(lease.heartbeatAt, now)
         /\ lease.claim = None

RecoverGranted(lease, row, claimant, grantedAt, now) ==
    /\ Stale(grantedAt, now)
    /\ IF lease = NoLease
       THEN row.claim = claimant /\ row.claimedAt = grantedAt
       ELSE lease.claim = claimant /\ lease.claimedAt = grantedAt
===========================================================================
