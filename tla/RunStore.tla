----------------------------- MODULE RunStore -----------------------------
(***************************************************************************)
(* The fenced run store (packages/run-store/src/RunStore.ts) over the      *)
(* lease strategy of SqlConsensus, together with the waiting-payload       *)
(* writes of DurableEngineState (park, wake) on the same rows.             *)
(*                                                                         *)
(* rows[r]     the flows_runs row of run r ("absent" before create)        *)
(* leases[r]   the flows_consensus_leases row of run r                     *)
(* folds[r]    what replaying the run's committed journal entries yields   *)
(* sessions[o][r]  what process o remembers of run r between two calls:    *)
(*             the snapshot it read and the generation of its claim        *)
(*                                                                         *)
(* Every operation is one journal.transact or DurableWriter.write, so it   *)
(* is one step that changes the row, the lease and the journal together.   *)
(* A call whose precondition fails returns an outcome and changes nothing: *)
(* it is the absence of a step.  The caller's clock reading is an input of *)
(* each call, unrelated to the readings of other callers: clocks are       *)
(* skewed, and a call may carry a reading taken long before it commits.  A *)
(* process that crashed is one that takes no more steps.                   *)
(***************************************************************************)
EXTENDS Fold

CONSTANT Runs

VARIABLES rows, leases, folds, sessions

vars == <<rows, leases, folds, sessions>>

Row == [status : Statuses \cup {"absent"}, cancelRequested : BOOLEAN,
        owner : Owners \cup {None}, heartbeatAt : Times \cup {None},
        claim : Owners \cup {None}, claimedAt : Times \cup {None},
        waiting : Reasons \cup {None}]

NoRow == [status |-> "absent", cancelRequested |-> FALSE,
          owner |-> None, heartbeatAt |-> None,
          claim |-> None, claimedAt |-> None, waiting |-> None]

Snapshot == [status : Statuses \cup {"absent"}, owner : Owners \cup {None},
             heartbeatAt : Times \cup {None}]

SnapshotOf(row) ==
    [status |-> row.status, owner |-> row.owner, heartbeatAt |-> row.heartbeatAt]

Session == [expected : Snapshot, claimedAt : Times \cup {None}]

NoSession == [expected |-> SnapshotOf(NoRow), claimedAt |-> None]

Init ==
    /\ rows = [r \in Runs |-> NoRow]
    /\ leases = [r \in Runs |-> NoLease]
    /\ folds = [r \in Runs |-> NoFoldRow]
    /\ sessions = [o \in Owners |-> [r \in Runs |-> NoSession]]

---------------------------------------------------------------------------
(* Predicates of a call on the row it reads.                               *)

Exists(r) == rows[r].status # "absent"

(* Mutant: the heartbeat column is left out of the comparison.             *)
SnapshotMatchesOwner(row, expected) ==
    row.status = expected.status /\ row.owner = expected.owner

SnapshotMatchesRow(row, expected) == SnapshotOf(row) = expected

ClaimColumnsFree(row) == row.claim = None /\ row.claimedAt = None

RowMatchesClaim(row, claimant, claimedAt) ==
    row.claim = claimant /\ row.claimedAt = claimedAt

EvidenceMatches(expected, claimant, now, ev) ==
    /\ expected.status = "running" /\ expected.owner # None
    /\ MatchesEvidence(expected.owner, claimant, now, ev)

RowWithClaim(row, claimant, now) ==
    [row EXCEPT !.claim = claimant, !.claimedAt = now]

RowWithoutClaim(row) == [row EXCEPT !.claim = None, !.claimedAt = None]

RowRunning(row, owner, now) ==
    [row EXCEPT !.status = "running", !.owner = owner, !.heartbeatAt = now]

(* A non-running status clears the owner, the heartbeat and the claim.     *)
RowSettled(row, status) ==
    [row EXCEPT !.status = status, !.owner = None, !.heartbeatAt = None,
                !.claim = None, !.claimedAt = None]

---------------------------------------------------------------------------
Create(r) ==
    /\ ~Exists(r)
    /\ rows' = [rows EXCEPT ![r] = [NoRow EXCEPT !.status = "pending"]]
    /\ folds' = [folds EXCEPT ![r] = Created(@)]
    /\ UNCHANGED <<leases, sessions>>

(* A caller reads the row and keeps its snapshot for the calls to come.    *)
Get(o, r) ==
    /\ Exists(r)
    /\ sessions[o][r].claimedAt = None
    /\ sessions' = [sessions EXCEPT ![o][r].expected = SnapshotOf(rows[r])]
    /\ UNCHANGED <<rows, leases, folds>>

(* First writer wins; the write is not fenced, any process may ask.        *)
RequestCancel(r) ==
    /\ Exists(r)
    /\ ~rows[r].cancelRequested
    /\ rows' = [rows EXCEPT ![r].cancelRequested = TRUE]
    /\ folds' = [folds EXCEPT ![r] = CancelRequested(@)]
    /\ UNCHANGED <<leases, sessions>>

(* Mutant: a settled run may be claimed.                                   *)
ClaimAnyStatus(o, r, now) ==
    /\ Exists(r)
    /\ SnapshotMatchesRow(rows[r], sessions[o][r].expected)
    /\ ClaimColumnsFree(rows[r])
    /\ ClaimGranted(leases[r])
    /\ leases' = [leases EXCEPT ![r] = WithClaim(@, o, now)]
    /\ rows' = [rows EXCEPT ![r] = RowWithClaim(@, o, now)]
    /\ folds' = [folds EXCEPT ![r] = ClaimedBy(@, o, now)]
    /\ sessions' = [sessions EXCEPT ![o][r].claimedAt = now]

Claim(o, r, now) ==
    /\ rows[r].status \in {"pending", "suspended"}
    /\ SnapshotMatchesRow(rows[r], sessions[o][r].expected)
    /\ ClaimColumnsFree(rows[r])
    /\ ClaimGranted(leases[r])
    /\ leases' = [leases EXCEPT ![r] = WithClaim(@, o, now)]
    /\ rows' = [rows EXCEPT ![r] = RowWithClaim(@, o, now)]
    /\ folds' = [folds EXCEPT ![r] = ClaimedBy(@, o, now)]
    /\ sessions' = [sessions EXCEPT ![o][r].claimedAt = now]

Steal(o, r, now, ev) ==
    LET expected == sessions[o][r].expected IN
    /\ EvidenceMatches(expected, o, now, ev)
    /\ SnapshotMatchesRow(rows[r], expected)
    /\ ClaimColumnsFree(rows[r])
    /\ Stale(rows[r].heartbeatAt, now)
    /\ StealGranted(leases[r], rows[r], ev.expectedOwner, now)
    /\ leases' = [leases EXCEPT ![r] = WithClaim(@, o, now)]
    /\ rows' = [rows EXCEPT ![r] = RowWithClaim(@, o, now)]
    /\ folds' = [folds EXCEPT ![r] = ClaimedBy(@, o, now)]
    /\ sessions' = [sessions EXCEPT ![o][r].claimedAt = now]

(* claim, or steal, and activate in one transaction.                       *)
OwnFree(o, r, now) ==
    /\ rows[r].owner = None
    /\ ClaimGranted(leases[r])

(* Its own stale lease is released and granted again.                      *)
OwnAgain(o, r, now) ==
    /\ rows[r].owner = o
    /\ ClaimGranted(Released(leases[r], o))

OwnStale(o, r, now, ev) ==
    /\ rows[r].owner \notin {None, o}
    /\ EvidenceMatches(sessions[o][r].expected, o, now, ev)
    /\ StealGranted(leases[r], rows[r], ev.expectedOwner, now)

ClaimAndOwn(o, r, now, ev) ==
    /\ rows[r].status \in {"pending", "suspended", "running"}
    /\ SnapshotMatchesRow(rows[r], sessions[o][r].expected)
    /\ ClaimColumnsFree(rows[r])
    /\ rows[r].status = "running" => Stale(rows[r].heartbeatAt, now)
    /\ OwnFree(o, r, now) \/ OwnAgain(o, r, now) \/ OwnStale(o, r, now, ev)
    /\ leases' = [leases EXCEPT ![r] = Activated(o, now)]
    /\ rows' = [rows EXCEPT ![r] = RowRunning(@, o, now)]
    /\ folds' = [folds EXCEPT ![r] =
                    Transitioned(ActivatedBy(ClaimedBy(@, o, now), o), "running")]
    /\ sessions' = [sessions EXCEPT ![o][r] = NoSession]

(* The claim is intact and so is the row it was made on: it becomes        *)
(* ownership, over a stale owner too.                                      *)
ActivateSucceeds(o, r, now) ==
    LET s == sessions[o][r] IN
    /\ s.claimedAt # None
    /\ RowMatchesClaim(rows[r], o, s.claimedAt)
    /\ SnapshotMatchesRow(rows[r], s.expected)
    /\ ActivateAdmitted(leases[r], o, s.claimedAt)
    /\ leases' = [leases EXCEPT ![r] = Activated(o, now)]
    /\ rows' = [rows EXCEPT ![r] = RowRunning(RowWithoutClaim(@), o, now)]
    /\ folds' = [folds EXCEPT ![r] = Transitioned(ActivatedBy(@, o), "running")]
    /\ sessions' = [sessions EXCEPT ![o][r] = NoSession]

(* The row moved on under the claim, or the strategy dropped the claim:    *)
(* the claim columns are cleared, and the strategy's claim with them, in a *)
(* transaction that appends no journal entry.                              *)
ActivateRefused(o, r) ==
    LET s == sessions[o][r]
        moved == ~SnapshotMatchesRow(rows[r], s.expected)
    IN
    /\ s.claimedAt # None
    /\ RowMatchesClaim(rows[r], o, s.claimedAt)
    /\ moved \/ ~ActivateAdmitted(leases[r], o, s.claimedAt)
    /\ leases' = [leases EXCEPT ![r] = IF moved THEN Released(@, o) ELSE @]
    /\ rows' = [rows EXCEPT ![r] = RowWithoutClaim(@)]
    /\ UNCHANGED <<folds, sessions>>

(* Also the driver's answer to every failed activation, when the claim may *)
(* be gone already; the caller forgets the claim in either case.           *)
AbandonClaim(o, r) ==
    LET held == RowMatchesClaim(rows[r], o, sessions[o][r].claimedAt) IN
    /\ sessions[o][r].claimedAt # None
    /\ leases' = [leases EXCEPT ![r] = IF held THEN Released(@, o) ELSE @]
    /\ rows' = [rows EXCEPT ![r] = IF held THEN RowWithoutClaim(@) ELSE @]
    /\ folds' = [folds EXCEPT ![r] = IF held THEN ReleasedBy(@, o) ELSE @]
    /\ sessions' = [sessions EXCEPT ![o][r] = NoSession]

(* An observer clears the stale claim it read off the row.                 *)
RecoverClaim(observer, r, now, ev) ==
    LET claimant == rows[r].claim
        claimedAt == rows[r].claimedAt
    IN
    /\ claimant # None
    /\ MatchesEvidence(claimant, observer, now, ev)
    /\ Stale(claimedAt, now)
    /\ RecoverGranted(leases[r], rows[r], claimant, claimedAt, now)
    /\ leases' = [leases EXCEPT ![r] = WithoutClaim(@)]
    /\ rows' = [rows EXCEPT ![r] = RowWithoutClaim(@)]
    /\ folds' = [folds EXCEPT ![r] = ClaimExpired(@, claimant)]
    /\ UNCHANGED sessions

(* The strategy renews the lease; the row mirrors the stamp it recorded,   *)
(* if the row is still the caller's.                                       *)
Heartbeat(o, r, now) ==
    LET renewed == Renewed(leases[r], now)
        owned == rows[r].status = "running" /\ rows[r].owner = o
    IN
    /\ Guard(leases[r], o)
    /\ leases' = [leases EXCEPT ![r] = renewed]
    /\ rows' = [rows EXCEPT ![r].heartbeatAt =
                   IF owned THEN Later(@, renewed.heartbeatAt) ELSE @]
    /\ UNCHANGED <<folds, sessions>>

(* TransitionGuard.cancelRequested: "absent", "present", or no guard.      *)
GuardBlocked(row, guard) ==
    \/ guard = "absent" /\ row.cancelRequested
    \/ guard = "present" /\ ~row.cancelRequested

OwnsRow(o, r) ==
    /\ Guard(leases[r], o)
    /\ rows[r].status = "running" /\ rows[r].owner = o

TransitionOwned(o, r, to, guard) ==
    /\ OwnsRow(o, r)
    /\ ~GuardBlocked(rows[r], guard)
    /\ rows' = [rows EXCEPT ![r] = IF to = "running" THEN @ ELSE RowSettled(@, to)]
    /\ leases' = [leases EXCEPT ![r] = IF to = "running" THEN @ ELSE Released(@, o)]
    /\ folds' = [folds EXCEPT ![r] =
                    IF to = "running" THEN Transitioned(@, to)
                    ELSE ReleasedBy(Transitioned(@, to), o)]
    /\ UNCHANGED sessions

---------------------------------------------------------------------------
(* DurableEngineState.park and wake: the waiting payload of the same row.  *)
(* park is fenced by the row's owner and by the append's own guard; wake   *)
(* is not fenced.                                                          *)
Park(o, r, reason) ==
    /\ rows[r].owner = o
    /\ Guard(leases[r], o)
    /\ rows' = [rows EXCEPT ![r].waiting = reason]
    /\ folds' = [folds EXCEPT ![r] = WaitingSet(@, reason)]
    /\ UNCHANGED <<leases, sessions>>

Wake(r) ==
    /\ rows[r].waiting # None
    /\ rows' = [rows EXCEPT ![r].waiting = None]
    /\ folds' = [folds EXCEPT ![r] = WaitingSet(@, None)]
    /\ UNCHANGED <<leases, sessions>>

(* Fold.snapshot, run by the compaction driver: an entry that stands for   *)
(* the whole history of the run, read from the row in the same transaction.*)
TakeSnapshot(r) ==
    /\ Exists(r)
    /\ folds' = [folds EXCEPT ![r] = FoldOf(rows[r])]
    /\ UNCHANGED <<rows, leases, sessions>>

---------------------------------------------------------------------------
(* Mutant: a process vouches for its own death and steals from itself.     *)
EvidenceByAnyone(o) == LivenessEvidence

(* A probe is run on another process's identity.                           *)
EvidenceBy(o) == {ev \in LivenessEvidence : ev.expectedOwner # o}

StealSome(o, r) == \E now \in Times, ev \in EvidenceBy(o) : Steal(o, r, now, ev)

ClaimAndOwnSome(o, r) ==
    \E now \in Times, ev \in EvidenceBy(o) : ClaimAndOwn(o, r, now, ev)

RecoverClaimSome(o, r) ==
    \E now \in Times, ev \in EvidenceBy(o) : RecoverClaim(o, r, now, ev)

TransitionOwnedSome(o, r) ==
    \E to \in Statuses, guard \in {"absent", "present", "none"} :
        TransitionOwned(o, r, to, guard)

Next ==
    \E r \in Runs :
        \/ Create(r)
        \/ RequestCancel(r)
        \/ Wake(r)
        \/ TakeSnapshot(r)
        \/ \E o \in Owners :
            \/ Get(o, r)
            \/ \E now \in Times : Claim(o, r, now)
            \/ StealSome(o, r)
            \/ ClaimAndOwnSome(o, r)
            \/ \E now \in Times : ActivateSucceeds(o, r, now)
            \/ ActivateRefused(o, r)
            \/ AbandonClaim(o, r)
            \/ RecoverClaimSome(o, r)
            \/ \E now \in Times : Heartbeat(o, r, now)
            \/ TransitionOwnedSome(o, r)
            \/ \E reason \in Reasons : Park(o, r, reason)

Spec == Init /\ [][Next]_vars

---------------------------------------------------------------------------
TypeOK ==
    /\ rows \in [Runs -> Row]
    /\ leases \in [Runs -> Lease]
    /\ folds \in [Runs -> FoldRow]
    /\ sessions \in [Owners -> [Runs -> Session]]

(* A run is running exactly while its lease has an owner, and then the row *)
(* and the lease name the same owner and the same last heartbeat, whatever *)
(* interleaving of claims, steals, late pulses and transitions led there.  *)
OwnerMirrored ==
    \A r \in Runs :
        /\ rows[r].owner = leases[r].owner
        /\ rows[r].heartbeatAt = leases[r].heartbeatAt
        /\ rows[r].status = "running" <=> leases[r].owner # None

(* A claim a row shows is a claim the strategy holds, with the same        *)
(* generation: activation can never be refused for a claim the row shows   *)
(* but the strategy lost.                                                  *)
RowClaimBacked ==
    \A r \in Runs : rows[r].claim # None =>
        /\ leases[r].claim = rows[r].claim
        /\ leases[r].claimedAt = rows[r].claimedAt

(* While a run is running, a claim the strategy holds is shown by the row: *)
(* the re-grant of one's own stale lease in claimAndOwn is never rejected  *)
(* after the release it starts with, which would leave a running row       *)
(* without a lease.                                                        *)
RunningClaimShown ==
    \A r \in Runs : rows[r].status = "running" => rows[r].claim = leases[r].claim

(* Replaying the journal yields the row's lifecycle, ownership, pending    *)
(* cancellation and waiting payload: none of those columns is written      *)
(* without the entry that describes it, and no entry describes a write     *)
(* that did not happen.                                                    *)
FoldRebuildsRow ==
    \A r \in Runs :
        /\ folds[r].status = rows[r].status
        /\ folds[r].owner = rows[r].owner
        /\ folds[r].cancelRequested = rows[r].cancelRequested
        /\ folds[r].waiting = rows[r].waiting
        /\ rows[r].claim # None =>
              /\ folds[r].claim = rows[r].claim
              /\ folds[r].claimedAt = rows[r].claimedAt

DisplacedStale(r) ==
    (leases[r].owner # None /\ leases'[r].owner \notin {None, leases[r].owner})
    => Stale(leases[r].heartbeatAt,
             IF leases[r].claim = None THEN leases'[r].heartbeatAt
                                       ELSE leases[r].claimedAt)

DisplacedStaleStep == \A r \in Runs : DisplacedStale(r)

(* An owner is displaced by another only if its heartbeat was already      *)
(* stale when the displacing claim was granted, and it has not renewed it  *)
(* since: a pulse that lands between the steal and the activation keeps    *)
(* the run with its owner.                                                 *)
DisplacedOnlyWhenStale == [][DisplacedStaleStep]_vars

StaysSettled(r) ==
    rows[r].status \in Terminal =>
        /\ rows'[r].status = rows[r].status
        /\ rows'[r].owner = None /\ rows'[r].claim = None

StaysSettledStep == \A r \in Runs : StaysSettled(r)

(* A settled run stays settled, with no owner and no claim on its row: a   *)
(* claim granted before the run completed can not bring it back.           *)
TerminalForever == [][StaysSettledStep]_vars

---------------------------------------------------------------------------
(* The strengthening under which the properties above are inductive.       *)

(* The columns of a lease are set and cleared in pairs.                    *)
LeaseWellFormed ==
    \A r \in Runs :
        /\ leases[r].owner = None <=> leases[r].heartbeatAt = None
        /\ leases[r].claim = None <=> leases[r].claimedAt = None

(* No process has a claim pending on a run it owns.  release clears the    *)
(* claim and the ownership of its caller, so giving up such a claim would  *)
(* give up the run under its row.                                          *)
NoSelfClaim ==
    \A r \in Runs : leases[r].claim # None => leases[r].claim # leases[r].owner

TerminalUnclaimed ==
    \A r \in Runs :
        rows[r].status \in Terminal \cup {"absent"} => ClaimColumnsFree(rows[r])

(* A claim taken on a running run was granted over a stale heartbeat.      *)
StolenWasStale ==
    \A o \in Owners, r \in Runs :
        LET s == sessions[o][r] IN
        (s.claimedAt # None /\ s.expected.status = "running")
        => s.expected.heartbeatAt # None /\ Stale(s.expected.heartbeatAt, s.claimedAt)

(* What the two tables and the processes' memory satisfy, whatever is in   *)
(* the journal: inductive by itself, also over a restored database.        *)
StoreInv ==
    /\ TypeOK
    /\ LeaseWellFormed
    /\ OwnerMirrored
    /\ RowClaimBacked
    /\ RunningClaimShown
    /\ NoSelfClaim
    /\ TerminalUnclaimed
    /\ StolenWasStale

(* The inductive invariant of the store.                                   *)
IInv == StoreInv /\ FoldRebuildsRow

---------------------------------------------------------------------------
(* The store implements RunOwnership: the phase of a run is read off its   *)
(* row, its owner off its lease, so that the two tables must move together.*)
PhaseOf(row) ==
    CASE row.status = "absent" -> "absent"
      [] row.status \in {"pending", "suspended"} -> "idle"
      [] row.status = "running" -> "running"
      [] row.status \in Terminal -> "settled"

Ownership == INSTANCE RunOwnership WITH
    phase <- [r \in Runs |-> PhaseOf(rows[r])],
    owner <- [r \in Runs |-> leases[r].owner]

(* Whatever claims, steals, late pulses and abandoned claims happen, the   *)
(* users of the store see runs that are taken, handed over, given back and *)
(* settled once, by one owner at a time.                                   *)
ImplementsOwnership == Ownership!Spec

===========================================================================
