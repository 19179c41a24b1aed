-------------------------- MODULE RunStoreProofs --------------------------
(***************************************************************************)
(* Proofs, for every set of runs, processes, hosts and clock readings, of  *)
(* the invariants and action properties of RunStore, and of the backup and *)
(* fenced restore of its database (DisasterRecovery).                      *)
(***************************************************************************)
EXTENDS DisasterRecovery, TLAPS

(* Initially there is no run, no lease and no claim.                       *)
LEMMA InitIInv == Init => IInv
  <1> SUFFICES ASSUME Init PROVE IInv
    OBVIOUS
  <1>1. TypeOK
    BY DEF Init, TypeOK, NoRow, NoLease, NoFoldRow, NoSession, SnapshotOf, Row,
           Lease, FoldRow, Session, Snapshot, Statuses
  <1>2. LeaseWellFormed /\ OwnerMirrored /\ RowClaimBacked /\ RunningClaimShown
    BY DEF Init, LeaseWellFormed, OwnerMirrored, RowClaimBacked, RunningClaimShown,
           NoRow, NoLease
  <1>3. NoSelfClaim /\ TerminalUnclaimed /\ FoldRebuildsRow
    BY DEF Init, NoSelfClaim, TerminalUnclaimed, FoldRebuildsRow, NoRow, NoLease,
           NoFoldRow, Terminal, ClaimColumnsFree
  <1>4. StolenWasStale
    BY DEF Init, StolenWasStale, NoSession
  <1> QED
    BY <1>1, <1>2, <1>3, <1>4 DEF IInv, StoreInv

---------------------------------------------------------------------------
(* What a step of the store keeps: its tables, and the journal's fold if   *)
(* the fold rebuilt the rows before it.                                    *)
Kept == StoreInv' /\ (FoldRebuildsRow => FoldRebuildsRow')

(* The part of IInv that speaks of one run, as a predicate of its three    *)
(* records, and the part that speaks of the processes' memory.  Nothing is *)
(* said of the fold where it did not rebuild the rows in the first place.  *)
GoodRun(row, lease, fold) ==
    /\ row \in Row /\ lease \in Lease /\ fold \in FoldRow
    /\ lease.owner = None <=> lease.heartbeatAt = None
    /\ lease.claim = None <=> lease.claimedAt = None
    /\ row.owner = lease.owner
    /\ row.heartbeatAt = lease.heartbeatAt
    /\ row.status = "running" <=> lease.owner # None
    /\ row.claim # None => lease.claim = row.claim /\ lease.claimedAt = row.claimedAt
    /\ row.status = "running" => row.claim = lease.claim
    /\ lease.claim # None => lease.claim # lease.owner
    /\ row.status \in Terminal \cup {"absent"} => row.claim = None /\ row.claimedAt = None
    /\ FoldRebuildsRow =>
          /\ fold.status = row.status
          /\ fold.owner = row.owner
          /\ fold.cancelRequested = row.cancelRequested
          /\ fold.waiting = row.waiting
          /\ row.claim # None => fold.claim = row.claim /\ fold.claimedAt = row.claimedAt

GoodSessions ==
    /\ sessions \in [Owners -> [Runs -> Session]]
    /\ StolenWasStale

(* StoreInv gives GoodRun of each run.                                     *)
LEMMA StoreInvGoodRun ==
  ASSUME StoreInv, NEW r \in Runs
  PROVE  GoodRun(rows[r], leases[r], folds[r])
  BY DEF StoreInv, TypeOK, LeaseWellFormed, OwnerMirrored, RowClaimBacked,
         RunningClaimShown, NoSelfClaim, TerminalUnclaimed, FoldRebuildsRow,
         GoodRun, ClaimColumnsFree

(* A step that rewrites the records of one run into a good run, and keeps  *)
(* the processes' memory good, keeps the invariant.                        *)
LEMMA OneRunStep ==
  ASSUME StoreInv, NEW r \in Runs, NEW row, NEW lease, NEW fold,
         rows' = [rows EXCEPT ![r] = row],
         leases' = [leases EXCEPT ![r] = lease],
         folds' = [folds EXCEPT ![r] = fold],
         GoodRun(row, lease, fold), GoodSessions'
  PROVE  Kept
  <1>1. TypeOK'
    BY DEF StoreInv, TypeOK, GoodRun, GoodSessions
  <1>2. \A q \in Runs : GoodRun(rows'[q], leases'[q], folds'[q])
    <2> TAKE q \in Runs
    <2>1. CASE q = r
      BY <2>1 DEF StoreInv, TypeOK
    <2>2. CASE q # r
      <3>1. rows'[q] = rows[q] /\ leases'[q] = leases[q] /\ folds'[q] = folds[q]
        BY <2>2 DEF StoreInv, TypeOK
      <3> QED
        BY <3>1, StoreInvGoodRun
    <2> QED
      BY <2>1, <2>2
  <1>3. LeaseWellFormed' /\ OwnerMirrored' /\ RowClaimBacked' /\ RunningClaimShown'
    BY <1>2 DEF GoodRun, LeaseWellFormed, OwnerMirrored, RowClaimBacked, RunningClaimShown
  <1>4. NoSelfClaim' /\ TerminalUnclaimed'
    BY <1>2 DEF GoodRun, NoSelfClaim, TerminalUnclaimed, ClaimColumnsFree
  <1>5. ASSUME FoldRebuildsRow PROVE FoldRebuildsRow'
    <2>1. \A q \in Runs :
            /\ folds'[q].status = rows'[q].status
            /\ folds'[q].owner = rows'[q].owner
            /\ folds'[q].cancelRequested = rows'[q].cancelRequested
            /\ folds'[q].waiting = rows'[q].waiting
            /\ rows'[q].claim # None => /\ folds'[q].claim = rows'[q].claim
                                        /\ folds'[q].claimedAt = rows'[q].claimedAt
      BY <1>2, <1>5 DEF GoodRun
    <2> QED
      BY <2>1 DEF FoldRebuildsRow
  <1> QED
    BY <1>1, <1>3, <1>4, <1>5 DEF Kept, StoreInv, GoodSessions

(* What a step does to the memory of one process about one run.            *)
LEMMA SameSessions == ASSUME StoreInv, UNCHANGED sessions PROVE GoodSessions'
  BY DEF StoreInv, TypeOK, GoodSessions, StolenWasStale

(* A process remembers something new about a run.                          *)
LEMMA OneSession ==
  ASSUME StoreInv, NEW o \in Owners, NEW r \in Runs, NEW s \in Session,
         sessions' = [sessions EXCEPT ![o][r] = s],
         (s.claimedAt # None /\ s.expected.status = "running")
           => s.expected.heartbeatAt # None /\ Stale(s.expected.heartbeatAt, s.claimedAt)
  PROVE  GoodSessions'
  <1>1. sessions' \in [Owners -> [Runs -> Session]]
    BY DEF StoreInv, TypeOK
  <1>2. ASSUME NEW p \in Owners, NEW q \in Runs
        PROVE  sessions'[p][q] = IF p = o /\ q = r THEN s ELSE sessions[p][q]
    BY <1>2 DEF StoreInv, TypeOK
  <1>3. StolenWasStale'
    BY <1>2 DEF StoreInv, StolenWasStale
  <1> QED
    BY <1>1, <1>3 DEF GoodSessions

(* A process forgets what it remembers of a run.                           *)
LEMMA ForgetSession ==
  ASSUME StoreInv, NEW o \in Owners, NEW r \in Runs,
         sessions' = [sessions EXCEPT ![o][r] = NoSession]
  PROVE  GoodSessions'
  <1>1. NoSession \in Session /\ NoSession.claimedAt = None
    BY DEF NoSession, Session, Snapshot, SnapshotOf, NoRow, Statuses
  <1> QED
    BY <1>1, OneSession

---------------------------------------------------------------------------
(* One lemma per operation of the store.                                   *)

(* create keeps the invariant.                                             *)
LEMMA CreateStep == ASSUME StoreInv, NEW r \in Runs, Create(r) PROVE Kept
  <1> DEFINE row == [NoRow EXCEPT !.status = "pending"]
             fold == Created(folds[r])
  <1>1. GoodRun(rows[r], leases[r], folds[r])
    BY StoreInvGoodRun
  <1>2. GoodRun(row, leases[r], fold)
    BY <1>1 DEF GoodRun, Create, Exists, Created, NoRow, NoFoldRow, Row, FoldRow, Lease,
                Statuses, Terminal
  <1>3. leases' = [leases EXCEPT ![r] = leases[r]]
    BY DEF Create, StoreInv, TypeOK
  <1>4. GoodSessions'
    BY SameSessions DEF Create
  <1> QED
    BY <1>2, <1>3, <1>4, OneRunStep DEF Create

(* get keeps the invariant.                                                *)
LEMMA GetStep ==
  ASSUME StoreInv, NEW o \in Owners, NEW r \in Runs, Get(o, r) PROVE Kept
  <1> DEFINE s == [sessions[o][r] EXCEPT !.expected = SnapshotOf(rows[r])]
  <1>1. GoodRun(rows[r], leases[r], folds[r])
    BY StoreInvGoodRun
  <1>2. sessions' = [sessions EXCEPT ![o][r] = s]
    BY DEF Get
  <1>3. s \in Session /\ s.claimedAt = None
    <2>1. SnapshotOf(rows[r]) \in Snapshot
      BY <1>1 DEF GoodRun, Row, Snapshot, SnapshotOf
    <2>2. sessions[o][r] \in Session /\ sessions[o][r].claimedAt = None
      BY DEF Get, StoreInv, TypeOK
    <2> QED
      BY <2>1, <2>2 DEF Session
  <1>4. GoodSessions'
    BY <1>2, <1>3, OneSession
  <1> QED
    BY <1>4 DEF Get, Kept, StoreInv, GoodSessions, TypeOK, LeaseWellFormed, OwnerMirrored,
                RowClaimBacked, RunningClaimShown, NoSelfClaim, TerminalUnclaimed,
                FoldRebuildsRow

(* requestCancel keeps the invariant.                                      *)
LEMMA RequestCancelStep == ASSUME StoreInv, NEW r \in Runs, RequestCancel(r) PROVE Kept
  <1> DEFINE row == [rows[r] EXCEPT !.cancelRequested = TRUE]
             fold == CancelRequested(folds[r])
  <1>1. GoodRun(rows[r], leases[r], folds[r])
    BY StoreInvGoodRun
  <1>2. GoodRun(row, leases[r], fold)
    <2>1. /\ row \in Row /\ row.cancelRequested = TRUE
          /\ row.status = rows[r].status /\ row.waiting = rows[r].waiting
          /\ row.owner = rows[r].owner /\ row.heartbeatAt = rows[r].heartbeatAt
          /\ row.claim = rows[r].claim /\ row.claimedAt = rows[r].claimedAt
      BY <1>1 DEF GoodRun, Row
    <2>2. /\ fold \in FoldRow /\ fold.cancelRequested = TRUE
          /\ fold.status = folds[r].status /\ fold.waiting = folds[r].waiting
          /\ fold.owner = folds[r].owner
          /\ fold.claim = folds[r].claim /\ fold.claimedAt = folds[r].claimedAt
      BY <1>1 DEF GoodRun, FoldRow, CancelRequested
    <2> HIDE DEF row, fold
    <2> QED
      BY <1>1, <2>1, <2>2 DEF GoodRun
  <1>3. leases' = [leases EXCEPT ![r] = leases[r]] /\ rows' = [rows EXCEPT ![r] = row]
    BY DEF RequestCancel, StoreInv, TypeOK
  <1>4. GoodSessions'
    BY SameSessions DEF RequestCancel
  <1> QED
    BY <1>2, <1>3, <1>4, OneRunStep DEF RequestCancel

(* DurableEngineState.wake keeps the invariant.                            *)
LEMMA WakeStep == ASSUME StoreInv, NEW r \in Runs, Wake(r) PROVE Kept
  <1> DEFINE row == [rows[r] EXCEPT !.waiting = None]
             fold == WaitingSet(folds[r], None)
  <1>1. GoodRun(rows[r], leases[r], folds[r])
    BY StoreInvGoodRun
  <1>2. GoodRun(row, leases[r], fold)
    BY <1>1 DEF GoodRun, WaitingSet, Row, FoldRow
  <1>3. leases' = [leases EXCEPT ![r] = leases[r]] /\ rows' = [rows EXCEPT ![r] = row]
    BY DEF Wake, StoreInv, TypeOK
  <1>4. GoodSessions'
    BY SameSessions DEF Wake
  <1> QED
    BY <1>2, <1>3, <1>4, OneRunStep DEF Wake

(* Fold.snapshot keeps the invariant.                                      *)
LEMMA TakeSnapshotStep == ASSUME StoreInv, NEW r \in Runs, TakeSnapshot(r) PROVE Kept
  <1>1. GoodRun(rows[r], leases[r], folds[r])
    BY StoreInvGoodRun
  <1>2. GoodRun(rows[r], leases[r], FoldOf(rows[r]))
    BY <1>1 DEF GoodRun, FoldOf, TakeSnapshot, Row, FoldRow
  <1>3. leases' = [leases EXCEPT ![r] = leases[r]] /\ rows' = [rows EXCEPT ![r] = rows[r]]
    BY DEF TakeSnapshot, StoreInv, TypeOK
  <1>4. GoodSessions'
    BY SameSessions DEF TakeSnapshot
  <1> QED
    BY <1>2, <1>3, <1>4, OneRunStep DEF TakeSnapshot

(* DurableEngineState.park keeps the invariant.                            *)
LEMMA ParkStep ==
  ASSUME StoreInv, NEW o \in Owners, NEW r \in Runs, NEW reason \in Reasons, Park(o, r, reason)
  PROVE  Kept
  <1> DEFINE row == [rows[r] EXCEPT !.waiting = reason]
             fold == WaitingSet(folds[r], reason)
  <1>1. GoodRun(rows[r], leases[r], folds[r])
    BY StoreInvGoodRun
  <1>2. GoodRun(row, leases[r], fold)
    BY <1>1 DEF GoodRun, WaitingSet, Row, FoldRow
  <1>3. leases' = [leases EXCEPT ![r] = leases[r]] /\ rows' = [rows EXCEPT ![r] = row]
    BY DEF Park, StoreInv, TypeOK
  <1>4. GoodSessions'
    BY SameSessions DEF Park
  <1> QED
    BY <1>2, <1>3, <1>4, OneRunStep DEF Park

(* A claim by a process that does not own the run, on a run whose claim    *)
(* columns are free, keeps the run good.  Shared by claim and steal.       *)
LEMMA GoodClaim ==
  ASSUME NEW row, NEW lease, NEW fold, GoodRun(row, lease, fold),
         NEW o \in Owners, NEW now \in Times,
         row.status \notin Terminal \cup {"absent"}, lease.owner # o
  PROVE  GoodRun(RowWithClaim(row, o, now), WithClaim(lease, o, now), ClaimedBy(fold, o, now))
  BY OwnersAssumption, TimesAssumption, ZenonT(60)
  DEF GoodRun, RowWithClaim, WithClaim, ClaimedBy, Row, Lease, FoldRow

(* claim keeps the invariant.                                              *)
LEMMA ClaimStep ==
  ASSUME StoreInv, NEW o \in Owners, NEW r \in Runs, NEW now \in Times, Claim(o, r, now)
  PROVE  Kept
  <1> DEFINE s == [sessions[o][r] EXCEPT !.claimedAt = now]
  <1>1. GoodRun(rows[r], leases[r], folds[r])
    BY StoreInvGoodRun
  <1>2. rows[r].status \notin Terminal \cup {"absent"} /\ leases[r].owner # o
    BY OwnersAssumption DEF Claim, ClaimGranted, Terminal
  <1>3. sessions' = [sessions EXCEPT ![o][r] = s]
    BY DEF Claim
  <1>4. s \in Session /\ s.expected.status # "running"
    BY DEF Claim, SnapshotMatchesRow, SnapshotOf, StoreInv, TypeOK, Session
  <1>5. GoodSessions'
    BY <1>3, <1>4, OneSession
  <1> QED
    BY <1>1, <1>2, <1>5, GoodClaim, OneRunStep DEF Claim

(* steal keeps the invariant.                                              *)
LEMMA StealStep ==
  ASSUME StoreInv, NEW o \in Owners, NEW r \in Runs, NEW now \in Times,
         NEW ev \in EvidenceBy(o), Steal(o, r, now, ev)
  PROVE  Kept
  <1> DEFINE s == [sessions[o][r] EXCEPT !.claimedAt = now]
  <1>1. GoodRun(rows[r], leases[r], folds[r])
    BY StoreInvGoodRun
  <1>2. /\ rows[r].status = "running" /\ rows[r].owner # o
        /\ rows[r].heartbeatAt = s.expected.heartbeatAt
        /\ Stale(rows[r].heartbeatAt, now)
    BY DEF Steal, EvidenceBy, EvidenceMatches, MatchesEvidence, SnapshotMatchesRow, SnapshotOf,
           StoreInv, TypeOK, Session
  <1>3. /\ rows[r].status \notin Terminal \cup {"absent"}
        /\ leases[r].owner # o /\ rows[r].heartbeatAt # None
    BY <1>1, <1>2 DEF GoodRun, Terminal
  <1>4. sessions' = [sessions EXCEPT ![o][r] = s]
    BY DEF Steal
  <1>5. s \in Session /\ s.claimedAt = now
    BY DEF StoreInv, TypeOK, Session
  <1>6. GoodSessions'
    BY <1>2, <1>3, <1>4, <1>5, OneSession
  <1> QED
    BY <1>1, <1>3, <1>6, GoodClaim, OneRunStep DEF Steal

(* claimAndOwn keeps the invariant.                                        *)
LEMMA ClaimAndOwnStep ==
  ASSUME StoreInv, NEW o \in Owners, NEW r \in Runs, NEW now \in Times,
         NEW ev \in EvidenceBy(o), ClaimAndOwn(o, r, now, ev)
  PROVE  Kept
  <1> DEFINE row == RowRunning(rows[r], o, now)
             lease == Activated(o, now)
             fold == Transitioned(ActivatedBy(ClaimedBy(folds[r], o, now), o), "running")
  <1>1. GoodRun(rows[r], leases[r], folds[r])
    BY StoreInvGoodRun
  <1>2. rows[r].claim = None /\ rows[r].claimedAt = None
    BY DEF ClaimAndOwn, ClaimColumnsFree
  <1>3. GoodRun(row, lease, fold)
    BY <1>1, <1>2, OwnersAssumption, TimesAssumption
    DEF GoodRun, RowRunning, Activated, Transitioned, ActivatedBy, ClaimedBy, Row, Lease,
        FoldRow, Statuses, Terminal
  <1>4. GoodSessions'
    BY ForgetSession DEF ClaimAndOwn
  <1> QED
    BY <1>3, <1>4, OneRunStep DEF ClaimAndOwn

(* activate, when it succeeds, keeps the invariant.                        *)
LEMMA ActivateSucceedsStep ==
  ASSUME StoreInv, NEW o \in Owners, NEW r \in Runs, NEW now \in Times, ActivateSucceeds(o, r, now)
  PROVE  Kept
  <1> DEFINE row == RowRunning(RowWithoutClaim(rows[r]), o, now)
             lease == Activated(o, now)
             fold == Transitioned(ActivatedBy(folds[r], o), "running")
  <1>1. GoodRun(rows[r], leases[r], folds[r])
    BY StoreInvGoodRun
  <1>2. GoodRun(row, lease, fold)
    BY <1>1, OwnersAssumption, TimesAssumption, ZenonT(60)
    DEF GoodRun, RowRunning, RowWithoutClaim, Activated, Transitioned, ActivatedBy, Row, Lease,
        FoldRow, Statuses, Terminal
  <1>3. GoodSessions'
    BY ForgetSession DEF ActivateSucceeds
  <1> QED
    BY <1>2, <1>3, OneRunStep DEF ActivateSucceeds

(* Giving up a claim the row still shows releases nothing but that claim,  *)
(* because its claimant does not own the run.                              *)
LEMMA GoodRelease ==
  ASSUME NEW row, NEW lease, NEW fold, GoodRun(row, lease, fold),
         NEW o \in Owners, row.claim = o
  PROVE  /\ GoodRun(RowWithoutClaim(row), Released(lease, o), fold)
         /\ GoodRun(RowWithoutClaim(row), Released(lease, o), ReleasedBy(fold, o))
  <1>1. lease.claim = o /\ lease.owner # o /\ (FoldRebuildsRow => fold.owner # o)
    BY OwnersAssumption DEF GoodRun
  <1> DEFINE row2 == RowWithoutClaim(row)
             lease2 == Released(lease, o)
             fold2 == ReleasedBy(fold, o)
  <1>2. /\ row2 \in Row /\ row2.claim = None /\ row2.claimedAt = None
        /\ row2.status = row.status /\ row2.waiting = row.waiting
        /\ row2.cancelRequested = row.cancelRequested
        /\ row2.owner = row.owner /\ row2.heartbeatAt = row.heartbeatAt
    BY DEF GoodRun, Row, RowWithoutClaim
  <1>3. /\ lease2 \in Lease /\ lease2.claim = None /\ lease2.claimedAt = None
        /\ lease2.owner = lease.owner /\ lease2.heartbeatAt = lease.heartbeatAt
    BY <1>1 DEF GoodRun, Lease, Released
  <1>4. /\ fold2 \in FoldRow
        /\ fold2.status = fold.status /\ fold2.waiting = fold.waiting
        /\ fold2.cancelRequested = fold.cancelRequested
        /\ FoldRebuildsRow => fold2.owner = fold.owner
    BY <1>1, ZenonT(60) DEF GoodRun, FoldRow, ReleasedBy, ClaimExpired
  <1> HIDE DEF row2, lease2, fold2
  <1>5. GoodRun(row2, lease2, fold)
    BY <1>2, <1>3 DEF GoodRun
  <1>6. GoodRun(row2, lease2, fold2)
    BY <1>2, <1>3, <1>4 DEF GoodRun
  <1> QED
    BY <1>5, <1>6 DEF row2, lease2, fold2

(* activate, when it is refused, keeps the invariant.                      *)
LEMMA ActivateRefusedStep ==
  ASSUME StoreInv, NEW o \in Owners, NEW r \in Runs, ActivateRefused(o, r) PROVE Kept
  <1>1. GoodRun(rows[r], leases[r], folds[r])
    BY StoreInvGoodRun
  <1>2. rows[r].claim = o /\ leases[r].claim = o
        /\ leases[r].claimedAt = sessions[o][r].claimedAt
    BY <1>1, OwnersAssumption DEF ActivateRefused, RowMatchesClaim, GoodRun
  <1>3. ~SnapshotMatchesRow(rows[r], sessions[o][r].expected)
    BY <1>2 DEF ActivateRefused, ActivateAdmitted
  <1>4. leases' = [leases EXCEPT ![r] = Released(leases[r], o)]
    BY <1>3 DEF ActivateRefused
  <1>5. folds' = [folds EXCEPT ![r] = folds[r]]
        /\ rows' = [rows EXCEPT ![r] = RowWithoutClaim(rows[r])]
    BY DEF ActivateRefused, StoreInv, TypeOK
  <1>6. GoodSessions'
    BY SameSessions DEF ActivateRefused
  <1> QED
    BY <1>1, <1>2, <1>4, <1>5, <1>6, GoodRelease, OneRunStep

(* abandonClaim keeps the invariant.                                       *)
LEMMA AbandonClaimStep ==
  ASSUME StoreInv, NEW o \in Owners, NEW r \in Runs, AbandonClaim(o, r) PROVE Kept
  <1>1. GoodRun(rows[r], leases[r], folds[r])
    BY StoreInvGoodRun
  <1>2. GoodSessions'
    BY ForgetSession DEF AbandonClaim
  <1>3. CASE RowMatchesClaim(rows[r], o, sessions[o][r].claimedAt)
    <2>1. /\ rows' = [rows EXCEPT ![r] = RowWithoutClaim(rows[r])]
          /\ leases' = [leases EXCEPT ![r] = Released(leases[r], o)]
          /\ folds' = [folds EXCEPT ![r] = ReleasedBy(folds[r], o)]
      BY <1>3 DEF AbandonClaim
    <2>2. rows[r].claim = o
      BY <1>3 DEF RowMatchesClaim
    <2> QED
      BY <1>1, <1>2, <2>1, <2>2, GoodRelease, OneRunStep
  <1>4. CASE ~RowMatchesClaim(rows[r], o, sessions[o][r].claimedAt)
    <2>1. /\ rows' = [rows EXCEPT ![r] = rows[r]]
          /\ leases' = [leases EXCEPT ![r] = leases[r]]
          /\ folds' = [folds EXCEPT ![r] = folds[r]]
      BY <1>4 DEF AbandonClaim
    <2> QED
      BY <1>1, <1>2, <2>1, OneRunStep
  <1> QED
    BY <1>3, <1>4

(* recoverClaim keeps the invariant.                                       *)
LEMMA RecoverClaimStep ==
  ASSUME StoreInv, NEW o \in Owners, NEW r \in Runs, NEW now \in Times,
         NEW ev \in EvidenceBy(o), RecoverClaim(o, r, now, ev)
  PROVE  Kept
  <1> DEFINE row == RowWithoutClaim(rows[r])
             lease == WithoutClaim(leases[r])
             fold == ClaimExpired(folds[r], rows[r].claim)
  <1>1. GoodRun(rows[r], leases[r], folds[r])
    BY StoreInvGoodRun
  <1>2. GoodRun(row, lease, fold)
    <2>1. /\ row \in Row /\ row.claim = None /\ row.claimedAt = None
          /\ row.status = rows[r].status /\ row.waiting = rows[r].waiting
          /\ row.cancelRequested = rows[r].cancelRequested
          /\ row.owner = rows[r].owner /\ row.heartbeatAt = rows[r].heartbeatAt
      BY <1>1 DEF GoodRun, Row, RowWithoutClaim
    <2>2. /\ lease \in Lease /\ lease.claim = None /\ lease.claimedAt = None
          /\ lease.owner = leases[r].owner /\ lease.heartbeatAt = leases[r].heartbeatAt
      BY <1>1 DEF GoodRun, Lease, WithoutClaim
    <2>3. /\ fold \in FoldRow
          /\ fold.status = folds[r].status /\ fold.waiting = folds[r].waiting
          /\ fold.cancelRequested = folds[r].cancelRequested
          /\ fold.owner = folds[r].owner
      BY <1>1 DEF GoodRun, FoldRow, ClaimExpired
    <2> HIDE DEF row, lease, fold
    <2> QED
      BY <1>1, <2>1, <2>2, <2>3 DEF GoodRun
  <1>3. GoodSessions'
    BY SameSessions DEF RecoverClaim
  <1> QED
    BY <1>2, <1>3, OneRunStep DEF RecoverClaim

(* heartbeat keeps the invariant.                                          *)
LEMMA HeartbeatStep ==
  ASSUME StoreInv, NEW o \in Owners, NEW r \in Runs, NEW now \in Times, Heartbeat(o, r, now)
  PROVE  Kept
  <1> DEFINE lease == Renewed(leases[r], now)
             row == [rows[r] EXCEPT !.heartbeatAt = lease.heartbeatAt]
  <1>1. GoodRun(rows[r], leases[r], folds[r])
    BY StoreInvGoodRun
  <1>2. /\ leases[r].owner = o /\ rows[r].status = "running" /\ rows[r].owner = o
        /\ leases[r].heartbeatAt \in Times /\ rows[r].heartbeatAt = leases[r].heartbeatAt
    BY <1>1, OwnersAssumption DEF Heartbeat, Guard, GoodRun, Lease
  <1>3. /\ lease.heartbeatAt \in Times
        /\ Later(rows[r].heartbeatAt, lease.heartbeatAt) = lease.heartbeatAt
    BY <1>1, <1>2, TimesAssumption DEF Renewed, Later, GoodRun, Lease
  <1>4. GoodRun(row, lease, folds[r])
    BY <1>1, <1>2, <1>3, TimesAssumption DEF GoodRun, Renewed, Row, Lease
  <1>5. /\ rows' = [rows EXCEPT ![r] = row]
        /\ leases' = [leases EXCEPT ![r] = lease]
        /\ folds' = [folds EXCEPT ![r] = folds[r]]
    BY <1>2, <1>3 DEF Heartbeat, StoreInv, TypeOK
  <1>6. GoodSessions'
    BY SameSessions DEF Heartbeat
  <1> QED
    BY <1>4, <1>5, <1>6, OneRunStep

(* transitionOwned keeps the invariant.                                    *)
LEMMA TransitionOwnedStep ==
  ASSUME StoreInv, NEW o \in Owners, NEW r \in Runs, NEW to \in Statuses, NEW guard,
         TransitionOwned(o, r, to, guard)
  PROVE  Kept
  <1>1. GoodRun(rows[r], leases[r], folds[r])
    BY StoreInvGoodRun
  <1>2. leases[r].owner = o /\ rows[r].status = "running"
    BY DEF TransitionOwned, OwnsRow, Guard
  <1>3. GoodSessions'
    BY SameSessions DEF TransitionOwned
  <1>4. CASE to = "running"
    <2>1. /\ rows' = [rows EXCEPT ![r] = rows[r]]
          /\ leases' = [leases EXCEPT ![r] = leases[r]]
          /\ folds' = [folds EXCEPT ![r] = Transitioned(folds[r], "running")]
      BY <1>4 DEF TransitionOwned
    <2>2. GoodRun(rows[r], leases[r], Transitioned(folds[r], "running"))
      BY <1>1, <1>2 DEF GoodRun, Transitioned, FoldRow, Statuses
    <2> QED
      BY <1>3, <2>1, <2>2, OneRunStep
  <1>5. CASE to # "running"
    <2> DEFINE row == RowSettled(rows[r], to)
               lease == Released(leases[r], o)
               fold == ReleasedBy(Transitioned(folds[r], to), o)
    <2>1. /\ rows' = [rows EXCEPT ![r] = row]
          /\ leases' = [leases EXCEPT ![r] = lease]
          /\ folds' = [folds EXCEPT ![r] = fold]
      BY <1>5 DEF TransitionOwned
    <2>2. /\ lease \in Lease /\ lease.owner = None /\ lease.heartbeatAt = None
          /\ lease.claim = None <=> lease.claimedAt = None
      BY <1>1, <1>2 DEF GoodRun, Released, Lease
    <2>3. fold = Transitioned(folds[r], to)
      BY <1>1, <1>5, OwnersAssumption DEF GoodRun, ReleasedBy, ClaimExpired, Transitioned, FoldRow
    <2>4. GoodRun(row, lease, fold)
      <3>1. /\ row \in Row /\ row.claim = None /\ row.claimedAt = None
            /\ row.owner = None /\ row.heartbeatAt = None /\ row.status = to
            /\ row.cancelRequested = rows[r].cancelRequested
            /\ row.waiting = rows[r].waiting
        BY <1>1 DEF GoodRun, Row, RowSettled
      <3>2. /\ fold \in FoldRow /\ fold.owner = None /\ fold.status = to
            /\ fold.cancelRequested = folds[r].cancelRequested
            /\ fold.waiting = folds[r].waiting
        BY <1>1, <1>5, <2>3, ZenonT(60) DEF GoodRun, FoldRow, Transitioned
      <3>3. lease.claim # None => lease.claim # lease.owner
        BY <2>2
      <3> HIDE DEF row, lease, fold
      <3> QED
        BY <1>1, <1>5, <2>2, <3>1, <3>2, <3>3 DEF GoodRun
    <2> QED
      BY <1>3, <2>1, <2>4, OneRunStep
  <1> QED
    BY <1>4, <1>5

---------------------------------------------------------------------------
(* Every step of the store, by any number of processes in any order,       *)
(* preserves the inductive invariant.                                      *)
LEMMA NextKept == StoreInv /\ [Next]_vars => Kept
  <1> SUFFICES ASSUME StoreInv, [Next]_vars PROVE Kept
    OBVIOUS
  <1>1. CASE UNCHANGED vars
    BY <1>1 DEF vars, Kept, StoreInv, TypeOK, LeaseWellFormed, OwnerMirrored, RowClaimBacked,
                RunningClaimShown, NoSelfClaim, TerminalUnclaimed, FoldRebuildsRow,
                StolenWasStale
  <1>2. CASE Next
    <2>1. PICK r \in Runs :
            \/ Create(r) \/ RequestCancel(r) \/ Wake(r) \/ TakeSnapshot(r)
            \/ \E o \in Owners :
                \/ Get(o, r)
                \/ \E now \in Times : Claim(o, r, now)
                \/ StealSome(o, r)
                \/ ClaimAndOwnSome(o, r)
                \/ \E now \in Times : ActivateSucceeds(o, r, now)
                \/ ActivateRefused(o, r)
                \/ AbandonClaim(o, r)
                \/ RecoverClaimSome(o, r)
                \/ \E now \in Times : Heartbeat(o, r, now)
                \/ TransitionOwnedSome(o, r)
                \/ \E reason \in Reasons : Park(o, r, reason)
      BY <1>2 DEF Next
    <2>2. CASE Create(r) \/ RequestCancel(r) \/ Wake(r) \/ TakeSnapshot(r)
      BY <2>2, CreateStep, RequestCancelStep, WakeStep, TakeSnapshotStep
    <2>3. ASSUME NEW o \in Owners,
                 \/ Get(o, r) \/ ActivateRefused(o, r) \/ AbandonClaim(o, r)
                 \/ \E now \in Times : Claim(o, r, now)
                 \/ \E now \in Times : ActivateSucceeds(o, r, now)
                 \/ \E now \in Times : Heartbeat(o, r, now)
                 \/ \E reason \in Reasons : Park(o, r, reason)
          PROVE  Kept
      BY <2>3, GetStep, ActivateRefusedStep, AbandonClaimStep, ClaimStep,
         ActivateSucceedsStep, HeartbeatStep, ParkStep
    <2>4. ASSUME NEW o \in Owners,
                 \/ StealSome(o, r) \/ ClaimAndOwnSome(o, r)
                 \/ RecoverClaimSome(o, r) \/ TransitionOwnedSome(o, r)
          PROVE  Kept
      BY <2>4, StealStep, ClaimAndOwnStep, RecoverClaimStep, TransitionOwnedStep
      DEF StealSome, ClaimAndOwnSome, RecoverClaimSome, TransitionOwnedSome
    <2> QED
      BY <2>1, <2>2, <2>3, <2>4
  <1> QED
    BY <1>1, <1>2

(* IInv holds in every state the store can reach.                          *)
THEOREM Invariance == Spec => []IInv
  <1>1. IInv /\ [Next]_vars => IInv'
    BY NextKept DEF Kept, IInv
  <1> QED
    BY <1>1, InitIInv, PTL DEF Spec

(* So do its parts that do not speak of the journal.                       *)
LEMMA StoreInvariance == Spec => []StoreInv
  <1>1. IInv => StoreInv
    BY DEF IInv
  <1> QED
    BY <1>1, Invariance, PTL

(* The columns of the tables, of the folded rows and of the processes'     *)
(* memory always hold values of their types.                               *)
THEOREM TypeCorrect == Spec => []TypeOK
  <1>1. IInv => TypeOK
    BY DEF IInv, StoreInv
  <1> QED
    BY <1>1, Invariance, PTL

(* The flows_runs row and the lease never disagree on who owns a run or on *)
(* its last heartbeat: the fence that the journal checks and the one the   *)
(* row checks are the same.                                                *)
THEOREM OwnersAgree == Spec => []OwnerMirrored
  <1>1. IInv => OwnerMirrored
    BY DEF IInv, StoreInv
  <1> QED
    BY <1>1, Invariance, PTL

(* A claim the row shows is one the strategy holds, and while a run is     *)
(* running the converse holds too.                                         *)
THEOREM ClaimsAgree == Spec => [](RowClaimBacked /\ RunningClaimShown)
  <1>1. IInv => RowClaimBacked /\ RunningClaimShown
    BY DEF IInv, StoreInv
  <1> QED
    BY <1>1, Invariance, PTL

(* Replaying the journal of a run rebuilds its row's lifecycle, ownership, *)
(* pending cancellation and waiting payload.                               *)
THEOREM FoldCorrect == Spec => []FoldRebuildsRow
  <1>1. IInv => FoldRebuildsRow
    BY DEF IInv
  <1> QED
    BY <1>1, Invariance, PTL

---------------------------------------------------------------------------
(* The two operations that may put another owner in place of one, and the  *)
(* rest, which may only leave the owner alone or clear it.                 *)
LEMMA ActivateDisplaces ==
  ASSUME StoreInv, NEW o \in Owners, NEW r \in Runs, NEW now \in Times, ActivateSucceeds(o, r, now)
  PROVE  DisplacedStale(r)
  <1> SUFFICES ASSUME leases[r].owner # None
               PROVE  Stale(leases[r].heartbeatAt, leases[r].claimedAt) /\ leases[r].claim # None
    BY DEF DisplacedStale
  <1>1. GoodRun(rows[r], leases[r], folds[r])
    BY StoreInvGoodRun
  <1>2. /\ leases[r].claim = o /\ leases[r].claimedAt = sessions[o][r].claimedAt
        /\ sessions[o][r].claimedAt # None
        /\ SnapshotOf(rows[r]) = sessions[o][r].expected
    BY DEF ActivateSucceeds, ActivateAdmitted, SnapshotMatchesRow
  <1>3. /\ sessions[o][r].expected.status = "running"
        /\ sessions[o][r].expected.heartbeatAt = leases[r].heartbeatAt
    BY <1>1, <1>2 DEF GoodRun, SnapshotOf
  <1>4. Stale(sessions[o][r].expected.heartbeatAt, sessions[o][r].claimedAt)
    BY <1>2, <1>3 DEF StoreInv, StolenWasStale
  <1> QED
    BY <1>2, <1>3, <1>4, OwnersAssumption

(* claimAndOwn displaces an owner only by a stale heartbeat.               *)
LEMMA ClaimAndOwnDisplaces ==
  ASSUME StoreInv, NEW o \in Owners, NEW r \in Runs, NEW now \in Times,
         NEW ev \in EvidenceBy(o), ClaimAndOwn(o, r, now, ev)
  PROVE  DisplacedStale(r)
  <1> SUFFICES ASSUME leases[r].owner # None
               PROVE  /\ Stale(leases[r].heartbeatAt, now) /\ leases[r].claim = None
                      /\ leases'[r].heartbeatAt = now
    BY DEF DisplacedStale
  <1>1. GoodRun(rows[r], leases[r], folds[r])
    BY StoreInvGoodRun
  <1>2. rows[r].status = "running" /\ rows[r].heartbeatAt = leases[r].heartbeatAt
        /\ rows[r].claim = leases[r].claim
    BY <1>1 DEF GoodRun
  <1>3. Stale(rows[r].heartbeatAt, now) /\ rows[r].claim = None
    BY <1>2 DEF ClaimAndOwn, ClaimColumnsFree
  <1>4. leases'[r].heartbeatAt = now
    BY DEF ClaimAndOwn, Activated, StoreInv, TypeOK
  <1> QED
    BY <1>2, <1>3, <1>4

(* The operations on run r that leave every owner in place or clear it.    *)
KeepsOrClears(o, r) ==
    \/ Get(o, r) \/ ActivateRefused(o, r) \/ AbandonClaim(o, r)
    \/ \E now \in Times : Claim(o, r, now)
    \/ \E now \in Times : Heartbeat(o, r, now)
    \/ \E reason \in Reasons : Park(o, r, reason)
    \/ StealSome(o, r) \/ RecoverClaimSome(o, r) \/ TransitionOwnedSome(o, r)

(* The other operations leave the owner or clear it.                       *)
LEMMA KeepsOrClearsStep ==
  ASSUME StoreInv, NEW o \in Owners, NEW r \in Runs, KeepsOrClears(o, r)
  PROVE  leases'[r].owner \in {None, leases[r].owner}
  <1>1. CASE Get(o, r) \/ \E reason \in Reasons : Park(o, r, reason)
    BY <1>1 DEF Get, Park
  <1>2. CASE ActivateRefused(o, r) \/ AbandonClaim(o, r) \/ TransitionOwnedSome(o, r)
    <2>1. leases'[r] = leases[r] \/ leases'[r] = Released(leases[r], o)
      BY <1>2 DEF ActivateRefused, AbandonClaim, TransitionOwnedSome, TransitionOwned, StoreInv, TypeOK
    <2> QED
      BY <2>1 DEF Released
  <1>3. CASE \/ \E now \in Times : Claim(o, r, now)
             \/ \E now \in Times : Heartbeat(o, r, now)
             \/ StealSome(o, r) \/ RecoverClaimSome(o, r)
    <2>1. leases[r] \in Lease
      BY DEF StoreInv, TypeOK
    <2>2. \/ \E now \in Times : leases'[r] = WithClaim(leases[r], o, now)
          \/ \E now \in Times : leases'[r] = Renewed(leases[r], now)
          \/ leases'[r] = WithoutClaim(leases[r])
      BY <1>3 DEF Claim, Heartbeat, StealSome, Steal, RecoverClaimSome, RecoverClaim, StoreInv, TypeOK
    <2> QED
      BY <2>1, <2>2 DEF WithClaim, Renewed, WithoutClaim, Lease
  <1> QED
    BY <1>1, <1>2, <1>3 DEF KeepsOrClears

(* Every operation touches the lease of one run only.                      *)
LEMMA NextDisplaces == StoreInv /\ [Next]_vars => [DisplacedStaleStep]_vars
  <1> SUFFICES ASSUME StoreInv, Next, NEW q \in Runs PROVE DisplacedStale(q)
    BY DEF vars, DisplacedStaleStep
  <1>1. PICK r \in Runs :
            \/ Create(r) \/ RequestCancel(r) \/ Wake(r) \/ TakeSnapshot(r)
            \/ \E o \in Owners :
                \/ KeepsOrClears(o, r)
                \/ \E now \in Times : ActivateSucceeds(o, r, now)
                \/ ClaimAndOwnSome(o, r)
    BY SMTT(30) DEF Next, KeepsOrClears
  <1>2. q # r => leases'[q] = leases[q]
    BY <1>1 DEF Create, RequestCancel, Wake, TakeSnapshot, KeepsOrClears, ActivateSucceeds, ClaimAndOwnSome,
                ClaimAndOwn, Get, ActivateRefused, AbandonClaim, Claim, Heartbeat, Park,
                StealSome, Steal, RecoverClaimSome, RecoverClaim, TransitionOwnedSome,
                TransitionOwned, StoreInv, TypeOK
  <1>3. CASE q # r
    BY <1>2, <1>3 DEF DisplacedStale
  <1>4. CASE q = r /\ (Create(r) \/ RequestCancel(r) \/ Wake(r) \/ TakeSnapshot(r))
    BY <1>4 DEF DisplacedStale, Create, RequestCancel, Wake, TakeSnapshot
  <1>5. ASSUME q = r, NEW o \in Owners, KeepsOrClears(o, r) PROVE DisplacedStale(q)
    BY <1>5, KeepsOrClearsStep DEF DisplacedStale
  <1>6. ASSUME q = r, NEW o \in Owners, ClaimAndOwnSome(o, r) PROVE DisplacedStale(q)
    BY <1>6, ClaimAndOwnDisplaces DEF ClaimAndOwnSome
  <1>7. ASSUME q = r, NEW o \in Owners, NEW now \in Times, ActivateSucceeds(o, r, now)
        PROVE  DisplacedStale(q)
    BY <1>7, ActivateDisplaces
  <1> QED
    BY <1>1, <1>3, <1>4, <1>5, <1>6, <1>7

(* No process loses a run to another while its heartbeat is fresh, or      *)
(* after renewing it, however the two processes' calls interleave and      *)
(* whatever their clocks read.                                             *)
THEOREM DisplacementIsSafe == Spec => DisplacedOnlyWhenStale
  BY StoreInvariance, NextDisplaces, PTL DEF Spec, DisplacedOnlyWhenStale

---------------------------------------------------------------------------
(* A settled run has neither an owner nor a claim, so no operation that    *)
(* moves a status applies to it.                                           *)
LEMMA NextSettled == StoreInv /\ [Next]_vars => [StaysSettledStep]_vars
  <1> SUFFICES ASSUME StoreInv, Next, NEW q \in Runs, rows[q].status \in Terminal
               PROVE  /\ rows'[q].status = rows[q].status
                      /\ rows'[q].owner = None /\ rows'[q].claim = None
    BY DEF vars, StaysSettledStep, StaysSettled
  <1>1. /\ GoodRun(rows[q], leases[q], folds[q])
        /\ rows[q] \in Row /\ rows[q].status \notin {"absent", "pending", "running", "suspended"}
        /\ rows[q].claim = None /\ rows[q].owner = None /\ leases[q].owner = None
    BY StoreInvGoodRun DEF GoodRun, Terminal
  <1>2. PICK r \in Runs :
            \/ Create(r) \/ RequestCancel(r) \/ Wake(r) \/ TakeSnapshot(r)
            \/ \E o \in Owners :
                \/ KeepsOrClears(o, r)
                \/ \E now \in Times : ActivateSucceeds(o, r, now)
                \/ ClaimAndOwnSome(o, r)
    BY DEF Next, KeepsOrClears
  <1>3. CASE q # r
    <2>1. rows'[q] = rows[q]
      BY <1>2, <1>3 DEF Create, RequestCancel, Wake, TakeSnapshot, KeepsOrClears, ActivateSucceeds,
                ClaimAndOwnSome, ClaimAndOwn, Get, ActivateRefused, AbandonClaim, Claim,
                Heartbeat, Park, StealSome, Steal, RecoverClaimSome, RecoverClaim,
                TransitionOwnedSome, TransitionOwned, StoreInv, TypeOK
    <2> QED
      BY <1>1, <2>1, SMTT(30)
  <1>4. CASE q = r /\ (Create(r) \/ RequestCancel(r) \/ Wake(r) \/ TakeSnapshot(r))
    BY <1>1, <1>4 DEF Create, RequestCancel, Wake, TakeSnapshot, Exists, StoreInv, TypeOK, Row
  <1>5. ASSUME q = r, NEW o \in Owners, KeepsOrClears(o, r)
        PROVE  rows'[q] = rows[q]
    <2>1. /\ ~(\E now \in Times : Claim(o, r, now)) /\ ~TransitionOwnedSome(o, r)
          /\ ~ActivateRefused(o, r) /\ ~RecoverClaimSome(o, r)
      BY <1>1, <1>5, OwnersAssumption
      DEF Claim, TransitionOwnedSome, TransitionOwned, OwnsRow, ActivateRefused,
          RowMatchesClaim, RecoverClaimSome, RecoverClaim
    <2>2. /\ ~StealSome(o, r) /\ ~(\E now \in Times : Heartbeat(o, r, now))
          /\ ~(\E reason \in Reasons : Park(o, r, reason))
      BY <1>1, <1>5, OwnersAssumption
      DEF StealSome, Steal, EvidenceMatches, SnapshotMatchesRow, SnapshotOf, Heartbeat, Guard, Park
    <2>3. ~RowMatchesClaim(rows[r], o, sessions[o][r].claimedAt)
      BY <1>1, <1>5, OwnersAssumption DEF RowMatchesClaim
    <2> QED
      BY <1>5, <2>1, <2>2, <2>3 DEF KeepsOrClears, Get, AbandonClaim, StoreInv, TypeOK
  <1>6. ASSUME q = r, NEW o \in Owners
        PROVE  ~ClaimAndOwnSome(o, r) /\ ~(\E now \in Times : ActivateSucceeds(o, r, now))
    BY <1>1, <1>6, OwnersAssumption
    DEF ClaimAndOwnSome, ClaimAndOwn, ActivateSucceeds, RowMatchesClaim
  <1> QED
    BY <1>1, <1>2, <1>3, <1>4, <1>5, <1>6

(* A completed, failed or cancelled run is never claimed, owned or moved   *)
(* to another status again.                                                *)
THEOREM SettledForGood == Spec => TerminalForever
  BY StoreInvariance, NextSettled, PTL DEF Spec, TerminalForever

---------------------------------------------------------------------------
(* How the status of a row may move in one step.                           *)
StatusMoves(from, to) ==
    \/ to = from
    \/ from = "absent" /\ to = "pending"
    \/ from \in {"pending", "suspended"} /\ to = "running"
    \/ from = "running" /\ to \in Statuses

(* The operations that leave the status of the row alone.                  *)
LEMMA StatusKept ==
  ASSUME StoreInv, NEW r \in Runs, NEW o \in Owners,
         \/ RequestCancel(r) \/ Wake(r) \/ TakeSnapshot(r)
         \/ Get(o, r) \/ ActivateRefused(o, r) \/ AbandonClaim(o, r)
         \/ \E now \in Times : Claim(o, r, now)
         \/ \E now \in Times : Heartbeat(o, r, now)
         \/ \E reason \in Reasons : Park(o, r, reason)
         \/ StealSome(o, r) \/ RecoverClaimSome(o, r)
  PROVE  rows'[r].status = rows[r].status
  <1>1. rows[r] \in Row /\ rows \in [Runs -> Row]
    BY DEF StoreInv, TypeOK
  <1>2. CASE RequestCancel(r) \/ Wake(r) \/ TakeSnapshot(r) \/ Get(o, r)
    BY <1>1, <1>2 DEF RequestCancel, Wake, TakeSnapshot, Get, Row
  <1>3. CASE \/ \E now \in Times : Heartbeat(o, r, now)
             \/ \E reason \in Reasons : Park(o, r, reason)
    BY <1>1, <1>3 DEF Heartbeat, Park, Row
  <1>4. CASE \/ ActivateRefused(o, r) \/ AbandonClaim(o, r) \/ RecoverClaimSome(o, r)
             \/ \E now \in Times : Claim(o, r, now)
             \/ StealSome(o, r)
    <2>1. \/ rows'[r] = rows[r] \/ rows'[r] = RowWithoutClaim(rows[r])
          \/ \E now \in Times : rows'[r] = RowWithClaim(rows[r], o, now)
      BY <1>1, <1>4 DEF ActivateRefused, AbandonClaim, RecoverClaimSome, RecoverClaim, Claim,
                        StealSome, Steal
    <2>2. ASSUME NEW now \in Times, rows'[r] = RowWithClaim(rows[r], o, now)
          PROVE  rows'[r].status = rows[r].status
      BY <1>1, <2>2 DEF RowWithClaim, Row
    <2>3. ASSUME rows'[r] = RowWithoutClaim(rows[r])
          PROVE  rows'[r].status = rows[r].status
      BY <1>1, <2>3 DEF RowWithoutClaim, Row
    <2> QED
      BY <2>1, <2>2, <2>3
  <1> QED
    BY <1>2, <1>3, <1>4

(* The operations that may move it: create, the two that take ownership,   *)
(* and the owner's transition.                                             *)
LEMMA StatusMoved ==
  ASSUME StoreInv, NEW r \in Runs, NEW o \in Owners,
         \/ Create(r) \/ ClaimAndOwnSome(o, r) \/ TransitionOwnedSome(o, r)
         \/ \E now \in Times : ActivateSucceeds(o, r, now)
  PROVE  StatusMoves(rows[r].status, rows'[r].status)
  <1>1. /\ rows[r] \in Row /\ rows \in [Runs -> Row]
        /\ GoodRun(rows[r], leases[r], folds[r])
    BY StoreInvGoodRun DEF StoreInv, TypeOK
  <1>2. CASE Create(r)
    BY <1>1, <1>2 DEF Create, Exists, NoRow, StatusMoves, Row
  <1>3. CASE ClaimAndOwnSome(o, r)
    <2>1. /\ rows[r].status \in {"pending", "suspended", "running"}
          /\ \E now \in Times : rows'[r] = RowRunning(rows[r], o, now)
      BY <1>1, <1>3 DEF ClaimAndOwnSome, ClaimAndOwn
    <2> QED
      BY <1>1, <2>1 DEF RowRunning, StatusMoves, Statuses, Row
  <1>4. CASE \E now \in Times : ActivateSucceeds(o, r, now)
    <2>1. /\ rows[r].claim = o
          /\ \E now \in Times : rows'[r] = RowRunning(RowWithoutClaim(rows[r]), o, now)
      BY <1>1, <1>4 DEF ActivateSucceeds, RowMatchesClaim
    <2>2. rows'[r].status = "running"
      BY <1>1, <2>1 DEF RowRunning, RowWithoutClaim, Row
    <2>3. rows[r].status \notin Terminal /\ rows[r].status # "absent"
      BY <1>1, <2>1, OwnersAssumption DEF GoodRun
    <2> QED
      BY <1>1, <2>2, <2>3 DEF StatusMoves, Row, Statuses, Terminal
  <1>5. CASE TransitionOwnedSome(o, r)
    <2>1. /\ rows[r].status = "running"
          /\ \/ rows'[r] = rows[r]
             \/ \E to \in Statuses : rows'[r] = RowSettled(rows[r], to)
      BY <1>1, <1>5 DEF TransitionOwnedSome, TransitionOwned, OwnsRow
    <2>2. ASSUME NEW to \in Statuses, rows'[r] = RowSettled(rows[r], to)
          PROVE  rows'[r].status = to
      BY <1>1, <2>2 DEF RowSettled, Row
    <2> QED
      BY <2>1, <2>2 DEF StatusMoves
  <1> QED
    BY <1>2, <1>3, <1>4, <1>5

(* What the refinement mapping shows of a row, by its status.              *)
LEMMA PhaseIs ==
  ASSUME NEW row, row.status \in Statuses \cup {"absent"}
  PROVE  /\ PhaseOf(row) = "absent" <=> row.status = "absent"
         /\ PhaseOf(row) = "idle" <=> row.status \in {"pending", "suspended"}
         /\ PhaseOf(row) = "running" <=> row.status = "running"
         /\ PhaseOf(row) = "settled" <=> row.status \in Terminal
         /\ PhaseOf(row) \in {"absent", "idle", "running", "settled"}
  <1>1. CASE row.status = "absent"
    BY <1>1 DEF PhaseOf, Terminal
  <1>2. CASE row.status \in {"pending", "suspended"}
    BY <1>2 DEF PhaseOf, Terminal
  <1>3. CASE row.status = "running"
    BY <1>3 DEF PhaseOf, Terminal
  <1>4. CASE row.status \in Terminal
    BY <1>4 DEF PhaseOf, Terminal
  <1> QED
    BY <1>1, <1>2, <1>3, <1>4 DEF Statuses

(* A step on run r that leaves the other runs' rows and leases alone and   *)
(* moves the row's status as StatusMoves allows is a step of RunOwnership, *)
(* or none: who owns the run afterwards follows from its status, because   *)
(* the row and the lease agree before and after.                           *)
LEMMA MovesOwnership ==
  ASSUME StoreInv, StoreInv', NEW r \in Runs,
         \A q \in Runs \ {r} : rows'[q] = rows[q] /\ leases'[q] = leases[q],
         StatusMoves(rows[r].status, rows'[r].status)
  PROVE  [Ownership!Next]_(Ownership!vars)
  <1> DEFINE ph == [q \in Runs |-> PhaseOf(rows[q])]
             ow == [q \in Runs |-> leases[q].owner]
             p == PhaseOf(rows'[r])
             o == leases'[r].owner
  <1>1. /\ ph' = [ph EXCEPT ![r] = p] /\ ow' = [ow EXCEPT ![r] = o]
        /\ ph \in [Runs -> {PhaseOf(rows[q]) : q \in Runs}] /\ ph[r] = PhaseOf(rows[r])
        /\ ow[r] = leases[r].owner
    OBVIOUS
  <1>2. /\ rows[r].status \in Statuses \cup {"absent"}
        /\ rows'[r].status \in Statuses \cup {"absent"}
        /\ leases[r].owner \in Owners \cup {None} /\ o \in Owners \cup {None}
    BY DEF StoreInv, TypeOK, Row, Lease
  <1>3. /\ rows[r].status = "running" <=> leases[r].owner # None
        /\ rows'[r].status = "running" <=> o # None
    BY DEF StoreInv, OwnerMirrored
  <1>4. /\ PhaseOf(rows[r]) = "absent" <=> rows[r].status = "absent"
        /\ PhaseOf(rows[r]) = "idle" <=> rows[r].status \in {"pending", "suspended"}
        /\ PhaseOf(rows[r]) = "running" <=> rows[r].status = "running"
    BY <1>2, PhaseIs
  <1>5. /\ p = "idle" <=> rows'[r].status \in {"pending", "suspended"}
        /\ p = "running" <=> rows'[r].status = "running"
        /\ p = "settled" <=> rows'[r].status \in Terminal
    BY <1>2, PhaseIs
  <1>6. CASE rows'[r].status = rows[r].status /\ rows[r].status # "running"
    <2>1. PhaseOf(rows'[r]) = PhaseOf(rows[r])
      BY <1>6 DEF PhaseOf
    <2>2. ph' = ph /\ ow' = ow
      BY <1>1, <1>3, <1>6, <2>1
    <2> QED
      BY <2>2 DEF Ownership!vars
  <1>7. CASE rows[r].status = "absent" /\ rows'[r].status = "pending"
    <2>1. Ownership!Create(r)
      BY <1>1, <1>3, <1>4, <1>5, <1>7 DEF Ownership!Create, Ownership!Goes
    <2> QED
      BY <2>1 DEF Ownership!Next
  <1>8. CASE rows[r].status \in {"pending", "suspended"} /\ rows'[r].status = "running"
    <2>1. o \in Owners /\ Ownership!Take(r, o)
      BY <1>1, <1>2, <1>3, <1>4, <1>5, <1>8 DEF Ownership!Take, Ownership!Goes
    <2> QED
      BY <2>1 DEF Ownership!Next
  <1>9. CASE rows[r].status = "running" /\ rows'[r].status = "running"
    <2>1. o \in Owners /\ Ownership!Displace(r, o)
      BY <1>1, <1>2, <1>3, <1>4, <1>5, <1>9 DEF Ownership!Displace, Ownership!Goes
    <2> QED
      BY <2>1 DEF Ownership!Next
  <1>10. CASE rows[r].status = "running" /\ rows'[r].status \in {"pending", "suspended"}
    <2>1. Ownership!Release(r)
      BY <1>1, <1>3, <1>4, <1>5, <1>10 DEF Ownership!Release, Ownership!Goes
    <2> QED
      BY <2>1 DEF Ownership!Next
  <1>11. CASE rows[r].status = "running" /\ rows'[r].status \in Terminal
    <2>1. Ownership!Settle(r)
      BY <1>1, <1>3, <1>4, <1>5, <1>11 DEF Ownership!Settle, Ownership!Goes, Terminal
    <2> QED
      BY <2>1 DEF Ownership!Next
  <1> QED
    BY <1>6, <1>7, <1>8, <1>9, <1>10, <1>11 DEF StatusMoves, Statuses

(* Every step of the store is a step of RunOwnership or stutters.          *)
LEMMA NextOwnership == StoreInv /\ StoreInv' /\ [Next]_vars => [Ownership!Next]_(Ownership!vars)
  <1> SUFFICES ASSUME StoreInv, StoreInv', [Next]_vars PROVE [Ownership!Next]_(Ownership!vars)
    OBVIOUS
  <1>1. CASE UNCHANGED vars
    BY <1>1 DEF vars, Ownership!vars, PhaseOf
  <1>2. CASE Next
    <2>1. PICK r \in Runs :
              \/ Create(r) \/ RequestCancel(r) \/ Wake(r) \/ TakeSnapshot(r)
              \/ \E o \in Owners :
                  \/ KeepsOrClears(o, r)
                  \/ \E now \in Times : ActivateSucceeds(o, r, now)
                  \/ ClaimAndOwnSome(o, r)
      BY <1>2 DEF Next, KeepsOrClears
    <2>2. \A q \in Runs \ {r} : rows'[q] = rows[q] /\ leases'[q] = leases[q]
      BY <2>1 DEF Create, RequestCancel, Wake, TakeSnapshot, KeepsOrClears, ActivateSucceeds,
                  ClaimAndOwnSome, ClaimAndOwn, Get, ActivateRefused, AbandonClaim, Claim,
                  Heartbeat, Park, StealSome, Steal, RecoverClaimSome, RecoverClaim,
                  TransitionOwnedSome, TransitionOwned, StoreInv, TypeOK
    <2>3. StatusMoves(rows[r].status, rows'[r].status)
      <3>1. CASE Create(r) \/ RequestCancel(r) \/ Wake(r) \/ TakeSnapshot(r)
        BY <3>1 DEF Create, RequestCancel, Wake, TakeSnapshot, Exists, NoRow, StatusMoves, StoreInv,
                    TypeOK, Row
      <3>2. ASSUME NEW o \in Owners,
                   \/ KeepsOrClears(o, r)
                   \/ \E now \in Times : ActivateSucceeds(o, r, now)
                   \/ ClaimAndOwnSome(o, r)
            PROVE  StatusMoves(rows[r].status, rows'[r].status)
        BY <3>2, StatusKept, StatusMoved DEF KeepsOrClears, StatusMoves
      <3> QED
        BY <2>1, <3>1, <3>2
    <2> QED
      BY <2>2, <2>3, MovesOwnership
  <1> QED
    BY <1>1, <1>2

(* The run store implements RunOwnership: behind claims, evidence,         *)
(* heartbeats and the journal, a run is created, taken, handed over, given *)
(* back and settled once, and never has two owners or an owner it should   *)
(* not have.                                                               *)
THEOREM Refinement == Spec => ImplementsOwnership
  <1>1. Init => Ownership!Init
    <2> SUFFICES ASSUME Init PROVE Ownership!Init
      OBVIOUS
    <2>1. \A r \in Runs : rows[r].status = "absent" /\ leases[r].owner = None
      BY DEF Init, NoRow, NoLease
    <2>2. \A r \in Runs : PhaseOf(rows[r]) = "absent"
      BY <2>1, PhaseIs
    <2> QED
      BY <2>1, <2>2 DEF Ownership!Init
  <1> QED
    BY <1>1, StoreInvariance, NextOwnership, PTL DEF Spec, ImplementsOwnership, Ownership!Spec

---------------------------------------------------------------------------
(* Backup and fenced restore.                                              *)

(* Initially there is no backup and nobody is fenced out.                  *)
LEMMA DRInitIInv == DRInit => DRIInv
  <1> SUFFICES ASSUME DRInit PROVE DRIInv
    OBVIOUS
  <1>1. StoreInv
    BY InitIInv DEF DRInit, IInv
  <1> QED
    BY <1>1 DEF DRInit, DRIInv, BackupConsistent, FencedOut

(* A snapshot of consistent tables is consistent.                          *)
LEMMA BackupStep == ASSUME DRIInv, Backup PROVE DRIInv'
  <1>1. StoreInv' /\ fenced' \in [Runs -> SUBSET Owners] /\ FencedOut'
    BY DEF Backup, DRIInv, FencedOut, StoreInv, TypeOK, LeaseWellFormed, OwnerMirrored,
           RowClaimBacked, RunningClaimShown, NoSelfClaim, TerminalUnclaimed, StolenWasStale
  <1>2. GoodBackup(backup')
    BY DEF Backup, DRIInv, StoreInv, TypeOK, OwnerMirrored, LeaseWellFormed, GoodBackup
  <1> QED
    BY <1>1, <1>2 DEF DRIInv, BackupConsistent

(* A fenced row has neither an owner nor a claim and is not running, so it *)
(* agrees with the empty lease table.                                      *)
LEMMA FencedRowFree ==
  ASSUME GoodBackup(backup), NEW r \in Runs
  PROVE  LET row == FencedRow(backup.rows[r]) IN
         /\ row \in Row /\ row.status # "running"
         /\ row.owner = None /\ row.heartbeatAt = None
         /\ row.claim = None /\ row.claimedAt = None
  <1>1. /\ backup.rows[r] \in Row
        /\ backup.rows[r].status # "running" =>
             backup.rows[r].owner = None /\ backup.rows[r].heartbeatAt = None
    BY DEF GoodBackup
  <1>2. CASE backup.rows[r].status = "running"
    BY <1>1, <1>2 DEF FencedRow, RowSettled, Row, Reasons, Statuses
  <1>3. CASE backup.rows[r].status # "running"
    BY <1>1, <1>3 DEF FencedRow, RowWithoutClaim, Row
  <1> QED
    BY <1>2, <1>3

(* restoreAndFence replaces the tables by consistent ones, whatever the    *)
(* processes that survive it remember.                                     *)
LEMMA RestoreStep == ASSUME DRIInv, RestoreAndFence PROVE DRIInv'
  <1>1. GoodBackup(backup)
    BY DEF DRIInv, BackupConsistent, RestoreAndFence
  <1>2. ASSUME NEW r \in Runs
        PROVE  /\ rows'[r] \in Row /\ rows'[r].status # "running"
               /\ rows'[r].owner = None /\ rows'[r].heartbeatAt = None
               /\ rows'[r].claim = None /\ rows'[r].claimedAt = None
               /\ leases'[r] = NoLease
    BY <1>1, <1>2, FencedRowFree DEF RestoreAndFence, FencedLease
  <1>3. NoLease \in Lease
    BY DEF NoLease, Lease
  <1>4. TypeOK'
    <2>1. rows' \in [Runs -> Row] /\ leases' \in [Runs -> Lease]
      BY <1>2, <1>3 DEF RestoreAndFence
    <2>2. folds' \in [Runs -> FoldRow]
      BY <1>1 DEF RestoreAndFence, GoodBackup
    <2> QED
      BY <2>1, <2>2 DEF RestoreAndFence, DRIInv, StoreInv, TypeOK
  <1>5. LeaseWellFormed' /\ OwnerMirrored' /\ RowClaimBacked' /\ RunningClaimShown'
    BY <1>2 DEF LeaseWellFormed, OwnerMirrored, RowClaimBacked, RunningClaimShown, NoLease
  <1>6. NoSelfClaim' /\ TerminalUnclaimed'
    BY <1>2 DEF NoSelfClaim, TerminalUnclaimed, ClaimColumnsFree, NoLease
  <1>7. StolenWasStale'
    BY DEF RestoreAndFence, DRIInv, StoreInv, StolenWasStale
  <1>8. fenced' \in [Runs -> SUBSET Owners]
    BY DEF RestoreAndFence
  <1>9. FencedOut'
    BY <1>2, OwnersAssumption DEF RestoreAndFence, FencedOut, NoLease
  <1>10. BackupConsistent'
    BY DEF RestoreAndFence, BackupConsistent
  <1> QED
    BY <1>4, <1>5, <1>6, <1>7, <1>8, <1>9, <1>10 DEF DRIInv, StoreInv

(* While a claim is pending no operation of the store grants another: the  *)
(* claim stays or is cleared, and the run keeps its owner, loses it, or    *)
(* goes to the claimant.                                                   *)
HandsOver(r) ==
    leases[r].claim # None =>
        /\ leases'[r].claim \in {None, leases[r].claim}
        /\ leases'[r].owner \in {None, leases[r].owner, leases[r].claim}

(* The operations that take ownership hand the run over that way.          *)
LEMMA TakeHandsOver ==
  ASSUME StoreInv, NEW r \in Runs, NEW o \in Owners,
         ClaimAndOwnSome(o, r) \/ \E now \in Times : ActivateSucceeds(o, r, now)
  PROVE  HandsOver(r)
  <1>1. CASE ClaimAndOwnSome(o, r)
    <2>1. PICK now \in Times, ev \in EvidenceBy(o) : ClaimAndOwn(o, r, now, ev)
      BY <1>1 DEF ClaimAndOwnSome
    <2>2. leases'[r].owner = o /\ leases'[r].claim = None
      BY <2>1 DEF ClaimAndOwn, Activated, StoreInv, TypeOK
    <2>3. CASE OwnFree(o, r, now)
      BY <2>3 DEF OwnFree, ClaimGranted, HandsOver
    <2>4. CASE OwnAgain(o, r, now)
      BY <2>2, <2>4 DEF OwnAgain, HandsOver, StoreInv, OwnerMirrored
    <2>5. CASE OwnStale(o, r, now, ev)
      BY <2>5 DEF OwnStale, StealGranted, NoLease, HandsOver
    <2> QED
      BY <2>1, <2>3, <2>4, <2>5 DEF ClaimAndOwn
  <1>2. ASSUME NEW now \in Times, ActivateSucceeds(o, r, now) PROVE HandsOver(r)
    BY <1>2 DEF ActivateSucceeds, ActivateAdmitted, Activated, HandsOver, StoreInv, TypeOK
  <1> QED
    BY <1>1, <1>2

(* So do all the others, which leave the owner or clear it.                *)
LEMMA OtherHandsOver ==
  ASSUME StoreInv, NEW r \in Runs, NEW o \in Owners, KeepsOrClears(o, r)
  PROVE  HandsOver(r)
  <1>1. leases'[r].owner \in {None, leases[r].owner}
    BY KeepsOrClearsStep
  <1> SUFFICES ASSUME leases[r].claim # None
               PROVE  leases'[r].claim \in {None, leases[r].claim}
    BY <1>1 DEF HandsOver
  <1>2. CASE Get(o, r) \/ \E reason \in Reasons : Park(o, r, reason)
    BY <1>2 DEF Get, Park
  <1>3. CASE ActivateRefused(o, r) \/ AbandonClaim(o, r) \/ TransitionOwnedSome(o, r)
    <2>1. leases'[r] = leases[r] \/ leases'[r] = Released(leases[r], o)
      BY <1>3 DEF ActivateRefused, AbandonClaim, TransitionOwnedSome, TransitionOwned,
                  StoreInv, TypeOK
    <2> QED
      BY <2>1 DEF Released
  <1>4. CASE \/ \E now \in Times : Heartbeat(o, r, now)
             \/ RecoverClaimSome(o, r)
    <2>1. leases[r] \in Lease
      BY DEF StoreInv, TypeOK
    <2>2. \/ \E now \in Times : leases'[r] = Renewed(leases[r], now)
          \/ leases'[r] = WithoutClaim(leases[r])
      BY <1>4 DEF Heartbeat, RecoverClaimSome, RecoverClaim, StoreInv, TypeOK
    <2> QED
      BY <2>1, <2>2 DEF Renewed, WithoutClaim, Lease
  <1>5. ~StealSome(o, r) /\ ~\E now \in Times : Claim(o, r, now)
    BY DEF StealSome, Steal, StealGranted, NoLease, Claim, ClaimGranted
  <1> QED
    BY <1>2, <1>3, <1>4, <1>5 DEF KeepsOrClears

(* Hence every step of the store does.                                     *)
LEMMA NextHandsOver == ASSUME StoreInv, Next, NEW q \in Runs PROVE HandsOver(q)
  <1>1. PICK r \in Runs :
            \/ Create(r) \/ RequestCancel(r) \/ Wake(r) \/ TakeSnapshot(r)
            \/ \E o \in Owners :
                \/ KeepsOrClears(o, r)
                \/ \E now \in Times : ActivateSucceeds(o, r, now)
                \/ ClaimAndOwnSome(o, r)
    BY DEF Next, KeepsOrClears
  <1>2. CASE q # r
    <2>1. leases'[q] = leases[q]
      BY <1>1, <1>2 DEF Create, RequestCancel, Wake, TakeSnapshot, KeepsOrClears,
                ActivateSucceeds, ClaimAndOwnSome, ClaimAndOwn, Get, ActivateRefused,
                AbandonClaim, Claim, Heartbeat, Park, StealSome, Steal, RecoverClaimSome,
                RecoverClaim, TransitionOwnedSome, TransitionOwned, StoreInv, TypeOK
    <2> QED
      BY <2>1 DEF HandsOver
  <1>3. CASE q = r /\ (Create(r) \/ RequestCancel(r) \/ Wake(r) \/ TakeSnapshot(r))
    BY <1>3 DEF HandsOver, Create, RequestCancel, Wake, TakeSnapshot
  <1> QED
    BY <1>1, <1>2, <1>3, TakeHandsOver, OtherHandsOver

(* A step of the store keeps the fenced processes out: whoever owns or     *)
(* claims a run afterwards did so before, or was granted it by the step.   *)
LEMMA StoreStepKept == ASSUME DRIInv, StoreStep PROVE DRIInv'
  <1>1. StoreInv'
    BY NextKept DEF DRIInv, StoreStep, Kept
  <1>2. fenced' \in [Runs -> SUBSET Owners] /\ BackupConsistent'
    BY DEF DRIInv, StoreStep, BackupConsistent, GoodBackup
  <1>3. ASSUME NEW r \in Runs
        PROVE  leases'[r].owner \notin fenced'[r] /\ leases'[r].claim \notin fenced'[r]
    <2>1. /\ leases[r].owner \notin fenced[r] /\ leases[r].claim \notin fenced[r]
          /\ fenced[r] \in SUBSET Owners /\ None \notin fenced[r]
      BY <1>3, OwnersAssumption DEF DRIInv, FencedOut
    <2>2. fenced'[r] = fenced[r] \ GrantedBy(r)
      BY <1>3 DEF StoreStep
    <2>3. HandsOver(r)
      BY <1>3, NextHandsOver DEF DRIInv, StoreStep
    <2> QED
      BY <2>1, <2>2, <2>3 DEF GrantedBy, HandsOver
  <1> QED
    BY <1>1, <1>2, <1>3 DEF DRIInv, FencedOut

(* DRIInv holds in every state of a store that is backed up and restored.  *)
THEOREM RestoredInvariance == DRSpec => []DRIInv
  <1>1. DRIInv /\ [DRNext]_drVars => DRIInv'
    <2>1. ASSUME DRIInv, UNCHANGED drVars PROVE DRIInv'
      BY <2>1 DEF drVars, DRIInv, BackupConsistent, GoodBackup, FencedOut, StoreInv, TypeOK,
                  LeaseWellFormed, OwnerMirrored, RowClaimBacked, RunningClaimShown,
                  NoSelfClaim, TerminalUnclaimed, StolenWasStale
    <2> QED
      BY <2>1, StoreStepKept, BackupStep, RestoreStep DEF DRNext
  <1> QED
    BY <1>1, DRInitIInv, PTL DEF DRSpec

(* Nobody owns a run of a restored store on the strength of what it held   *)
(* before the restore: ownership always goes back to a claim that          *)
(* the restored lease table granted.                                       *)
THEOREM FenceHolds == DRSpec => []NoResurrection
  <1>1. DRIInv => NoResurrection
    BY DEF DRIInv, FencedOut, NoResurrection
  <1> QED
    BY <1>1, RestoredInvariance, PTL

(* Before and after a restore the run rows and the lease table agree on    *)
(* who owns and who claims a run.                                          *)
THEOREM RestoreConsistent == DRSpec => []RestoredConsistent
  <1>1. DRIInv => RestoredConsistent
    BY DEF DRIInv, StoreInv, RestoredConsistent
  <1> QED
    BY <1>1, RestoredInvariance, PTL

(* What the store promises of its steps, it promises again after it has    *)
(* been restored, although the processes still hold snapshots and claims   *)
(* of the lost database: but for the restore itself, no owner is displaced *)
(* while its heartbeat is fresh and no settled run moves again.            *)
THEOREM RestoredStoreSafe ==
  DRSpec => [][RestoreAndFence \/ (DisplacedStaleStep /\ StaysSettledStep)]_drVars
  <1>1. DRIInv /\ [DRNext]_drVars
        => [RestoreAndFence \/ (DisplacedStaleStep /\ StaysSettledStep)]_drVars
    <2> SUFFICES ASSUME DRIInv, StoreStep \/ Backup
                 PROVE  [DisplacedStaleStep /\ StaysSettledStep]_drVars
      BY DEF DRNext
    <2>1. CASE StoreStep
      <3>1. StoreInv /\ Next
        BY <2>1 DEF StoreStep, DRIInv
      <3>2. CASE UNCHANGED vars
        <4>1. DisplacedStaleStep
          BY <3>2 DEF vars, DisplacedStaleStep, DisplacedStale
        <4>2. StaysSettledStep
          BY <3>1, <3>2, StoreInvGoodRun
          DEF vars, StaysSettledStep, StaysSettled, GoodRun, Terminal
        <4> QED
          BY <4>1, <4>2
      <3>3. CASE ~UNCHANGED vars
        BY <3>1, <3>3, NextDisplaces, NextSettled
      <3> QED
        BY <3>2, <3>3
    <2>2. CASE Backup
      <3>1. DisplacedStaleStep
        BY <2>2 DEF Backup, DisplacedStaleStep, DisplacedStale
      <3>2. StaysSettledStep
        BY <2>2, StoreInvGoodRun
        DEF Backup, DRIInv, StaysSettledStep, StaysSettled, GoodRun, Terminal
      <3> QED
        BY <3>1, <3>2
    <2> QED
      BY <2>1, <2>2
  <1> QED
    BY <1>1, RestoredInvariance, PTL DEF DRSpec
===========================================================================
