------------------------- MODULE DisasterRecovery -------------------------
(***************************************************************************)
(* Hot backup and fenced restore of the run store                          *)
(* (packages/engine-store/src/DisasterRecovery.ts).                        *)
(*                                                                         *)
(* backup   the database a backup captured (VACUUM INTO: one consistent    *)
(*          snapshot of the tables and the journal), NoBackup or Restored  *)
(* fenced   (history) for each run of a restored store, the processes that *)
(*          have not been granted a claim since the restore                *)
(*                                                                         *)
(* Processes survive a restore with what they remember: their sessions are *)
(* not in the database.  A restored file is opened by engines only after   *)
(* restoreAndFence returns, so copying it and fencing it are one step.     *)
(* Digests, blobs and the schema check of the manifest are left out: they  *)
(* refuse a restore as a whole.                                            *)
(***************************************************************************)
EXTENDS RunStore

CONSTANTS NoBackup,   \* no backup was taken yet
          Restored    \* the backup was restored: one per behaviour is the bound

VARIABLES backup, fenced

drVars == <<rows, leases, folds, sessions, backup, fenced>>

DRInit ==
    /\ Init
    /\ backup = NoBackup
    /\ fenced = [r \in Runs |-> {}]

Backup ==
    /\ backup = NoBackup
    /\ backup' = [rows |-> rows, leases |-> leases, folds |-> folds]
    /\ UNCHANGED <<rows, leases, folds, sessions, fenced>>

(* Mutant: the lease table is left as it was backed up.                    *)
FencedLeaseKept(lease) == lease

(* DELETE FROM flows_consensus_leases                                      *)
FencedLease(lease) == NoLease

(* Mutant: a running row keeps its status.                                 *)
FencedRowRunning(row) == [RowWithoutClaim(row) EXCEPT !.owner = None, !.heartbeatAt = None]

(* Every claim is cleared; a running row is suspended, its waiting payload *)
(* replaced, so that the sweep for released runs drives it again.          *)
FencedRow(row) ==
    IF row.status = "running"
    THEN [RowSettled(row, "suspended") EXCEPT !.waiting = "released"]
    ELSE RowWithoutClaim(row)

(* restore, then fence, which appends nothing to the restored journal.     *)
RestoreAndFence ==
    /\ backup \notin {NoBackup, Restored}
    /\ rows' = [r \in Runs |-> FencedRow(backup.rows[r])]
    /\ leases' = [r \in Runs |-> FencedLease(backup.leases[r])]
    /\ folds' = backup.folds
    /\ fenced' = [r \in Runs |-> Owners]
    /\ backup' = Restored
    /\ UNCHANGED sessions

(* Who is granted a claim on r, or the run itself, by a step of the store. *)
GrantedBy(r) ==
    IF leases[r].claim # None THEN {}
    ELSE {leases'[r].claim} \cup
         (IF leases'[r].owner = leases[r].owner THEN {} ELSE {leases'[r].owner})

StoreStep ==
    /\ Next
    /\ fenced' = [r \in Runs |-> fenced[r] \ GrantedBy(r)]
    /\ UNCHANGED backup

DRNext == StoreStep \/ Backup \/ RestoreAndFence

DRSpec == DRInit /\ [][DRNext]_drVars

---------------------------------------------------------------------------
(* "Restore never lets a pre-backup owner resurrect": after a restore, a   *)
(* process owns a run, or passes the journal's fence for it, only through  *)
(* a claim the restored store granted, whatever claim or ownership it      *)
(* remembers from before.                                                  *)
NoResurrection ==
    \A r \in Runs : leases[r].owner = None \/ leases[r].owner \notin fenced[r]

(* Restored runs are in the states the store's own operations reach: the   *)
(* row and the lease agree, so survivors and newcomers find consistent     *)
(* tables.                                                                 *)
RestoredConsistent ==
    LeaseWellFormed /\ OwnerMirrored /\ RowClaimBacked /\ RunningClaimShown

---------------------------------------------------------------------------
(* The strengthening under which the properties above are inductive.       *)

(* A snapshot holds tables the store's own operations reached: VACUUM INTO *)
(* reads rows and leases of one moment.                                    *)
GoodBackup(b) ==
    /\ b.rows \in [Runs -> Row] /\ b.leases \in [Runs -> Lease]
    /\ b.folds \in [Runs -> FoldRow]
    /\ \A r \in Runs :
          /\ b.rows[r].owner = b.leases[r].owner
          /\ b.rows[r].heartbeatAt = b.leases[r].heartbeatAt
          /\ b.leases[r].owner = None <=> b.leases[r].heartbeatAt = None
          /\ b.rows[r].status = "running" <=> b.leases[r].owner # None

BackupConsistent == backup \notin {NoBackup, Restored} => GoodBackup(backup)

(* Neither the owner nor the claimant of a run is a process that has only  *)
(* what it remembers from before the restore.                              *)
FencedOut ==
    \A r \in Runs : leases[r].owner \notin fenced[r] /\ leases[r].claim \notin fenced[r]

(* The inductive invariant of the store with its backup.  The fold is not  *)
(* part of it: fencing rewrites rows and appends nothing to the journal.   *)
DRIInv ==
    /\ StoreInv
    /\ fenced \in [Runs -> SUBSET Owners]
    /\ BackupConsistent
    /\ FencedOut

===========================================================================
