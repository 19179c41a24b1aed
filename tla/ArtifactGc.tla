----------------------------- MODULE ArtifactGc -----------------------------
(***************************************************************************)
(* Collecting the blobs of the artifact store: the mark over the durable   *)
(* roots and the sweep of engine-store's ArtifactGc.ts, the fenced removal *)
(* of artifacts' ArtifactSweep.ts, the publication of ArtifactStore.ts and *)
(* the steps that publish a blob and then record evidence of it.           *)
(*                                                                         *)
(* A writer is one attempt. It puts a blob, records its attempt row and    *)
(* then its cache row; the rows are the roots of the mark. A blob may rot, *)
(* and ActionPersistence.ts then strips the attempt row of its evidence,   *)
(* which may leave the cache row the only root of a blob put anew. The     *)
(* lock of a digest (ArtifactLocks.ts) is one of the process: a writer     *)
(* outside Local lives in another process than the collector and does not  *)
(* contend.                                                                *)
(***************************************************************************)
EXTENDS Integers

CONSTANTS
    NumWriters, NumKeys,
    Digests,
    Local,       \* the writers in the collector's process
    Grace,       \* graceMs
    Attempt,     \* how long after stamping its blob an attempt records its row
    Mark,        \* how long a collection takes until it reads the clock
    None,
    MaxTime,     \* bound on the clock
    MaxGcFaults    \* bound on crashes, damage, failing attempts and collections

Writers == 1..NumWriters
Keys == 1..NumKeys

ASSUME ArtifactGcAssumption ==
    /\ NumWriters \in Nat /\ NumKeys \in Nat /\ MaxTime \in Nat /\ MaxGcFaults \in Nat
    /\ Grace \in Nat /\ Attempt \in Nat /\ Mark \in Nat
    /\ Local \subseteq Writers
    /\ None \notin Digests

VARIABLES
    now,
    blobs,    \* the digests at whose address there is a blob
    mtime,    \* the age evidence of each: when it was written or freshened
    damaged,  \* the digests whose bytes rotted and were not put anew since
    rows,     \* the attempts whose row carries evidence, flows_attempts
    cache,    \* flows_step_cache: the digest that the row of a key references
    stage,    \* where each attempt is
    digest,   \* what it publishes
    putAt,    \* when its put stamped the blob or the temporary file
    gc,       \* where the collection is
    began,    \* when it began
    live,     \* the digests it found referenced
    cursor,   \* the last row of the page it read
    seen,     \* the blobs of the inventory, not judged yet
    age,      \* their mtimes
    bound,    \* the latest mtime it may sweep
    target,   \* the blob it is removing
    gcFaults

blobStore == <<blobs, mtime, damaged>>
roots == <<rows, cache>>
attempt == <<stage, digest, putAt>>
collector == <<gc, began, live, cursor, seen, age, bound, target>>
gcVars == <<now, blobStore, roots, attempt, collector, gcFaults>>

Publishing == {"verify", "freshen", "write", "rename"}

GcTypeOK ==
    /\ now \in Nat
    /\ blobs \in SUBSET Digests /\ mtime \in [Digests -> Nat]
    /\ damaged \in SUBSET Digests
    /\ rows \in SUBSET Writers /\ cache \in [Keys -> Digests \cup {None}]
    /\ stage \in [Writers -> Publishing \cup {"idle", "put", "recorded", "done"}]
    /\ digest \in [Writers -> Digests \cup {None}] /\ putAt \in [Writers -> Nat]
    /\ gc \in {"idle", "cache", "attempts", "inventory", "clock", "sweep", "remove"}
    /\ began \in Nat /\ live \in SUBSET Digests /\ cursor \in Nat
    /\ seen \in SUBSET Digests /\ age \in [Digests -> Nat]
    /\ bound \in Int /\ target \in Digests \cup {None}
    /\ gcFaults \in Nat

(* The store may hold blobs that earlier processes left without a root. *)
GcInit ==
    /\ now = 0
    /\ blobs \in SUBSET Digests /\ mtime = [d \in Digests |-> 0] /\ damaged = {}
    /\ rows = {} /\ cache = [k \in Keys |-> None]
    /\ stage = [w \in Writers |-> "idle"]
    /\ digest = [w \in Writers |-> None] /\ putAt = [w \in Writers |-> 0]
    /\ gc = "idle" /\ began = 0 /\ live = {} /\ cursor = 0
    /\ seen = {} /\ age = [d \in Digests |-> 0] /\ bound = 0 /\ target = None
    /\ gcFaults = 0

Roots == {digest[w] : w \in rows} \cup ({cache[k] : k \in Keys} \ {None})

-----------------------------------------------------------------------------
(* ArtifactStore.put, under the lock of the digest *)

(* The digest's lock is free for the writer w: no other writer of its process *)
(* publishes it and, in the collector's process, it is not being removed.     *)
Unlocked(w, d) ==
    w \in Local =>
        /\ ~(gc = "remove" /\ target = d)
        /\ \A v \in Local : digest[v] = d => stage[v] \notin Publishing

WriterGoto(w, to) == stage' = [stage EXCEPT ![w] = to]

Begin(w) ==
    /\ stage[w] = "idle"
    /\ \E d \in Digests :
          /\ Unlocked(w, d)
          /\ digest' = [digest EXCEPT ![w] = d]
    /\ WriterGoto(w, "verify")
    /\ UNCHANGED <<now, blobStore, roots, putAt, collector, gcFaults>>

(* Only a blob whose bytes still have the digest is trusted.                  *)
Verify(w) ==
    /\ stage[w] = "verify"
    /\ WriterGoto(w, IF digest[w] \in blobs \ damaged THEN "freshen" ELSE "write")
    /\ UNCHANGED <<now, blobStore, roots, digest, putAt, collector, gcFaults>>

(* utimes on a blob that vanished falls through to the rewrite. *)
Freshen(w) ==
    /\ stage[w] = "freshen"
    /\ IF digest[w] \in blobs
       THEN /\ mtime' = [mtime EXCEPT ![digest[w]] = now]
            /\ putAt' = [putAt EXCEPT ![w] = now]
            /\ WriterGoto(w, "put")
       ELSE WriterGoto(w, "write") /\ UNCHANGED <<mtime, putAt>>
    /\ UNCHANGED <<now, blobs, damaged, roots, digest, collector, gcFaults>>

(* The temporary file takes its mtime when it is written. *)
WriteTemp(w) ==
    /\ stage[w] = "write"
    /\ putAt' = [putAt EXCEPT ![w] = now]
    /\ WriterGoto(w, "rename")
    /\ UNCHANGED <<now, blobStore, roots, digest, collector, gcFaults>>

(* The rename keeps that mtime, however late it comes. *)
Rename(w) ==
    /\ stage[w] = "rename"
    /\ blobs' = blobs \cup {digest[w]}
    /\ mtime' = [mtime EXCEPT ![digest[w]] = putAt[w]]
    /\ damaged' = damaged \ {digest[w]}
    /\ WriterGoto(w, "put")
    /\ UNCHANGED <<now, roots, digest, putAt, collector, gcFaults>>

(* The host refuses the put, or the attempt fails after it: no row of it has *)
(* evidence.                                                                 *)
AttemptFails(w) ==
    /\ stage[w] \in Publishing \cup {"put"}
    /\ gcFaults < MaxGcFaults /\ gcFaults' = gcFaults + 1
    /\ WriterGoto(w, "done")
    /\ UNCHANGED <<now, blobStore, roots, digest, putAt, collector>>

-----------------------------------------------------------------------------
(* The roots *)

(* The attempt settles with its evidence, and its cache row follows. *)
RecordAttempt(w) ==
    /\ stage[w] = "put"
    /\ rows' = rows \cup {w}
    /\ WriterGoto(w, "recorded")
    /\ UNCHANGED <<now, blobStore, cache, digest, putAt, collector, gcFaults>>

CachePut(w) ==
    /\ stage[w] = "recorded"
    /\ \E k \in Keys : cache' = [cache EXCEPT ![k] = IF @ = None THEN digest[w] ELSE @]
    /\ WriterGoto(w, "done")
    /\ UNCHANGED <<now, blobStore, rows, digest, putAt, collector, gcFaults>>

(* A later dispatch replays a recorded attempt, finds the bytes damaged and  *)
(* strips the row of its evidence; such a row never reaches the cache.       *)
Quarantine(w) ==
    /\ w \in rows /\ digest[w] \in blobs \cap damaged
    /\ rows' = rows \ {w}
    /\ WriterGoto(w, "done")
    /\ UNCHANGED <<now, blobStore, cache, digest, putAt, collector, gcFaults>>

EvictRow(k) ==
    /\ cache[k] # None
    /\ cache' = [cache EXCEPT ![k] = None]
    /\ UNCHANGED <<now, blobStore, rows, attempt, collector, gcFaults>>

-----------------------------------------------------------------------------
(* ArtifactGc.gc *)

GcBegin ==
    /\ gc = "idle"
    /\ gc' = "cache" /\ began' = now /\ live' = {} /\ cursor' = 0
    /\ UNCHANGED <<now, blobStore, roots, attempt, seen, age, bound, target, gcFaults>>

(* The rows after the cursor. A page is the first of them. *)
Rest(ids) == {i \in ids : i > cursor}

(* A mutant of MarkCache: attempt rows are taken for the only roots. *)
MarkCacheSkipped ==
    /\ gc = "cache"
    /\ gc' = "attempts" /\ cursor' = 0
    /\ UNCHANGED <<now, blobStore, roots, attempt, began, live, seen, age, bound, target, gcFaults>>

MarkCache ==
    LET rest == Rest({k \in Keys : cache[k] # None}) IN
    /\ gc = "cache"
    /\ \/ rest = {} /\ gc' = "attempts" /\ cursor' = 0 /\ UNCHANGED live
       \/ \E k \in rest :
             /\ \A j \in rest : k <= j
             /\ cursor' = k /\ live' = live \cup {cache[k]} /\ UNCHANGED gc
    /\ UNCHANGED <<now, blobStore, roots, attempt, began, seen, age, bound, target, gcFaults>>

MarkAttempts ==
    /\ gc = "attempts"
    /\ \/ Rest(rows) = {} /\ gc' = "inventory" /\ cursor' = 0 /\ UNCHANGED live
       \/ \E w \in Rest(rows) :
             /\ \A v \in Rest(rows) : w <= v
             /\ cursor' = w /\ live' = live \cup {digest[w]} /\ UNCHANGED gc
    /\ UNCHANGED <<now, blobStore, roots, attempt, began, seen, age, bound, target, gcFaults>>

Inventory ==
    /\ gc = "inventory"
    /\ seen' = blobs /\ age' = mtime
    /\ gc' = "clock"
    /\ UNCHANGED <<now, blobStore, roots, attempt, began, live, cursor, bound, target, gcFaults>>

Clock ==
    /\ gc = "clock"
    /\ bound' = now - Grace
    /\ gc' = "sweep"
    /\ UNCHANGED <<now, blobStore, roots, attempt, began, live, cursor, seen, age, target, gcFaults>>

(* A mutant of Fenced: the fence trusts the inventory. *)
FencedByInventory(d) == d \notin blobs \/ age[d] > bound

(* Kept as live or by grace, or refused by the fence inside the removal. *)
Keep(d) == d \in live \/ age[d] > bound

Fenced(d) == d \notin blobs \/ mtime[d] > bound

Sweep ==
    /\ gc = "sweep"
    /\ \E d \in seen :
          /\ Keep(d) \/ \A w \in Local : digest[w] = d => stage[w] \notin Publishing
          /\ seen' = seen \ {d}
          /\ IF Keep(d) \/ Fenced(d)
             THEN UNCHANGED <<gc, target>>
             ELSE gc' = "remove" /\ target' = d
    /\ UNCHANGED <<now, blobStore, roots, attempt, began, live, cursor, age, bound, gcFaults>>

Remove ==
    /\ gc = "remove"
    /\ blobs' = blobs \ {target}
    /\ gc' = "sweep" /\ target' = None
    /\ UNCHANGED <<now, mtime, damaged, roots, attempt, began, live, cursor, seen, age, bound, gcFaults>>

Over ==
    /\ gc' = "idle" /\ began' = 0 /\ live' = {} /\ cursor' = 0
    /\ seen' = {} /\ age' = [d \in Digests |-> 0] /\ bound' = 0 /\ target' = None

GcEnd ==
    /\ gc = "sweep" /\ seen = {}
    /\ Over
    /\ UNCHANGED <<now, blobStore, roots, attempt, gcFaults>>

-----------------------------------------------------------------------------
(* The environment *)

(* The mark cannot be completed, or a removal is refused by the host. *)
GcFails ==
    /\ gc # "idle"
    /\ gcFaults < MaxGcFaults /\ gcFaults' = gcFaults + 1
    /\ Over
    /\ UNCHANGED <<now, blobStore, roots, attempt>>

(* The collector's process dies, with the attempts in it. *)
GcCrash ==
    /\ gcFaults < MaxGcFaults /\ gcFaults' = gcFaults + 1
    /\ Over
    /\ stage' = [w \in Writers |-> IF w \in Local THEN "done" ELSE stage[w]]
    /\ UNCHANGED <<now, blobStore, roots, digest, putAt>>

(* The bytes of a blob rot. *)
Rot(d) ==
    /\ d \in blobs \ damaged
    /\ gcFaults < MaxGcFaults /\ gcFaults' = gcFaults + 1
    /\ damaged' = damaged \cup {d}
    /\ UNCHANGED <<now, blobs, mtime, roots, attempt, collector>>

(* An attempt records its row within Attempt of the stamp on its blob, and a *)
(* collection reads the clock within Mark.                                   *)
Tick ==
    /\ now < MaxTime
    /\ \A w \in Writers : stage[w] \in {"rename", "put"} => now + 1 <= putAt[w] + Attempt
    /\ gc \in {"cache", "attempts", "inventory", "clock"} => now + 1 <= began + Mark
    /\ now' = now + 1
    /\ UNCHANGED <<blobStore, roots, attempt, collector, gcFaults>>

WriterStep(w) ==
    \/ Begin(w) \/ Verify(w) \/ Freshen(w) \/ WriteTemp(w) \/ Rename(w) \/ AttemptFails(w)
    \/ RecordAttempt(w) \/ CachePut(w) \/ Quarantine(w)

GcStep ==
    \/ GcBegin \/ MarkCache \/ MarkAttempts \/ Inventory \/ Clock \/ Sweep \/ Remove \/ GcEnd

GcNext ==
    \/ \E w \in Writers : WriterStep(w)
    \/ \E k \in Keys : EvictRow(k)
    \/ \E d \in Digests : Rot(d)
    \/ GcStep \/ GcFails \/ GcCrash \/ Tick

GcSpec == GcInit /\ [][GcNext]_gcVars

-----------------------------------------------------------------------------
(* A put that reported success holds until its attempt has recorded it,       *)
(* whatever the collector does meanwhile.                                     *)
PutHolds == \A w \in Writers : stage[w] = "put" => digest[w] \in blobs

(* Every blob that an attempt row or a cache row references is there, or its  *)
(* bytes had rotted, though rows are recorded and stripped of their evidence  *)
(* during a mark, pages are read one by one and collections stop anywhere.    *)
NoDangling == Roots \subseteq blobs \cup damaged
=============================================================================
