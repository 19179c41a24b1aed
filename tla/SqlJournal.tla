----------------------------- MODULE SqlJournal -----------------------------
(***************************************************************************)
(* The durable event journal (packages/journal/src/SqlJournal.ts) of one   *)
(* run, opened by several processes over one database.                     *)
(*                                                                         *)
(* db        the committed tables: rows of flows_journal_events, the       *)
(*           checkpoints not yet compacted to, the compaction floor        *)
(*           (NoFloor before the first compaction), and the holder of the  *)
(*           run's lease, which belongs to SqlConsensus                    *)
(* log       every entry ever committed, in commit order (an observer's    *)
(*           record: compaction does not shorten it)                       *)
(* proc[p]   the State object of the journal of process p but for its      *)
(* sourceEvents[p], the index of the events it knows, newest last          *)
(* txn[p]    the write transaction p has open, or its parked Settlements   *)
(* flush[p]  the flush callers of p: a user of the service, the finalizer  *)
(* reader[r] the stream r, in process Home[r]                              *)
(* setting   the member of Settings this behaviour is about                *)
(*                                                                         *)
(* A transaction reads the snapshot it began on.  One that wrote commits   *)
(* only if nothing else committed since; otherwise SQLITE_BUSY_SNAPSHOT    *)
(* makes DurableWriter replay its body.  In-process write transactions     *)
(* exclude one another.  PubSub is a fast path beside the one-second poll, *)
(* so a stream may read at any time.  The automatic compaction policy      *)
(* makes the calls Checkpoint, EmitDurable and Compact, which are free     *)
(* here: its counters only decide when.                                    *)
(***************************************************************************)
EXTENDS Integers, Sequences, FiniteSets, SequencesExt

CONSTANTS
    Procs, Readers, Sources,
    Home,            \* the process of each stream
    Ceiling,         \* no setting's MaxSafe is above it
    MaxEmits,        \* entries of one transaction
    MaxLosses,       \* bound on the batches a process may lose
    MaxStops,        \* bound on the crashes and closures
    Settings         \* how the journal is configured and who uses it

NoFloor == -1
Unnamed == -1
Callers == {"user", "finalizer"}

ASSUME JournalAssumption ==
    /\ Procs # {} /\ Home \in [Readers -> Procs]
    /\ {Ceiling, MaxEmits} \subseteq Nat \ {0}
    /\ {MaxLosses, MaxStops} \subseteq Nat
    /\ \A s \in Settings :
        /\ s.types \subseteq {"fold", "snap", "log"} /\ s.fenced \in BOOLEAN
        /\ s.overflow \in {"reject", "drop-newest", "drop-oldest"}
        /\ {s.capacity, s.batchSize, s.cacheSize} \subseteq Nat \ {0}
        /\ s.maxSafe \in 1 .. Ceiling /\ s.named \subseteq 0 .. s.maxSafe - 1
        /\ s.lossy \cup s.durable \cup s.stops \subseteq Procs

VARIABLES db, log, proc, sourceEvents, txn, flush, reader, stops, setting

vars == <<db, log, proc, sourceEvents, txn, flush, reader, stops, setting>>

Types == setting.types         \* event types of durable entries
Overflow == setting.overflow
Capacity == setting.capacity
BatchSize == setting.batchSize
CacheSize == setting.cacheSize
MaxSafe == setting.maxSafe     \* MAX_SAFE_INTEGER, the first sequence refused
Named == setting.named         \* the sourceSeqs producers name themselves, and so retry
Fenced == setting.fenced       \* durable appends pass an owner
Flushes == setting.flushes     \* flush is called
Compacts == setting.compacts   \* checkpoint and compact are called
Streams == setting.streams     \* the readers that open a stream

Seqs == 0 .. Ceiling - 1
Entry == [seq : Seqs, src : Sources, ss : Seqs, type : {"fold", "snap", "log"},
          channel : {"durable", "lossy"}]
Cached == [src : Sources, ss : Seqs, seq : Seqs, type : {"fold", "snap", "log"},
           status : {"pending", "committed"}]

Db == [rows : SUBSET Entry, checkpoints : SUBSET Seqs,
       floor : Seqs \cup {NoFloor}, holder : Procs]
Journal == [status : {"open", "closing", "closed", "down"},
            sequence : NoFloor .. Ceiling, sourceSequence : [Sources -> NoFloor .. Ceiling],
            queue : Seq(Entry), batch : Seq(Entry), persisted : BOOLEAN, pending : Int,
            lossEpoch : 0 .. MaxLosses, flushedLossEpoch : 0 .. MaxLosses]
Settlement == [entry : Entry, inserted : BOOLEAN, owner : BOOLEAN]
Txn == [st : {"none", "open", "settling"}, snap : Db, rows : SUBSET Entry,
        new : Seq(Entry), parked : Seq(Settlement)]
FlushCall == [st : {"idle", "waiting", "ok", "failed"}, covers : SUBSET Entry]
Reader == [st : {"off", "rows", "floor", "idle", "lost", "compacted"},
           cursor : Seqs \cup {NoFloor}, page : SUBSET Entry, more : BOOLEAN,
           epoch : 0 .. MaxLosses, got : SUBSET Seqs]

TypeOK ==
    /\ setting \in Settings
    /\ db \in Db
    /\ log \in Seq(Entry)
    /\ proc \in [Procs -> Journal]
    /\ txn \in [Procs -> Txn]
    /\ flush \in [Procs -> [Callers -> FlushCall]]
    /\ reader \in [Readers -> Reader]

Larger(a, b) == IF a >= b THEN a ELSE b
Last1(S) == IF S = {} THEN NoFloor ELSE CHOOSE n \in S : \A m \in S : m <= n

(***************************************************************************)
(* State of a journal that has just been opened: floors are read on first  *)
(* use, the index holds the newest committed rows.                         *)
(***************************************************************************)
Index(e, status) ==
    [src |-> e.src, ss |-> e.ss, seq |-> e.seq, type |-> e.type, status |-> status]

Newest(rows) ==
    LET seqs == {e.seq : e \in rows}
        newest == {n \in seqs : Cardinality({m \in seqs : m > n}) < CacheSize}
        Nth(k) == CHOOSE n \in newest : Cardinality({m \in newest : m < n}) = k - 1
    IN [k \in 1 .. Cardinality(newest) |->
            Index(CHOOSE e \in rows : e.seq = Nth(k), "committed")]

Opened ==
    [status |-> "open", sequence |-> NoFloor, sourceSequence |-> [s \in Sources |-> NoFloor],
     queue |-> <<>>, batch |-> <<>>, persisted |-> FALSE, pending |-> 0,
     lossEpoch |-> 0, flushedLossEpoch |-> 0]

Empty == [rows |-> {}, checkpoints |-> {}, floor |-> NoFloor, holder |-> CHOOSE p \in Procs : TRUE]
NoTxn == [st |-> "none", snap |-> Empty, rows |-> {}, new |-> <<>>, parked |-> <<>>]
Began == [st |-> "open", snap |-> db, rows |-> db.rows, new |-> <<>>, parked |-> <<>>]
Idle == [c \in Callers |-> [st |-> "idle", covers |-> {}]]
Stopped == [st |-> "off", cursor |-> NoFloor, page |-> {},
            more |-> FALSE, epoch |-> 0, got |-> {}]

Init ==
    /\ setting \in Settings
    /\ db = Empty
    /\ log = <<>>
    /\ proc = [p \in Procs |-> Opened]
    /\ sourceEvents = [p \in Procs |-> <<>>]
    /\ txn = [p \in Procs |-> NoTxn]
    /\ flush = [p \in Procs |-> Idle]
    /\ reader = [r \in Readers |-> Stopped]
    /\ stops = 0

(***************************************************************************)
(* The in-process index and floors                                         *)
(***************************************************************************)
SameEvent(a, b) == a.src = b.src /\ a.ss = b.ss

(* sourceEvents.delete of every identity of gone, in the order of the map.  *)
Without(index, gone) ==
    LET kept[k \in 0 .. Len(index)] ==
            IF k = 0 THEN <<>>
            ELSE IF \E e \in gone : SameEvent(index[k], e) THEN kept[k - 1]
            ELSE Append(kept[k - 1], index[k])
    IN kept[Len(index)]

\* Newest last; over the bound, the oldest committed other entry goes.
retain(index, e, status) ==
    LET kept == Append(Without(index, {e}), Index(e, status))
        old == {k \in 1 .. Len(kept) - 1 : kept[k].status = "committed"}
    IN IF Len(kept) <= CacheSize \/ old = {} THEN kept
       ELSE RemoveAt(kept, CHOOSE k \in old : \A j \in old : k <= j)

\* Mutant: the number of rows.
nextDurableCount(rows) == Cardinality(rows)
nextDurable(rows) == 1 + Last1({e.seq : e \in rows})
nextDurableSource(rows, s) == 1 + Last1({e.ss : e \in {f \in rows : f.src = s}})

raiseSequenceFloor(me, seq) == [me EXCEPT !.sequence = Larger(@, seq + 1)]
raiseSourceSequenceFloor(me, s, ss) ==
    [me EXCEPT !.sourceSequence[s] = Larger(@, ss + 1)]
raiseFloors(me, e) ==
    raiseSourceSequenceFloor(raiseSequenceFloor(me, e.seq), e.src, e.ss)

ensureFloors(me, s) ==
    IF me.sequence # NoFloor /\ me.sourceSequence[s] # NoFloor THEN me
    ELSE [me EXCEPT !.sequence = IF @ = NoFloor THEN nextDurable(db.rows) ELSE @,
                    !.sourceSequence[s] = Larger(@, nextDurableSource(db.rows, s))]

SourceSeqs == {Unnamed} \cup Named

(***************************************************************************)
(* The lossy channel: admission, the writer fiber, flush                   *)
(***************************************************************************)
Waiting(p) == {c \in Callers : flush[p][c].st = "waiting"}
completeFlushWaiters(p, st) ==
    flush' = [flush EXCEPT ![p] = [c \in Callers |->
                 IF c \in Waiting(p) THEN [flush[p][c] EXCEPT !.st = st] ELSE flush[p][c]]]

Outstanding(me) == {me.queue[k] : k \in DOMAIN me.queue}
                   \cup {me.batch[k] : k \in DOMAIN me.batch}

\* An entry evicted by drop-oldest is accounted for in the evictor's receipt.
forgive(p, old) ==
    flush' = [flush EXCEPT ![p] = [c \in Callers |->
                 [flush[p][c] EXCEPT !.covers = @ \ {old}]]]

emitLossy(p, s, given) ==
    LET me == ensureFloors(proc[p], s)
        ss == IF given = Unnamed THEN me.sourceSequence[s] ELSE given
        e == [seq |-> me.sequence, src |-> s, ss |-> ss, type |-> "log", channel |-> "lossy"]
        claimed == raiseFloors(me, e)
        full == Len(me.queue) >= Capacity
        known == sourceEvents[p]
    IN /\ proc[p].status = "open" /\ ss < MaxSafe
       /\ \/ /\ me.sequence >= MaxSafe \/ \E k \in DOMAIN known : SameEvent(known[k], e)
             /\ proc' = [proc EXCEPT ![p] = me] /\ UNCHANGED <<sourceEvents, flush>>
          \/ /\ me.sequence < MaxSafe /\ \A k \in DOMAIN known : ~SameEvent(known[k], e)
             /\ \/ /\ full /\ Overflow # "drop-oldest"
                   /\ proc' = [proc EXCEPT ![p] = claimed] /\ UNCHANGED <<sourceEvents, flush>>
                \/ /\ full /\ Overflow = "drop-oldest"
                   /\ proc' = [proc EXCEPT ![p] = [claimed EXCEPT !.queue = Append(Tail(@), e)]]
                   /\ sourceEvents' = [sourceEvents EXCEPT
                          ![p] = retain(Without(@, {Head(me.queue)}), e, "pending")]
                   /\ forgive(p, Head(me.queue))
                \/ /\ ~full
                   /\ proc' = [proc EXCEPT ![p] =
                          [claimed EXCEPT !.queue = Append(@, e), !.pending = @ + 1]]
                   /\ sourceEvents' = [sourceEvents EXCEPT ![p] = retain(@, e, "pending")]
                   /\ UNCHANGED flush
       /\ UNCHANGED <<setting, db, log, txn, reader, stops>>

takeBatch(p) ==
    LET me == proc[p]
        n == IF Len(me.queue) < BatchSize THEN Len(me.queue) ELSE BatchSize
    IN /\ me.status \in {"open", "closing"} /\ me.batch = <<>> /\ me.queue # <<>>
       /\ proc' = [proc EXCEPT ![p] = [me EXCEPT
              !.batch = SubSeq(me.queue, 1, n), !.queue = SubSeq(me.queue, n + 1, Len(me.queue))]]
       /\ UNCHANGED <<setting, sourceEvents, db, log, txn, flush, reader, stops>>

selectExisting(rows, e) == {f \in rows : SameEvent(f, e)}

\* idempotency_conflict, or sequence_conflict with another writer's row
Conflicts(rows, e) ==
    IF selectExisting(rows, e) # {}
    THEN \E f \in selectExisting(rows, e) : f.type # e.type
    ELSE \E f \in rows : f.seq = e.seq

\* persistBatch indexes what it committed, or the row it found in its place.
indexBatch(index, batch) ==
    LET Stored(e) == IF selectExisting(db.rows, e) = {} THEN e
                     ELSE CHOOSE f \in selectExisting(db.rows, e) : TRUE
        indexed[k \in 0 .. Len(batch)] ==
            IF k = 0 THEN index ELSE retain(indexed[k - 1], Stored(batch[k]), "committed")
    IN indexed[Len(batch)]

\* One transaction for the batch: all of it commits, or none does, and at
\* once, so that the order of its entries in log says nothing.
persistBatch(p) ==
    LET me == proc[p]
        fresh == {e \in ToSet(me.batch) : selectExisting(db.rows, e) = {}}
    IN /\ me.batch # <<>> /\ ~me.persisted /\ txn[p].st # "open"
       /\ \A k \in DOMAIN me.batch : ~Conflicts(db.rows, me.batch[k])
       /\ db' = [db EXCEPT !.rows = @ \cup fresh]
       /\ log' = log \o SetToSeq(fresh)
       /\ proc' = [proc EXCEPT ![p] = [me EXCEPT !.persisted = TRUE]]
       /\ sourceEvents' = [sourceEvents EXCEPT ![p] = indexBatch(@, me.batch)]
       /\ UNCHANGED <<setting, txn, flush, reader, stops>>

settle(p) ==
    LET me == proc[p]
        left == me.pending - Len(me.batch)
    IN /\ me.persisted
       /\ proc' = [proc EXCEPT ![p] = [me EXCEPT
              !.pending = left, !.batch = <<>>, !.persisted = FALSE]]
       /\ IF left = 0 THEN completeFlushWaiters(p, "ok") ELSE UNCHANGED flush
       /\ UNCHANGED <<setting, sourceEvents, db, log, txn, reader, stops>>

\* Mutants: a lost batch takes the whole pending set with it, or stays in it.
failSinkAll(p) ==
    LET me == proc[p]
    IN /\ me.batch # <<>> /\ ~me.persisted /\ txn[p].st # "open"
       /\ me.lossEpoch < MaxLosses
       /\ sourceEvents' = [sourceEvents EXCEPT ![p] = Without(@, ToSet(me.batch))]
       /\ proc' = [proc EXCEPT ![p] = [me EXCEPT
              !.lossEpoch = @ + 1, !.pending = 0, !.batch = <<>>,
              !.flushedLossEpoch = IF Waiting(p) # {} THEN me.lossEpoch + 1 ELSE @]]
       /\ completeFlushWaiters(p, "failed")
       /\ UNCHANGED <<setting, db, log, txn, reader, stops>>

failSinkKeepsPending(p) ==
    LET me == proc[p]
    IN /\ me.batch # <<>> /\ ~me.persisted /\ txn[p].st # "open"
       /\ me.lossEpoch < MaxLosses
       /\ sourceEvents' = [sourceEvents EXCEPT ![p] = Without(@, ToSet(me.batch))]
       /\ proc' = [proc EXCEPT ![p] = [me EXCEPT
              !.lossEpoch = @ + 1, !.batch = <<>>,
              !.flushedLossEpoch = IF Waiting(p) # {} THEN me.lossEpoch + 1 ELSE @]]
       /\ completeFlushWaiters(p, "failed")
       /\ UNCHANGED <<setting, db, log, txn, reader, stops>>

\* The batch conflicts, or the database fails (at most MaxLosses times).
failSink(p) ==
    LET me == proc[p]
    IN /\ me.batch # <<>> /\ ~me.persisted /\ txn[p].st # "open"
       /\ me.lossEpoch < MaxLosses
       /\ sourceEvents' = [sourceEvents EXCEPT ![p] = Without(@, ToSet(me.batch))]
       /\ proc' = [proc EXCEPT ![p] = [me EXCEPT
              !.lossEpoch = @ + 1, !.pending = @ - Len(me.batch), !.batch = <<>>,
              !.flushedLossEpoch = IF Waiting(p) # {} THEN me.lossEpoch + 1 ELSE @]]
       /\ completeFlushWaiters(p, "failed")
       /\ UNCHANGED <<setting, db, log, txn, reader, stops>>

\* A call of flush: the loss nobody has heard of, the closed journal,
\* nothing outstanding, or a wait.
flushInternal(p, c, me) ==
    LET Result(st) == flush' = [flush EXCEPT ![p][c] = [st |-> st, covers |-> Outstanding(me)]]
    IN CASE me.lossEpoch > me.flushedLossEpoch ->
            Result("failed") /\ proc' = [proc EXCEPT ![p] = [me EXCEPT !.flushedLossEpoch = me.lossEpoch]]
         [] me.lossEpoch = me.flushedLossEpoch /\ me.status = "closed" ->
            Result("failed") /\ proc' = [proc EXCEPT ![p] = me]
         [] OTHER -> /\ Result(IF me.pending = 0 THEN "ok" ELSE "waiting")
                     /\ proc' = [proc EXCEPT ![p] = me]

Flush(p) ==
    /\ Flushes /\ proc[p].status # "down" /\ flush[p]["user"].st = "idle"
    /\ flushInternal(p, "user", proc[p])
    /\ UNCHANGED <<setting, sourceEvents, db, log, txn, reader, stops>>

FlushReturns(p) ==
    /\ flush[p]["user"].st \in {"ok", "failed"}
    /\ flush' = [flush EXCEPT ![p]["user"] = [st |-> "idle", covers |-> {}]]
    /\ UNCHANGED <<setting, sourceEvents, db, log, proc, txn, reader, stops>>

(***************************************************************************)
(* The durable channel: transact, emitDurable, commit, settlement          *)
(***************************************************************************)
transact(p) ==
    /\ txn[p].st = "none" /\ proc[p].status = "open"
    /\ txn' = [txn EXCEPT ![p] = Began]
    /\ UNCHANGED <<setting, sourceEvents, db, log, proc, flush, reader, stops>>

Abort(p) == txn' = [txn EXCEPT ![p] = NoTxn]

\* What insertOne leaves for the commit: the entry, and whether it is new.
Park(p, f, inserted, owner) ==
    LET me == txn[p]
    IN txn' = [txn EXCEPT ![p] = [me EXCEPT
           !.parked = Append(@, [entry |-> f, inserted |-> inserted, owner |-> owner]),
           !.rows = @ \cup {f}, !.new = IF inserted THEN Append(@, f) ELSE @]]

\* Mutant: a resubmission is answered from the rows before the fence is asked.
insertOneDedupFirst(p, e, owner) ==
    LET dup == selectExisting(txn[p].rows, e)
    IN CASE dup # {} -> IF Conflicts(txn[p].rows, e) THEN Abort(p)
                        ELSE \E f \in dup : Park(p, f, FALSE, owner)
         [] dup = {} /\ owner /\ txn[p].snap.holder # p -> Abort(p)
         [] OTHER -> Park(p, e, TRUE, owner)

\* The owner fence outranks dedup; a refused or conflicting append fails the
\* body.  The sequence is above every row of the snapshot, so the insert
\* cannot meet another writer's sequence.
insertOne(p, e, owner) ==
    LET dup == selectExisting(txn[p].rows, e)
    IN CASE owner /\ txn[p].snap.holder # p -> Abort(p)
         [] (owner => txn[p].snap.holder = p) /\ dup # {} ->
            IF Conflicts(txn[p].rows, e) THEN Abort(p)
            ELSE \E f \in dup : Park(p, f, FALSE, owner)
         [] OTHER -> Park(p, e, TRUE, owner)

\* Mutant: the entry is indexed when it is inserted, not when it commits.
emitDurableIndexes(p, s, given, type, owner) ==
    LET me == proc[p]
        ss == IF given = Unnamed
              THEN Larger(nextDurableSource(txn[p].rows, s), me.sourceSequence[s]) ELSE given
        e == [seq |-> Larger(nextDurable(txn[p].rows), me.sequence), src |-> s, ss |-> ss,
              type |-> type, channel |-> "durable"]
    IN /\ txn[p].st = "open" /\ me.status = "open" /\ Len(txn[p].parked) < MaxEmits
       /\ e.seq < MaxSafe /\ ss < MaxSafe
       /\ proc' = [proc EXCEPT ![p] = raiseFloors(me, e)]
       /\ sourceEvents' = [sourceEvents EXCEPT ![p] = retain(@, e, "committed")]
       /\ insertOne(p, e, owner)
       /\ UNCHANGED <<setting, db, log, flush, reader, stops>>

emitDurable(p, s, given, type, owner) ==
    LET me == proc[p]
        ss == IF given = Unnamed
              THEN Larger(nextDurableSource(txn[p].rows, s), me.sourceSequence[s]) ELSE given
        e == [seq |-> Larger(nextDurable(txn[p].rows), me.sequence), src |-> s, ss |-> ss,
              type |-> type, channel |-> "durable"]
    IN /\ txn[p].st = "open" /\ me.status = "open" /\ Len(txn[p].parked) < MaxEmits
       /\ e.seq < MaxSafe /\ ss < MaxSafe
       /\ proc' = [proc EXCEPT ![p] = raiseFloors(me, e)]
       /\ insertOne(p, e, owner)
       /\ UNCHANGED <<setting, db, log, sourceEvents, flush, reader, stops>>

\* A transaction that wrote commits only on the state it began on.
commit(p) ==
    /\ txn[p].st = "open" /\ txn[p].parked # <<>>
    /\ txn[p].new # <<>> => db = txn[p].snap
    /\ db' = IF txn[p].new # <<>> THEN [db EXCEPT !.rows = txn[p].rows] ELSE db
    /\ log' = log \o txn[p].new
    /\ txn' = [txn EXCEPT ![p] = [NoTxn EXCEPT !.st = "settling", !.parked = txn[p].parked]]
    /\ UNCHANGED <<setting, proc, sourceEvents, flush, reader, stops>>

\* SQLITE_BUSY_SNAPSHOT: the body runs again, on the committed state.
replay(p) ==
    /\ txn[p].st = "open" /\ txn[p].new # <<>> /\ db # txn[p].snap
    /\ txn' = [txn EXCEPT ![p] = Began]
    /\ UNCHANGED <<setting, sourceEvents, db, log, proc, flush, reader, stops>>

rollback(p) ==
    /\ txn[p].st = "open"
    /\ Abort(p)
    /\ UNCHANGED <<setting, sourceEvents, db, log, proc, flush, reader, stops>>

settleCommit(p) ==
    LET e == Head(txn[p].parked).entry
        rest == Tail(txn[p].parked)
    IN /\ txn[p].st = "settling"
       /\ sourceEvents' = [sourceEvents EXCEPT ![p] = retain(@, e, "committed")]
       /\ proc' = [proc EXCEPT ![p] = raiseFloors(proc[p], e)]
       /\ txn' = [txn EXCEPT ![p] = IF rest = <<>> THEN NoTxn ELSE [txn[p] EXCEPT !.parked = rest]]
       /\ UNCHANGED <<setting, db, log, flush, reader, stops>>

(***************************************************************************)
(* Checkpoints and compaction                                              *)
(***************************************************************************)
checkpoint(p, seq) ==
    /\ Compacts /\ proc[p].status # "down" /\ txn[p].st # "open"
    /\ seq \in {e.seq : e \in db.rows} /\ seq > db.floor
    /\ db' = [db EXCEPT !.checkpoints = @ \cup {seq}]
    /\ UNCHANGED <<setting, sourceEvents, log, proc, txn, flush, reader, stops>>

Registered(p) == {r \in Readers : Home[r] = p /\ reader[r].st \in {"rows", "floor", "idle"}}
ReaderBehind(p, seq) == \E r \in Registered(p) : reader[r].cursor < seq - 1

\* Mutant: snapshots are not themselves history of the fold.
FoldBehindSnapshots(seq) ==
    /\ \E e \in db.rows : e.seq < seq /\ e.type = "fold"
    /\ ~ \E e \in db.rows : e.seq >= seq /\ e.type = "snap"

FoldBehind(seq) ==
    /\ \E e \in db.rows : e.seq < seq /\ e.type \in {"fold", "snap"}
    /\ ~ \E e \in db.rows : e.seq >= seq /\ e.type = "snap"

compact(p, seq) ==
    /\ proc[p].status # "down" /\ txn[p].st # "open"
    /\ seq \in db.checkpoints
    /\ ~ReaderBehind(p, seq) /\ ~FoldBehind(seq)
    /\ db' = [db EXCEPT !.rows = {e \in @ : e.seq >= seq},
                        !.checkpoints = {c \in @ : c > seq}, !.floor = seq]
    /\ UNCHANGED <<setting, sourceEvents, log, proc, txn, flush, reader, stops>>

(***************************************************************************)
(* Streams                                                                 *)
(***************************************************************************)
\* From the beginning: afterSequence is absent.
stream(r) ==
    /\ r \in Streams /\ reader[r].st = "off" /\ proc[Home[r]].status = "open"
    /\ reader' = [reader EXCEPT ![r] = [Stopped EXCEPT
           !.st = "rows", !.epoch = proc[Home[r]].lossEpoch]]
    /\ UNCHANGED <<setting, sourceEvents, db, log, proc, txn, flush, stops>>

\* readAvailable: the loss check, then the rows of a page ...
readRows(r) ==
    LET me == reader[r]
        ahead == {e \in db.rows : e.seq > me.cursor}
        page == {e \in ahead : Cardinality({f \in ahead : f.seq < e.seq}) < BatchSize}
    IN /\ me.st \in {"rows", "idle"} /\ proc[Home[r]].status = "open"
       /\ reader' = IF proc[Home[r]].lossEpoch > me.epoch
                    THEN [reader EXCEPT ![r].st = "lost"]
                    ELSE [reader EXCEPT ![r].st = "floor", ![r].page = page,
                                        ![r].more = ahead # page]
       /\ UNCHANGED <<setting, sourceEvents, db, log, proc, txn, flush, stops>>

\* Mutant: one sequence too few.
readFloorLoose(r) ==
    LET me == reader[r]
    IN /\ me.st = "floor"
       /\ reader' = [reader EXCEPT ![r] =
              IF me.cursor < db.floor - 2
              THEN [me EXCEPT !.st = "compacted", !.page = {}]
              ELSE [me EXCEPT !.st = IF me.more THEN "rows" ELSE "idle",
                              !.cursor = Larger(@, Last1({e.seq : e \in me.page})),
                              !.got = @ \cup {e.seq : e \in me.page}, !.page = {}]]
       /\ UNCHANGED <<setting, sourceEvents, db, log, proc, txn, flush, stops>>

\* ... and after them the compaction floor.
readFloor(r) ==
    LET me == reader[r]
    IN /\ me.st = "floor"
       /\ reader' = [reader EXCEPT ![r] =
              IF me.cursor < db.floor - 1
              THEN [me EXCEPT !.st = "compacted", !.page = {}]
              ELSE [me EXCEPT !.st = IF me.more THEN "rows" ELSE "idle",
                              !.cursor = Larger(@, Last1({e.seq : e \in me.page})),
                              !.got = @ \cup {e.seq : e \in me.page}, !.page = {}]]
       /\ UNCHANGED <<setting, sourceEvents, db, log, proc, txn, flush, stops>>

(***************************************************************************)
(* The lease moves; a process closes its journal, dies, and opens it again *)
(***************************************************************************)
steal(p) ==
    /\ Fenced /\ db.holder # p
    /\ db' = [db EXCEPT !.holder = p]
    /\ UNCHANGED <<setting, sourceEvents, log, proc, txn, flush, reader, stops>>

Cut(p) == reader' = [r \in Readers |-> IF Home[r] = p THEN Stopped ELSE reader[r]]

close(p) ==
    /\ proc[p].status = "open" /\ txn[p].st = "none" /\ p \in setting.stops /\ stops < MaxStops
    /\ stops' = stops + 1
    /\ flushInternal(p, "finalizer", [proc[p] EXCEPT !.status = "closing"])
    /\ Cut(p)
    /\ UNCHANGED <<setting, sourceEvents, db, log, txn>>

\* The queue is shut down and the writer fiber interrupted.
closed(p) ==
    /\ proc[p].status = "closing" /\ flush[p]["finalizer"].st \in {"ok", "failed"}
    /\ proc' = [proc EXCEPT ![p] = [proc[p] EXCEPT
           !.status = "closed", !.queue = <<>>, !.batch = <<>>, !.persisted = FALSE]]
    /\ flush' = [flush EXCEPT ![p]["finalizer"] = [st |-> "idle", covers |-> {}]]
    /\ UNCHANGED <<setting, sourceEvents, db, log, txn, reader, stops>>

crash(p) ==
    /\ proc[p].status # "down" /\ p \in setting.stops /\ stops < MaxStops
    /\ stops' = stops + 1
    /\ proc' = [proc EXCEPT ![p] = [Opened EXCEPT !.status = "down"]]
    /\ sourceEvents' = [sourceEvents EXCEPT ![p] = <<>>]
    /\ Abort(p) /\ Cut(p)
    /\ flush' = [flush EXCEPT ![p] = Idle]
    /\ UNCHANGED <<setting, db, log>>

open(p) ==
    /\ proc[p].status \in {"closed", "down"} /\ \A c \in Callers : flush[p][c].st = "idle"
    /\ proc' = [proc EXCEPT ![p] = Opened]
    /\ sourceEvents' = [sourceEvents EXCEPT ![p] = Newest(db.rows)]
    /\ UNCHANGED <<setting, db, log, txn, flush, reader, stops>>

Writer(p) == takeBatch(p) \/ persistBatch(p) \/ settle(p) \/ failSink(p)

Next ==
    \/ \E p \in setting.lossy, s \in Sources, given \in SourceSeqs : emitLossy(p, s, given)
    \/ \E p \in setting.durable, s \in Sources, given \in SourceSeqs, type \in Types :
        emitDurable(p, s, given, type, Fenced)
    \/ \E p \in setting.durable : transact(p)
    \/ \E p \in Procs :
        \/ Writer(p) \/ Flush(p) \/ FlushReturns(p)
        \/ commit(p) \/ replay(p) \/ rollback(p) \/ settleCommit(p)
        \/ \E seq \in Seqs : checkpoint(p, seq) \/ compact(p, seq)
        \/ steal(p) \/ close(p) \/ closed(p) \/ crash(p) \/ open(p)
    \/ \E r \in Readers :
        \/ stream(r) \/ readRows(r) \/ readFloor(r)

\* The writer fiber goes on, a transaction body ends, and the
\* first-come-first-served connection lets the writer in between two of them.
Fairness ==
    \A p \in Procs :
        /\ WF_vars(takeBatch(p)) /\ WF_vars(settle(p))
        /\ SF_vars(persistBatch(p) \/ failSink(p))
        /\ WF_vars(commit(p) \/ replay(p) \/ rollback(p)) /\ WF_vars(settleCommit(p))

Spec == Init /\ [][Next]_vars /\ Fairness

(***************************************************************************)
(* Safety                                                                  *)
(***************************************************************************)
\* emitDurable claims MAX(seq) + 1 or the in-process floor inside its
\* transaction: whatever lossy entries, rolled-back bodies, restarts and
\* compactions do, a durable entry is above everything committed before it.
DurableAscends ==
    \A k \in DOMAIN log : log[k].channel = "durable" => \A j \in 1 .. k - 1 : log[j].seq < log[k].seq

Following == {"rows", "floor", "idle"}
Delivered(r) ==
    reader[r].st \in Following =>
        \A k \in DOMAIN log :
            (log[k].channel = "durable" /\ log[k].seq <= reader[r].cursor)
                => log[k].seq \in reader[r].got

\* A stream that has not failed has delivered every durable entry up to
\* its cursor, compaction by any process included: the page is
\* read before the floor, and the floor moves with the truncation.
DurableDelivered == \A r \in Readers : Delivered(r)

\* Compaction never trades away rebuildability: a fold entry that is gone is
\* covered by a snapshot that is still there and committed after it.
FoldKept ==
    \A k \in DOMAIN log :
        log[k].type = "fold" /\ log[k] \notin db.rows =>
            \E j \in k + 1 .. Len(log) : log[j].type = "snap" /\ log[j] \in db.rows

\* The index never calls an event committed that is not: nothing that rolled
\* back, was lost or was evicted is remembered, so its identity can be retried.
IndexTruthful ==
    \A p \in {q \in Procs : proc[q].status # "closed"} : \A k \in DOMAIN sourceEvents[p] :
        LET c == sourceEvents[p][k]
        IN IF c.status = "committed"
           THEN \E j \in DOMAIN log : SameEvent(log[j], c) /\ log[j].seq = c.seq
           ELSE \E e \in Outstanding(proc[p]) : SameEvent(e, c)

Committed(e) == \E k \in DOMAIN log : SameEvent(log[k], e)
Vouches(p, c) == flush[p][c].st = "ok" => \A e \in flush[p][c].covers : Committed(e)

\* A flush that succeeds vouches for every entry that was outstanding when it
\* was called: each is committed, though batches behind or before it were lost.
FlushVouches == \A p \in Procs, c \in Callers : Vouches(p, c)

\* A fenced append commits only while the lease names its writer (rule R3):
\* guard and insert share the transaction, and a lease that moved makes the
\* body run again.  A displaced owner gets no duplicate receipt either.
FenceHeld ==
    [][\A p \in Procs : txn[p].st = "open" /\ txn'[p].st = "settling" =>
          \A k \in DOMAIN txn[p].parked : txn[p].parked[k].owner =>
              /\ txn[p].snap.holder = p
              /\ txn[p].parked[k].inserted => db.holder = p]_vars

(***************************************************************************)
(* The inductive invariant                                                 *)
(***************************************************************************)
Above(x, rows) == \A e \in rows : e.seq < x
IsLossy(e) == e.channel = "lossy" /\ e.type = "log"

\* Rows are committed entries; only compaction removes one, below the floor,
\* and never the newest or one a checkpoint names.
RowsKept ==
    /\ IsFiniteSet(db.rows)
    /\ \A e \in db.rows : \E k \in DOMAIN log : log[k] = e
    /\ \A k \in DOMAIN log : log[k] \in db.rows \/ log[k].seq < db.floor
    /\ \A k \in DOMAIN log : \E e \in db.rows : log[k].seq <= e.seq
    /\ \A c \in db.checkpoints : c > db.floor /\ \E e \in db.rows : e.seq = c

\* Whatever a projection folds went through the durable channel.
Channels == \A k \in DOMAIN log : log[k].channel = "durable" \/ IsLossy(log[k])

\* An open transaction sees the rows it began on and its own, which ascend
\* from them; what it appended as owner, it appended while it held the lease.
TxnInv(p) ==
    /\ txn[p].st = "settling" => txn[p].parked # <<>>
    /\ txn[p].st = "open" =>
        /\ IsFiniteSet(txn[p].rows)
        /\ txn[p].rows = txn[p].snap.rows \cup ToSet(txn[p].new)
        /\ \A k \in DOMAIN txn[p].new :
            /\ txn[p].new[k].channel = "durable"
            /\ Above(txn[p].new[k].seq, txn[p].snap.rows)
            /\ \A j \in 1 .. k - 1 : txn[p].new[j].seq < txn[p].new[k].seq
        /\ \A k \in DOMAIN txn[p].parked :
            /\ txn[p].parked[k].inserted => txn[p].new # <<>>
            /\ txn[p].parked[k].owner => txn[p].snap.holder = p

\* The queue and the batch are lossy; pending counts them until the journal
\* is closed; a persisted batch is committed.
QueueInv(me) ==
    /\ \A e \in Outstanding(me) : IsLossy(e)
    /\ IF me.status \in {"open", "closing"}
       THEN /\ me.pending = Len(me.queue) + Len(me.batch)
            /\ me.persisted => me.batch # <<>> /\ \A e \in ToSet(me.batch) : Committed(e)
       ELSE me.queue = <<>> /\ me.batch = <<>> /\ ~me.persisted

\* A flush that waits waits for what is still outstanding or is committed.
WaitsFor(p, c) ==
    (flush[p][c].st = "waiting" /\ proc[p].status \in {"open", "closing"}) =>
        \A e \in flush[p][c].covers : e \in Outstanding(proc[p]) \/ Committed(e)

FlushInv(p) == QueueInv(proc[p]) /\ \A c \in Callers : WaitsFor(p, c) /\ Vouches(p, c)

\* A cursor is not ahead of the journal.  A page that was read has every
\* durable entry up to its last one, but for what was compacted since.
ReaderInv(r) ==
    reader[r].st \in Following =>
        /\ reader[r].cursor # NoFloor => \E k \in DOMAIN log : reader[r].cursor <= log[k].seq
        /\ reader[r].st = "floor" => \A e \in reader[r].page :
            /\ \E k \in DOMAIN log : log[k] = e
            /\ \A k \in DOMAIN log :
                (log[k].channel = "durable" /\ reader[r].cursor < log[k].seq /\ log[k].seq <= e.seq)
                    => (\E f \in reader[r].page : f.seq = log[k].seq) \/ log[k].seq < db.floor

StoreInv == RowsKept /\ Channels /\ DurableAscends /\ FoldKept

IInv ==
    /\ TypeOK /\ StoreInv
    /\ \A p \in Procs : TxnInv(p) /\ FlushInv(p)
    /\ \A r \in Readers : Delivered(r) /\ ReaderInv(r)

(***************************************************************************)
(* Liveness                                                                *)
(***************************************************************************)
\* A flush that waits returns, once producers pause, whatever batches are
\* lost meanwhile: no waiter outlives the pending set, while the journal is
\* not closed under it.
FlushEnds ==
    \A p \in Procs :
        flush[p]["user"].st = "waiting"
        ~> (flush[p]["user"].st # "waiting" \/ proc[p].status = "closed")
===============================================================================
