-------------------------- MODULE SqlJournalProofs --------------------------
(***************************************************************************)
(* Theorems of SqlJournal: IInv is inductive, and DurableAscends,          *)
(* DurableDelivered, FoldKept, FlushVouches and FenceHeld follow from it,  *)
(* and IndexTruthful from it and IndexInv, for any set of processes,       *)
(* streams and sources, any journal length up to MAX_SAFE_INTEGER, any     *)
(* queue capacity, batch size and overflow policy.                         *)
(*                                                                         *)
(* The order of the proof: finite sets of sequences and what a sequence    *)
(* contains; the store, which only grows at its end (Appends) or is        *)
(* compacted; the streams, which survive both; then one lemma for each     *)
(* action, those of one journal through Vetted, those of one transaction   *)
(* through Proper, those that commit through AppendStep.                   *)
(*                                                                         *)
(* IndexTruthful rests on what Without and indexBatch compute by recursion *)
(* on a sequence. The induction theorems of the library take an operator,  *)
(* which no installed prover instantiates, so Counting states induction    *)
(* with a set, Iterated that such a recursion has a value, and Deleted and *)
(* Remembered what the two compute. FlushEnds is liveness and stays with   *)
(* TLC.                                                                    *)
(***************************************************************************)
EXTENDS SqlJournal, FiniteSetTheorems, SequenceTheorems, WellFoundedInduction, TLAPS

(* A set of numbers has a smallest one.                                   *)
LEMMA Least ==
  ASSUME NEW S \in SUBSET Nat, S # {}
  PROVE  \E n \in S : \A m \in S : n <= m
  <1>1. PICK x \in S : \A y \in S : ~ (<<y, x>> \in OpToRel(<, Nat))
    BY NatLessThanWellFounded, WFMin
  <1>2. ASSUME NEW y \in S PROVE x <= y
    <2>1. x \in Nat /\ y \in Nat
      OBVIOUS
    <2>2. y < x => <<y, x>> \in OpToRel(<, Nat)
      BY <2>1 DEF OpToRel
    <2>3. ~(y < x)
      BY <1>1, <2>2, Zenon
    <2> QED
      BY <2>1, <2>3
  <1> QED
    BY <1>2

(* A set of sequences has a largest one: they are bounded.                 *)
LEMMA SequenceMax ==
  ASSUME NEW S \in SUBSET Seqs, S # {}
  PROVE  \E n \in S : \A m \in S : m <= n
  <1> DEFINE T == {Ceiling - n : n \in S}
  <1>0. Ceiling \in Nat
    BY JournalAssumption
  <1>1. T \subseteq Nat /\ T # {} /\ S \subseteq Int
    BY <1>0 DEF Seqs
  <1>3. PICK x \in T : \A y \in T : x <= y
    BY <1>1, Least
  <1>4. PICK n \in S : x = Ceiling - n
    OBVIOUS
  <1>5. ASSUME NEW m \in S PROVE m <= n
    <2>1. x <= Ceiling - m
      BY <1>3
    <2> QED
      BY <1>0, <1>1, <1>4, <2>1
  <1> QED
    BY <1>5

(* MAX(seq), or NoFloor for no row.                                        *)
LEMMA LastIsMax ==
  ASSUME NEW S \in SUBSET Seqs
  PROVE  /\ Last1(S) \in Seqs \cup {NoFloor}
         /\ \A m \in S : m <= Last1(S)
         /\ S # {} => Last1(S) \in S
  BY SequenceMax DEF Last1

(* The sequence made of a finite set has the members of the set.           *)
LEMMA ToSequence ==
  ASSUME NEW S, IsFiniteSet(S)
  PROVE  /\ SetToSeq(S) \in Seq(S)
         /\ ToSet(SetToSeq(S)) = S
  <1> DEFINE n == Cardinality(S)
  <1>1. n \in Nat /\ ExistsBijection(1 .. n, S)
    BY FS_CardinalityType
  <1>2. \E f \in [1 .. n -> S] : IsInjective(f)
    BY <1>1 DEF ExistsBijection, Bijection, Injection, IsInjective
  <1>3. SetToSeq(S) \in [1 .. n -> S] /\ IsInjective(SetToSeq(S))
    BY <1>2 DEF SetToSeq
  <1> DEFINE q == SetToSeq(S)
  <1> HIDE DEF q
  <1>4. q \in Injection(1 .. n, S)
    BY <1>3 DEF q, Injection, IsInjective
  <1>5. IsFiniteSet(1 .. n) /\ Cardinality(1 .. n) = n
    BY <1>1, FS_Interval
  <1>6. q \in Surjection(1 .. n, S)
    BY <1>4, <1>5, FS_Injection
  <1> QED
    BY <1>1, <1>3, <1>6 DEF q, Surjection, ToSet

(* What the entries, the numbers and the settings are.                     *)
LEMMA EntryFacts ==
  /\ Ceiling \in Nat /\ Ceiling > 0
  /\ Seqs \subseteq Nat /\ NoFloor \in Int /\ NoFloor = -1
  /\ \A n \in Seqs \cup {NoFloor} : n \in Int
  /\ \A e \in Entry : e.seq \in Seqs /\ e.seq \in Int
  BY JournalAssumption DEF Seqs, NoFloor, Entry

(* What a setting allows.                                                  *)
LEMMA SettingFacts ==
  ASSUME TypeOK
  PROVE  /\ MaxSafe \in Nat /\ MaxSafe <= Ceiling
         /\ Named \subseteq Seqs
         /\ Capacity \in Nat /\ Capacity > 0 /\ BatchSize \in Nat /\ BatchSize > 0
         /\ Types \subseteq {"fold", "snap", "log"}
         /\ setting.lossy \subseteq Procs /\ setting.durable \subseteq Procs /\ Fenced \in BOOLEAN
  <1>1. setting \in Settings /\ Ceiling \in Nat
    BY JournalAssumption DEF TypeOK
  <1>2. /\ setting.types \subseteq {"fold", "snap", "log"} /\ setting.fenced \in BOOLEAN
        /\ {setting.capacity, setting.batchSize, setting.cacheSize} \subseteq Nat \ {0}
        /\ setting.maxSafe \in 1 .. Ceiling /\ setting.named \subseteq 0 .. setting.maxSafe - 1
        /\ setting.lossy \cup setting.durable \cup setting.stops \subseteq Procs
    BY <1>1, JournalAssumption
  <1> QED
    BY <1>1, <1>2 DEF MaxSafe, Named, Capacity, BatchSize, Types, Fenced, Seqs

(* The entries of a sequence to which another one is appended.             *)
LEMMA Extended ==
  ASSUME NEW E, NEW s \in Seq(E), NEW t \in Seq(E)
  PROVE  /\ s \o t \in Seq(E)
         /\ DOMAIN s = 1 .. Len(s) /\ DOMAIN t = 1 .. Len(t) /\ Len(s) \in Nat /\ Len(t) \in Nat
         /\ Len(s \o t) = Len(s) + Len(t) /\ DOMAIN (s \o t) = 1 .. Len(s) + Len(t)
         /\ \A k \in DOMAIN s : k \in DOMAIN (s \o t) /\ (s \o t)[k] = s[k]
         /\ \A j \in DOMAIN t : Len(s) + j \in DOMAIN (s \o t) /\ (s \o t)[Len(s) + j] = t[j]
         /\ \A k \in DOMAIN (s \o t) :
               k \in DOMAIN s \/ (k > Len(s) /\ k - Len(s) \in DOMAIN t /\ (s \o t)[k] = t[k - Len(s)])
  <1> DEFINE u == s \o t
  <1>1. /\ u \in Seq(E) /\ Len(u) = Len(s) + Len(t)
        /\ \A i \in 1 .. Len(s) + Len(t) : u[i] = IF i <= Len(s) THEN s[i] ELSE t[i - Len(s)]
    BY ConcatProperties
  <1>2. /\ DOMAIN s = 1 .. Len(s) /\ DOMAIN t = 1 .. Len(t) /\ DOMAIN u = 1 .. Len(u)
        /\ Len(s) \in Nat /\ Len(t) \in Nat
    BY <1>1, LenProperties
  <1> HIDE DEF u
  <1> QED
    BY <1>1, <1>2 DEF u

---------------------------------------------------------------------------
(* The store                                                               *)

(* What a transaction commits: its entries go to the end of the log and    *)
(* into the rows.                                                          *)
Appends(x) ==
    /\ x \in Seq(Entry) /\ IsFiniteSet(ToSet(x))
    /\ log' = log \o x
    /\ db' = [db EXCEPT !.rows = @ \cup ToSet(x)]

(* They are a durable transaction's, which ascend from the rows, or a      *)
(* batch of lossy ones.                                                    *)
Ascending(x) ==
    \A k \in DOMAIN x : /\ x[k].channel = "durable" /\ Above(x[k].seq, db.rows)
                        /\ \A j \in 1 .. k - 1 : x[j].seq < x[k].seq
Lossy(x) == \A k \in DOMAIN x : IsLossy(x[k])

(* A new entry that is durable is above all that is committed.             *)
LEMMA AppendedAbove ==
  ASSUME TypeOK, RowsKept, NEW x, Appends(x), Ascending(x) \/ Lossy(x),
         NEW k \in DOMAIN x, x[k].channel = "durable", NEW j \in DOMAIN log
  PROVE  log[j].seq < x[k].seq
  <1>1. Above(x[k].seq, db.rows)
    BY DEF Ascending, Lossy, IsLossy
  <1>2. PICK e \in db.rows : log[j].seq <= e.seq
    BY DEF RowsKept
  <1>3. e \in Entry /\ log[j] \in Entry /\ x[k] \in Entry
    BY DEF TypeOK, Db, Appends
  <1>4. e.seq \in Nat /\ log[j].seq \in Nat /\ x[k].seq \in Nat
    BY <1>3, EntryFacts
  <1> QED
    BY <1>1, <1>2, <1>4 DEF Above

(* A commit at the end of the log keeps the store.                         *)
LEMMA AppendStore ==
  ASSUME TypeOK, StoreInv, NEW x, Appends(x), Ascending(x) \/ Lossy(x)
  PROVE  StoreInv'
  <1>1. /\ log \in Seq(Entry) /\ x \in Seq(Entry) /\ log' = log \o x /\ db \in Db
        /\ \A k \in DOMAIN x : x[k] \in Entry /\ x[k].seq \in Nat
        /\ \A k \in DOMAIN log : log[k] \in Entry /\ log[k].seq \in Nat
    BY EntryFacts DEF TypeOK, Appends
  <1>2. /\ DOMAIN log = 1 .. Len(log) /\ DOMAIN x = 1 .. Len(x) /\ Len(log) \in Nat /\ Len(x) \in Nat
        /\ Len(log') = Len(log) + Len(x) /\ DOMAIN log' = 1 .. Len(log) + Len(x)
        /\ \A k \in DOMAIN log : k \in DOMAIN log' /\ log'[k] = log[k]
        /\ \A j \in DOMAIN x : Len(log) + j \in DOMAIN log' /\ log'[Len(log) + j] = x[j]
        /\ \A k \in DOMAIN log' :
              k \in DOMAIN log \/ (k > Len(log) /\ k - Len(log) \in DOMAIN x /\ log'[k] = x[k - Len(log)])
    BY <1>1, Extended
  <1>3. /\ db'.rows = db.rows \cup ToSet(x) /\ db'.floor = db.floor /\ db'.checkpoints = db.checkpoints
        /\ \A k \in DOMAIN x : x[k] \in db'.rows
        /\ \A e \in db'.rows : e \in db.rows \/ \E k \in DOMAIN x : e = x[k]
    BY <1>1 DEF Appends, Db, ToSet
  <1>4. RowsKept'
    <2>1. IsFiniteSet(db'.rows)
      <3>1. IsFiniteSet(db.rows) /\ IsFiniteSet(ToSet(x))
        BY DEF Appends, StoreInv, RowsKept
      <3>2. IsFiniteSet(db.rows \cup ToSet(x))
        BY <3>1, FS_Union
      <3> QED
        BY <1>3, <3>2
    <2>2. \A e \in db'.rows : \E k \in DOMAIN log' : log'[k] = e
      BY <1>2, <1>3 DEF StoreInv, RowsKept
    <2>3. \A k \in DOMAIN log' : log'[k] \in db'.rows \/ log'[k].seq < db'.floor
      BY <1>2, <1>3, SMTT(30) DEF StoreInv, RowsKept
    <2>4. ASSUME NEW k \in DOMAIN log' PROVE \E e \in db'.rows : log'[k].seq <= e.seq
      <3>1. CASE k \in DOMAIN log
        BY <3>1, <1>2, <1>3, SMTT(30) DEF StoreInv, RowsKept
      <3>2. CASE k \notin DOMAIN log
        <4>1. log'[k] \in db'.rows /\ log'[k].seq \in Nat
          BY <3>2, <1>1, <1>2, <1>3, SMTT(30)
        <4> QED
          BY <4>1
      <3> QED
        BY <3>1, <3>2
    <2>5. \A c \in db'.checkpoints : c > db'.floor /\ \E e \in db'.rows : e.seq = c
      BY <1>3 DEF StoreInv, RowsKept
    <2> QED
      BY <2>1, <2>2, <2>3, <2>4, <2>5 DEF RowsKept
  <1>5. Channels'
    BY <1>2 DEF StoreInv, Channels, Ascending, Lossy, IsLossy
  <1>6. DurableAscends'
    <2> SUFFICES ASSUME NEW k \in DOMAIN log', log'[k].channel = "durable", NEW j \in 1 .. k - 1
                 PROVE  log'[j].seq < log'[k].seq
      BY DEF DurableAscends
    <2>1. CASE k \in DOMAIN log
      <3>1. j \in DOMAIN log /\ log'[j] = log[j] /\ log'[k] = log[k]
        BY <2>1, <1>2
      <3> QED
        BY <2>1, <3>1 DEF StoreInv, DurableAscends
    <2>2. CASE k \notin DOMAIN log
      <3> DEFINE i == k - Len(log)
      <3>1. i \in DOMAIN x /\ log'[k] = x[i] /\ x[i].channel = "durable"
        BY <2>2, <1>2
      <3>2. CASE j \in DOMAIN log
        BY <3>1, <3>2, <1>2, AppendedAbove DEF StoreInv
      <3>3. CASE j \notin DOMAIN log
        <4>1. /\ j \in DOMAIN log' /\ j - Len(log) \in DOMAIN x /\ log'[j] = x[j - Len(log)]
              /\ j - Len(log) \in 1 .. i - 1
          BY <3>3, <1>2
        <4> QED
          BY <3>1, <4>1 DEF Ascending, Lossy, IsLossy
      <3> QED
        BY <3>2, <3>3
    <2> QED
      BY <2>1, <2>2
  <1>7. FoldKept'
    <2> SUFFICES ASSUME NEW k \in DOMAIN log', log'[k].type = "fold", log'[k] \notin db'.rows
                 PROVE  \E j \in k + 1 .. Len(log') : log'[j].type = "snap" /\ log'[j] \in db'.rows
      BY DEF FoldKept
    <2>1. k \in DOMAIN log /\ log'[k] = log[k] /\ log[k] \notin db.rows
      BY <1>2, <1>3
    <2>2. PICK j \in k + 1 .. Len(log) : log[j].type = "snap" /\ log[j] \in db.rows
      BY <2>1 DEF StoreInv, FoldKept
    <2>3. j \in DOMAIN log /\ j \in k + 1 .. Len(log')
      BY <1>2, <2>1, <2>2
    <2> QED
      BY <1>2, <1>3, <2>2, <2>3
  <1> QED
    BY <1>4, <1>5, <1>6, <1>7 DEF StoreInv

(* Compaction: by DurableAscends, the snapshot it asks for was committed   *)
(* after every entry of the fold that it removes.                          *)
LEMMA CompactStore ==
  ASSUME TypeOK, StoreInv, NEW seq \in db.checkpoints, ~FoldBehind(seq), log' = log,
         db' = [db EXCEPT !.rows = {e \in @ : e.seq >= seq},
                          !.checkpoints = {c \in @ : c > seq}, !.floor = seq]
  PROVE  StoreInv' /\ db'.floor > db.floor
  <1>1. /\ db \in Db /\ log \in Seq(Entry) /\ DOMAIN log = 1 .. Len(log) /\ Len(log) \in Nat
        /\ \A e \in db.rows : e \in Entry /\ e.seq \in Nat
        /\ \A k \in DOMAIN log : log[k] \in Entry /\ log[k].seq \in Nat
        /\ seq \in Nat /\ db.checkpoints \subseteq Nat
    BY EntryFacts DEF TypeOK, Db
  <1>2. /\ db'.rows = {e \in db.rows : e.seq >= seq} /\ db'.floor = seq
        /\ db'.checkpoints = {c \in db.checkpoints : c > seq}
    BY <1>1 DEF Db
  <1>3. seq > db.floor /\ (\E e \in db.rows : e.seq = seq) /\ db.floor \in Int
    BY <1>1, EntryFacts DEF StoreInv, RowsKept, Db
  <1>4. RowsKept'
    <2>1. IsFiniteSet(db'.rows)
      BY <1>2, FS_Subset DEF StoreInv, RowsKept
    <2>2. \A e \in db'.rows : \E k \in DOMAIN log : log[k] = e
      BY <1>2 DEF StoreInv, RowsKept
    <2>3. ASSUME NEW k \in DOMAIN log PROVE log[k] \in db'.rows \/ log[k].seq < db'.floor
      <3>1. log[k] \in db.rows \/ log[k].seq < db.floor
        BY DEF StoreInv, RowsKept
      <3>2. log[k].seq \in Int /\ seq \in Int /\ db.floor \in Int /\ db.floor < seq
        BY <1>1, <1>3
      <3> QED
        BY <1>2, <3>1, <3>2
    <2>4. ASSUME NEW k \in DOMAIN log PROVE \E e \in db'.rows : log[k].seq <= e.seq
      <3>1. PICK e \in db.rows : log[k].seq <= e.seq
        BY DEF StoreInv, RowsKept
      <3>2. CASE e.seq >= seq
        BY <3>1, <3>2, <1>2
      <3>3. CASE ~(e.seq >= seq)
        <4>1. PICK f \in db.rows : f.seq = seq
          BY <1>3
        <4>2. f \in db'.rows /\ log[k].seq <= f.seq
          BY <1>1, <1>2, <3>1, <3>3, <4>1
        <4> QED
          BY <4>2
      <3> QED
        BY <3>2, <3>3
    <2>5. ASSUME NEW c \in db'.checkpoints PROVE c > db'.floor /\ \E e \in db'.rows : e.seq = c
      <3>1. c \in db.checkpoints /\ c > seq /\ c \in Nat
        BY <1>1, <1>2
      <3>2. PICK e \in db.rows : e.seq = c
        BY <3>1 DEF StoreInv, RowsKept
      <3>3. e \in db'.rows
        BY <1>1, <1>2, <3>1, <3>2
      <3> QED
        BY <1>2, <3>1, <3>2, <3>3
    <2> QED
      BY <2>1, <2>2, <2>3, <2>4, <2>5 DEF RowsKept
  <1>5. Channels' /\ DurableAscends'
    BY DEF StoreInv, Channels, DurableAscends
  <1>6. ASSUME NEW k \in DOMAIN log, log[k].type \in {"fold", "snap"}, log[k] \in db.rows, log[k] \notin db'.rows
        PROVE  \E j \in k + 1 .. Len(log) : log[j].type = "snap" /\ log[j] \in db'.rows
    <2>1. log[k].seq < seq
      BY <1>1, <1>2, <1>6
    <2>2. PICK e \in db.rows : e.seq >= seq /\ e.type = "snap"
      BY <1>6, <2>1 DEF FoldBehind
    <2>3. PICK j \in DOMAIN log : log[j] = e
      BY DEF StoreInv, RowsKept
    <2>4. log[k].channel = "durable" /\ log[k].seq < log[j].seq
      BY <1>1, <1>6, <2>1, <2>2, <2>3 DEF StoreInv, Channels, IsLossy
    <2>5. ~(j < k) /\ j # k
      BY <1>1, <2>3, <2>4 DEF StoreInv, DurableAscends
    <2>6. j \in k + 1 .. Len(log)
      BY <1>1, <2>5
    <2> QED
      BY <1>2, <2>2, <2>3, <2>6
  <1>7. FoldKept'
    <2> SUFFICES ASSUME NEW k \in DOMAIN log, log[k].type = "fold", log[k] \notin db'.rows
                 PROVE  \E j \in k + 1 .. Len(log) : log[j].type = "snap" /\ log[j] \in db'.rows
      BY DEF FoldKept
    <2>1. CASE log[k] \in db.rows
      BY <2>1, <1>6
    <2>2. CASE log[k] \notin db.rows
      <3>1. PICK i \in k + 1 .. Len(log) : log[i].type = "snap" /\ log[i] \in db.rows
        BY <2>2 DEF StoreInv, FoldKept
      <3>2. CASE log[i] \in db'.rows
        BY <3>1, <3>2
      <3>3. CASE log[i] \notin db'.rows
        <4>1. PICK j \in i + 1 .. Len(log) : log[j].type = "snap" /\ log[j] \in db'.rows
          BY <1>1, <3>1, <3>3, <1>6
        <4>2. j \in k + 1 .. Len(log)
          BY <1>1, <3>1, <4>1
        <4> QED
          BY <4>1, <4>2
      <3> QED
        BY <3>2, <3>3
    <2> QED
      BY <2>1, <2>2
  <1> QED
    BY <1>2, <1>3, <1>4, <1>5, <1>7 DEF StoreInv

---------------------------------------------------------------------------
(* Readers                                                                 *)

(* What a stream has read of an entry that is not durable, or is above all *)
(* that was committed, is nothing it relies on.                            *)
LEMMA AppendReader ==
  ASSUME TypeOK, StoreInv, NEW x, Appends(x), Ascending(x) \/ Lossy(x),
         NEW r \in Readers, Delivered(r), ReaderInv(r), reader'[r] = reader[r]
  PROVE  Delivered(r)' /\ ReaderInv(r)'
  <1> DEFINE me == reader[r]
  <1> SUFFICES ASSUME me.st \in Following
               PROVE  Delivered(r)' /\ ReaderInv(r)'
    BY DEF Delivered, ReaderInv
  <1>1. /\ log \in Seq(Entry) /\ x \in Seq(Entry) /\ log' = log \o x /\ me \in Reader
        /\ \A k \in DOMAIN x : x[k] \in Entry /\ x[k].seq \in Nat
        /\ \A k \in DOMAIN log : log[k] \in Entry /\ log[k].seq \in Nat
        /\ me.cursor \in Int /\ (me.cursor = NoFloor \/ me.cursor \in Nat) /\ NoFloor = -1
    BY EntryFacts DEF TypeOK, Appends, Reader
  <1>2. /\ \A k \in DOMAIN log : k \in DOMAIN log' /\ log'[k] = log[k]
        /\ \A k \in DOMAIN log' :
              k \in DOMAIN log \/ (\E i \in DOMAIN x : log'[k] = x[i])
    BY <1>1, Extended
  <1>3. db'.floor = db.floor
    BY DEF Appends, TypeOK, Db
  <1>4. \A i \in DOMAIN x : x[i].channel = "durable" => \A j \in DOMAIN log : log[j].seq < x[i].seq
    BY AppendedAbove DEF StoreInv
  <1>5. ASSUME NEW i \in DOMAIN x, x[i].channel = "durable"
        PROVE  ~(x[i].seq <= me.cursor)
    <2>1. CASE me.cursor = NoFloor
      BY <2>1, <1>1
    <2>2. CASE me.cursor # NoFloor
      <3>1. PICK j \in DOMAIN log : me.cursor <= log[j].seq
        BY <2>2 DEF ReaderInv
      <3> QED
        BY <1>1, <1>4, <1>5, <3>1
    <2> QED
      BY <2>1, <2>2
  <1>6. Delivered(r)'
    <2> SUFFICES ASSUME NEW k \in DOMAIN log', log'[k].channel = "durable", log'[k].seq <= me.cursor
                 PROVE  log'[k].seq \in me.got
      BY DEF Delivered
    <2>1. k \in DOMAIN log /\ log'[k] = log[k]
      BY <1>2, <1>5
    <2> QED
      BY <2>1 DEF Delivered
  <1>7. me.cursor # NoFloor => \E k \in DOMAIN log' : me.cursor <= log'[k].seq
    BY <1>2 DEF ReaderInv
  <1>8. ASSUME me.st = "floor", NEW e \in me.page
        PROVE  /\ \E k \in DOMAIN log' : log'[k] = e
               /\ \A k \in DOMAIN log' :
                     (log'[k].channel = "durable" /\ me.cursor < log'[k].seq /\ log'[k].seq <= e.seq)
                       => (\E f \in me.page : f.seq = log'[k].seq) \/ log'[k].seq < db'.floor
    <2>1. PICK j \in DOMAIN log : log[j] = e
      BY <1>8 DEF ReaderInv
    <2>2. ASSUME NEW k \in DOMAIN log',
                 log'[k].channel = "durable", me.cursor < log'[k].seq, log'[k].seq <= e.seq
          PROVE  (\E f \in me.page : f.seq = log'[k].seq) \/ log'[k].seq < db'.floor
      <3>1. k \in DOMAIN log
        <4> SUFFICES ASSUME NEW i \in DOMAIN x, log'[k] = x[i] PROVE FALSE
          BY <1>2
        <4>1. log[j].seq < x[i].seq
          BY <1>4, <2>2
        <4> QED
          BY <1>1, <2>1, <2>2, <4>1
      <3> QED
        BY <1>2, <1>3, <1>8, <2>2, <3>1 DEF ReaderInv
    <2> QED
      BY <1>2, <2>1, <2>2
  <1> QED
    BY <1>6, <1>7, <1>8 DEF ReaderInv

(* A floor that rises only excuses more.                                   *)
LEMMA FloorReader ==
  ASSUME TypeOK, log' = log, db'.floor \in Int, db'.floor >= db.floor,
         NEW r \in Readers, Delivered(r), ReaderInv(r), reader'[r] = reader[r]
  PROVE  Delivered(r)' /\ ReaderInv(r)'
  <1>1. Delivered(r)'
    BY DEF Delivered
  <1>a. \A k \in DOMAIN log : log[k] \in Entry
    BY DEF TypeOK
  <1>b. db.floor \in Int
    BY EntryFacts DEF TypeOK, Db
  <1>c. \A k \in DOMAIN log : log[k].seq \in Int
    BY <1>a, EntryFacts
  <1>3. \A k \in DOMAIN log : log[k].seq < db.floor => log[k].seq < db'.floor
    BY <1>b, <1>c
  <1>4. ReaderInv(r)'
    BY <1>3 DEF ReaderInv
  <1> QED
    BY <1>1, <1>4

(* A page holds every row up to its last one: it is the first of those     *)
(* ahead, by their sequences.                                              *)
LEMMA PageIsPrefix ==
  ASSUME NEW ahead \in SUBSET Entry, IsFiniteSet(ahead), NEW n \in Nat,
         NEW e \in ahead, NEW f \in ahead, f.seq <= e.seq,
         Cardinality({g \in ahead : g.seq < e.seq}) < n
  PROVE  Cardinality({g \in ahead : g.seq < f.seq}) < n
  <1> DEFINE E == {g \in ahead : g.seq < e.seq}
             F == {g \in ahead : g.seq < f.seq}
  <1>1. \A g \in ahead : g.seq \in Nat
    BY EntryFacts
  <1>2. F \subseteq E
    BY <1>1
  <1>3. IsFiniteSet(E) /\ IsFiniteSet(F)
    BY FS_Subset
  <1>4. Cardinality(F) <= Cardinality(E)
    BY <1>2, <1>3, FS_Subset
  <1>5. Cardinality(F) \in Nat /\ Cardinality(E) \in Nat
    BY <1>3, FS_CardinalityType
  <1> HIDE DEF E, F
  <1>6. Cardinality(E) < n => Cardinality(F) < n
    BY <1>4, <1>5
  <1> QED
    BY <1>6 DEF E, F

---------------------------------------------------------------------------
(* Sequences as sets                                                       *)

(* Append adds one member.                                                 *)
LEMMA AppendSet ==
  ASSUME NEW E, NEW s \in Seq(E), NEW e \in E
  PROVE  /\ Append(s, e) \in Seq(E) /\ Len(Append(s, e)) = Len(s) + 1
         /\ ToSet(Append(s, e)) = ToSet(s) \cup {e}
  <1> DEFINE t == Append(s, e)
  <1>1. /\ t \in Seq(E) /\ Len(t) = Len(s) + 1 /\ Len(s) \in Nat
        /\ DOMAIN s = 1 .. Len(s) /\ DOMAIN t = 1 .. Len(s) + 1
        /\ \A i \in 1 .. Len(s) : t[i] = s[i]
        /\ t[Len(s) + 1] = e
    OBVIOUS
  <1> HIDE DEF t
  <1>2. \A i \in DOMAIN t : i \in DOMAIN s \/ i = Len(s) + 1
    BY <1>1
  <1>3. (\A i \in DOMAIN s : i \in DOMAIN t) /\ Len(s) + 1 \in DOMAIN t
    BY <1>1
  <1>4. ToSet(t) = ToSet(s) \cup {e}
    BY <1>1, <1>2, <1>3 DEF ToSet
  <1> QED
    BY <1>1, <1>4 DEF t

(* Head and Tail split off one member.                                     *)
LEMMA TailSet ==
  ASSUME NEW E, NEW s \in Seq(E), s # <<>>
  PROVE  /\ Tail(s) \in Seq(E) /\ Len(Tail(s)) = Len(s) - 1 /\ Head(s) \in E /\ Head(s) = s[1]
         /\ ToSet(s) = ToSet(Tail(s)) \cup {Head(s)}
  <1> DEFINE t == Tail(s)
  <1>1. /\ t \in Seq(E) /\ Len(t) = Len(s) - 1 /\ Len(s) \in Nat /\ Len(s) > 0
        /\ DOMAIN s = 1 .. Len(s) /\ DOMAIN t = 1 .. Len(s) - 1
        /\ \A i \in 1 .. Len(s) - 1 : t[i] = s[i + 1]
        /\ Head(s) = s[1] /\ s[1] \in E
    BY EmptySeq, HeadTailProperties
  <1> HIDE DEF t
  <1>2. \A i \in DOMAIN s : i = 1 \/ (i - 1 \in DOMAIN t /\ s[i] = t[i - 1])
    BY <1>1
  <1>3. 1 \in DOMAIN s /\ \A i \in DOMAIN t : i + 1 \in DOMAIN s /\ t[i] = s[i + 1]
    BY <1>1
  <1>4. ToSet(s) = ToSet(t) \cup {Head(s)}
    BY <1>1, <1>2, <1>3 DEF ToSet
  <1> QED
    BY <1>1, <1>4 DEF t

(* Cutting a sequence in two loses no member.                              *)
LEMMA SplitSet ==
  ASSUME NEW E, NEW s \in Seq(E), NEW n \in 0 .. Len(s)
  PROVE  LET a == SubSeq(s, 1, n)
             b == SubSeq(s, n + 1, Len(s))
         IN /\ a \in Seq(E) /\ Len(a) = n
            /\ b \in Seq(E) /\ Len(b) = Len(s) - n
            /\ ToSet(s) = ToSet(a) \cup ToSet(b)
  <1> DEFINE a == SubSeq(s, 1, n)
             b == SubSeq(s, n + 1, Len(s))
  <1>1. Len(s) \in Nat /\ DOMAIN s = 1 .. Len(s) /\ \A i \in 1 .. Len(s) : s[i] \in E
    OBVIOUS
  <1>2. n \in Int /\ n + 1 \in Int /\ Len(s) \in Int /\ 1 \in Int /\ 0 <= n /\ n <= Len(s)
    BY <1>1
  <1>3. /\ a \in Seq(E) /\ Len(a) = (IF 1 <= n THEN n - 1 + 1 ELSE 0)
        /\ \A i \in 1 .. n - 1 + 1 : a[i] = s[1 + i - 1]
    <2>1. \A i \in 1 .. n : s[i] \in E
      BY <1>1, <1>2
    <2> QED
      BY <1>2, <2>1, SubSeqProperties
  <1>4. /\ b \in Seq(E) /\ Len(b) = (IF n + 1 <= Len(s) THEN Len(s) - (n + 1) + 1 ELSE 0)
        /\ \A i \in 1 .. Len(s) - (n + 1) + 1 : b[i] = s[n + 1 + i - 1]
    <2>1. \A i \in n + 1 .. Len(s) : s[i] \in E
      BY <1>1, <1>2
    <2> QED
      BY <1>2, <2>1, SubSeqProperties
  <1>5. DOMAIN a = 1 .. Len(a) /\ DOMAIN b = 1 .. Len(b)
    BY <1>3, <1>4, LenProperties
  <1> HIDE DEF a, b
  <1>6. Len(a) = n /\ \A i \in DOMAIN a : i \in DOMAIN s /\ a[i] = s[i]
    BY <1>2, <1>1, <1>3, <1>5
  <1>7. Len(b) = Len(s) - n /\ \A i \in DOMAIN b : n + i \in DOMAIN s /\ b[i] = s[n + i]
    <2>1. Len(b) = Len(s) - n /\ DOMAIN b = 1 .. Len(s) - n
      BY <1>2, <1>4, <1>5
    <2>2. ASSUME NEW i \in DOMAIN b PROVE n + i \in DOMAIN s /\ b[i] = s[n + i]
      <3>1. i \in Int /\ 1 <= i /\ i <= Len(s) - n
        BY <1>2, <2>1
      <3>2. i \in 1 .. Len(s) - (n + 1) + 1 /\ n + 1 + i - 1 = n + i /\ n + i \in 1 .. Len(s)
        BY <1>2, <3>1
      <3>3. b[i] = s[n + 1 + i - 1]
        BY <1>4, <3>2
      <3> QED
        BY <1>1, <3>2, <3>3
    <2> QED
      BY <2>1, <2>2
  <1>8. \A i \in DOMAIN s : (i \in DOMAIN a /\ s[i] = a[i]) \/ (i - n \in DOMAIN b /\ s[i] = b[i - n])
    <2> SUFFICES ASSUME NEW i \in DOMAIN s
                 PROVE  (i \in DOMAIN a /\ s[i] = a[i]) \/ (i - n \in DOMAIN b /\ s[i] = b[i - n])
      OBVIOUS
    <2>1. CASE i <= n
      BY <2>1, <1>1, <1>2, <1>5, <1>6
    <2>2. CASE i > n
      <3>1. i - n \in DOMAIN b /\ n + (i - n) = i
        BY <2>2, <1>1, <1>2, <1>5, <1>7
      <3> QED
        BY <3>1, <1>7
    <2> QED
      BY <2>1, <2>2, <1>1, <1>2
  <1>9. ToSet(s) = ToSet(a) \cup ToSet(b)
    BY <1>6, <1>7, <1>8 DEF ToSet
  <1> QED
    BY <1>3, <1>4, <1>6, <1>7, <1>9 DEF a, b

(* A sequence has finitely many members.                                   *)
LEMMA FiniteMembers ==
  ASSUME NEW E, NEW s \in Seq(E)
  PROVE  IsFiniteSet(ToSet(s)) /\ ToSet(s) \subseteq E
  <1>1. Len(s) \in Nat /\ DOMAIN s = 1 .. Len(s) /\ \A i \in DOMAIN s : s[i] \in E
    OBVIOUS
  <1>2. IsFiniteSet(1 .. Len(s))
    BY <1>1, FS_Interval
  <1>3. s \in Surjection(1 .. Len(s), ToSet(s))
    BY <1>1 DEF Surjection, ToSet
  <1> QED
    BY <1>1, <1>2, <1>3, FS_Surjection DEF ToSet

---------------------------------------------------------------------------
(* The sequences a journal gives out                                       *)

(* MAX(seq) + 1 is above every row.                                        *)
LEMMA NextSequence ==
  ASSUME NEW rows \in SUBSET Entry
  PROVE  /\ nextDurable(rows) \in 0 .. Ceiling /\ Above(nextDurable(rows), rows)
         /\ \A s \in Sources : nextDurableSource(rows, s) \in 0 .. Ceiling
  <1> DEFINE S == {e.seq : e \in rows}
  <1>1. S \in SUBSET Seqs
    BY EntryFacts
  <1>2. ASSUME NEW T \in SUBSET Seqs PROVE 1 + Last1(T) \in 0 .. Ceiling
    BY EntryFacts, LastIsMax DEF Seqs
  <1>3. \A e \in rows : e.seq <= Last1(S) /\ e.seq \in Int
    BY <1>1, LastIsMax, EntryFacts
  <1>4. Last1(S) \in Int
    BY <1>1, LastIsMax, EntryFacts
  <1> HIDE DEF S
  <1>5. \A e \in rows : e.seq < 1 + Last1(S)
    BY <1>3, <1>4
  <1>6. \A s \in Sources : {e.ss : e \in {f \in rows : f.src = s}} \in SUBSET Seqs
    BY DEF Entry
  <1> QED
    BY <1>1, <1>2, <1>5, <1>6 DEF S, nextDurable, nextDurableSource, Above

(* What queues and counts is the same.                                     *)
SameQueue(m, me) ==
    /\ m.status = me.status /\ m.queue = me.queue /\ m.batch = me.batch
    /\ m.persisted = me.persisted /\ m.pending = me.pending

(* The larger of two sequences.                                            *)
LEMMA LargerType ==
  ASSUME NEW a \in NoFloor .. Ceiling, NEW b \in 0 .. Ceiling
  PROVE  Larger(a, b) \in 0 .. Ceiling /\ Larger(a, b) \in NoFloor .. Ceiling
         /\ Larger(b, a) \in 0 .. Ceiling /\ Larger(b, a) >= b
  BY EntryFacts DEF Larger

(* Raising the floors touches neither queue nor count.                     *)
LEMMA RaisedFloors ==
  ASSUME NEW me \in Journal, NEW e \in Entry
  PROVE  raiseFloors(me, e) \in Journal /\ SameQueue(raiseFloors(me, e), me)
         /\ raiseFloors(me, e).lossEpoch = me.lossEpoch
  <1>1. e.seq + 1 \in 0 .. Ceiling /\ e.ss + 1 \in 0 .. Ceiling /\ e.src \in Sources
    BY EntryFacts DEF Entry, Seqs
  <1>2. /\ me.sequence \in NoFloor .. Ceiling
        /\ me.sourceSequence \in [Sources -> NoFloor .. Ceiling]
    BY DEF Journal
  <1> DEFINE a == Larger(me.sequence, e.seq + 1)
             b == Larger(me.sourceSequence[e.src], e.ss + 1)
             m == [me EXCEPT !.sequence = a]
  <1>3. a \in NoFloor .. Ceiling /\ b \in NoFloor .. Ceiling
    BY <1>1, <1>2, LargerType
  <1>4. raiseFloors(me, e) = [m EXCEPT !.sourceSequence = [@ EXCEPT ![e.src] = b]]
    BY DEF raiseFloors, raiseSequenceFloor, raiseSourceSequenceFloor, Journal
  <1> HIDE DEF a, b
  <1>5. /\ m \in Journal /\ m.sourceSequence = me.sourceSequence /\ SameQueue(m, me)
        /\ m.lossEpoch = me.lossEpoch
    BY <1>3 DEF Journal, SameQueue
  <1> DEFINE g == [me.sourceSequence EXCEPT ![e.src] = b]
  <1>6. g \in [Sources -> NoFloor .. Ceiling] /\ raiseFloors(me, e) = [m EXCEPT !.sourceSequence = g]
    BY <1>2, <1>3, <1>4, <1>5
  <1> HIDE DEF m, g
  <1> QED
    BY <1>5, <1>6 DEF Journal, SameQueue

(* Nor does reading them on first use; they are numbers then.              *)
LEMMA EnsuredFloors ==
  ASSUME TypeOK, NEW me \in Journal, NEW s \in Sources
  PROVE  /\ ensureFloors(me, s) \in Journal /\ SameQueue(ensureFloors(me, s), me)
         /\ ensureFloors(me, s).sequence \in 0 .. Ceiling
         /\ ensureFloors(me, s).sourceSequence[s] \in 0 .. Ceiling
  <1>1. /\ me.sequence \in NoFloor .. Ceiling
        /\ me.sourceSequence \in [Sources -> NoFloor .. Ceiling]
        /\ me.sourceSequence[s] \in NoFloor .. Ceiling
        /\ db.rows \in SUBSET Entry
    BY DEF Journal, TypeOK, Db
  <1>2. CASE me.sequence # NoFloor /\ me.sourceSequence[s] # NoFloor
    <2>1. me.sequence \in 0 .. Ceiling /\ me.sourceSequence[s] \in 0 .. Ceiling
      BY <1>1, <1>2, EntryFacts
    <2> QED
      BY <1>2, <2>1 DEF ensureFloors, SameQueue
  <1>3. CASE ~(me.sequence # NoFloor /\ me.sourceSequence[s] # NoFloor)
    <2> DEFINE a == IF me.sequence = NoFloor THEN nextDurable(db.rows) ELSE me.sequence
               b == Larger(me.sourceSequence[s], nextDurableSource(db.rows, s))
               g == [me.sourceSequence EXCEPT ![s] = b]
    <2>1. a \in 0 .. Ceiling /\ a \in NoFloor .. Ceiling
      BY <1>1, NextSequence, EntryFacts
    <2>2. b \in 0 .. Ceiling /\ b \in NoFloor .. Ceiling
      BY <1>1, NextSequence, LargerType
    <2>3. ensureFloors(me, s) = [me EXCEPT !.sequence = a, !.sourceSequence = g]
      BY <1>3 DEF ensureFloors, Journal
    <2> HIDE DEF a, b
    <2>4. g \in [Sources -> NoFloor .. Ceiling] /\ g[s] = b
      BY <1>1, <2>2
    <2> HIDE DEF g
    <2> QED
      BY <2>1, <2>2, <2>3, <2>4 DEF Journal, SameQueue
  <1> QED
    BY <1>2, <1>3

---------------------------------------------------------------------------
(* Steps of one journal                                                    *)

Unfinished == {"open", "closing"}

(* FlushInv, of a journal and the calls of flush in its process.           *)
Vetted(me, calls) ==
    /\ QueueInv(me)
    /\ \A c \in Callers :
        /\ (calls[c].st = "waiting" /\ me.status \in Unfinished) =>
               \A e \in calls[c].covers : e \in Outstanding(me) \/ Committed(e)
        /\ calls[c].st = "ok" => \A e \in calls[c].covers : Committed(e)

(* Vetted is FlushInv, of a process.                                       *)
LEMMA FlushInvIs == \A p \in Procs : FlushInv(p) <=> Vetted(proc[p], flush[p])
  BY DEF FlushInv, Vetted, WaitsFor, Vouches, Unfinished

LogGrows == \A k \in DOMAIN log : k \in DOMAIN log' /\ log'[k] = log[k]

(* What is committed stays committed.                                      *)
LEMMA FlushKept ==
  ASSUME LogGrows, NEW p \in Procs, FlushInv(p), SameQueue(proc'[p], proc[p]), flush'[p] = flush[p]
  PROVE  FlushInv(p)'
  <1>1. \A e : Committed(e) => Committed(e)'
    BY DEF LogGrows, Committed
  <1>2. QueueInv(proc[p])'
    BY <1>1 DEF FlushInv, QueueInv, SameQueue, Outstanding
  <1>3. \A c \in Callers : WaitsFor(p, c)' /\ Vouches(p, c)'
    BY <1>1 DEF FlushInv, WaitsFor, Vouches, SameQueue, Outstanding
  <1> QED
    BY <1>2, <1>3 DEF FlushInv

(* The store keeps what it promises while it is left alone,                *)
LEMMA StoreKept ==
  ASSUME StoreInv, log' = log, db' = db
  PROVE  StoreInv'
  BY DEF StoreInv, RowsKept, Channels, DurableAscends, FoldKept

(* so does a transaction,                                                  *)
LEMMA TxnKept ==
  ASSUME NEW p \in Procs, TxnInv(p), txn'[p] = txn[p]
  PROVE  TxnInv(p)'
  BY DEF TxnInv

(* and so does a stream.                                                   *)
LEMMA ReaderKept ==
  ASSUME NEW r \in Readers, Delivered(r), ReaderInv(r), log' = log, db' = db, reader'[r] = reader[r]
  PROVE  Delivered(r)' /\ ReaderInv(r)'
  BY DEF Delivered, ReaderInv

(* A step of one process that commits nothing: it leaves its journal m and *)
(* its calls of flush as calls, and may cut its streams.                   *)
LEMMA LocalStep ==
  ASSUME IInv, NEW p \in Procs, NEW m \in Journal, NEW calls \in [Callers -> FlushCall],
         db' = db, log' = log, setting' = setting, Vetted(m, calls),
         proc' = [proc EXCEPT ![p] = m], flush' = [flush EXCEPT ![p] = calls],
         txn' \in [Procs -> Txn], \A q \in Procs : TxnInv(q)',
         reader' \in [Readers -> Reader],
         \A r \in Readers : reader'[r] = reader[r] \/ reader'[r].st = "off"
  PROVE  IInv'
  <1>1. TypeOK'
    BY DEF IInv, TypeOK
  <1>2. proc'[p] = m /\ flush'[p] = calls /\ \A q \in Procs \ {p} : proc'[q] = proc[q] /\ flush'[q] = flush[q]
    BY DEF IInv, TypeOK
  <1>3. ASSUME NEW q \in Procs PROVE FlushInv(q)'
    <2>1. CASE q = p
      <3>1. Vetted(proc[p], flush[p])'
        <4>1. \A e : Committed(e)' <=> Committed(e)
          BY DEF Committed
        <4>2. QueueInv(proc[p])'
          BY <1>2, <4>1, ZenonT(60) DEF Vetted, QueueInv, Outstanding
        <4> QED
          BY <1>2, <4>1, <4>2 DEF Vetted, Outstanding, Unfinished
      <3> QED
        BY <2>1, <3>1 DEF FlushInv, Vetted, WaitsFor, Vouches, Unfinished
    <2>2. CASE q # p
      BY <1>2, <2>2, FlushKept DEF IInv, LogGrows, SameQueue
    <2> QED
      BY <2>1, <2>2
  <1>4. ASSUME NEW r \in Readers PROVE Delivered(r)' /\ ReaderInv(r)'
    <2>1. CASE reader'[r] = reader[r]
      BY <2>1, ReaderKept DEF IInv
    <2>2. CASE reader'[r].st = "off"
      BY <2>2 DEF Delivered, ReaderInv, Following
    <2> QED
      BY <2>1, <2>2
  <1> QED
    BY <1>1, <1>3, <1>4, StoreKept DEF IInv

---------------------------------------------------------------------------
(* The lossy channel                                                       *)

(* What is outstanding is queued or in the batch.                          *)
LEMMA OutstandingIs == \A me : Outstanding(me) = ToSet(me.queue) \cup ToSet(me.batch)
  BY DEF Outstanding, ToSet

(* Vetted depends on what queues and counts.                               *)
LEMMA VettedSame ==
  ASSUME NEW me, NEW m, NEW calls, Vetted(me, calls), SameQueue(m, me)
  PROVE  Vetted(m, calls)
  BY DEF Vetted, SameQueue, QueueInv, Outstanding

(* An entry is queued.                                                     *)
LEMMA VettedAppend ==
  ASSUME NEW me \in Journal, NEW calls, Vetted(me, calls), me.status = "open",
         NEW e \in Entry, IsLossy(e)
  PROVE  LET m == [me EXCEPT !.queue = Append(@, e), !.pending = @ + 1]
         IN m \in Journal /\ Vetted(m, calls)
  <1> DEFINE q == Append(me.queue, e)
             n == me.pending + 1
             m == [me EXCEPT !.queue = q, !.pending = n]
  <1>1. me.queue \in Seq(Entry) /\ me.batch \in Seq(Entry) /\ me.pending \in Int
    BY DEF Journal
  <1>2. q \in Seq(Entry) /\ Len(q) = Len(me.queue) + 1 /\ ToSet(q) = ToSet(me.queue) \cup {e}
    BY <1>1, AppendSet
  <1>a. n \in Int
    BY <1>1
  <1> HIDE DEF q, n
  <1>3. /\ m \in Journal /\ m.queue = q /\ m.batch = me.batch /\ m.pending = n
        /\ m.status = me.status /\ m.persisted = me.persisted
    BY <1>a, <1>2 DEF Journal
  <1> HIDE DEF m
  <1>4. Outstanding(m) = Outstanding(me) \cup {e}
    BY <1>2, <1>3, OutstandingIs
  <1>5. QueueInv(m)
    <2>1. me.pending = Len(me.queue) + Len(me.batch)
      BY DEF Vetted, QueueInv
    <2>a. Len(me.queue) \in Nat /\ Len(me.batch) \in Nat
      BY <1>1, LenProperties
    <2>b. n = Len(q) + Len(me.batch)
      <3> DEFINE a == Len(me.queue)
                 b == Len(me.batch)
                 c == Len(q)
      <3>1. a \in Int /\ b \in Int /\ c = a + 1 /\ me.pending = a + b
        BY <1>2, <2>1, <2>a
      <3> HIDE DEF a, b, c
      <3>2. n = c + b
        BY <3>1 DEF n
      <3> QED
        BY <3>2 DEF b, c
    <2>2. m.pending = Len(m.queue) + Len(m.batch)
      BY <1>3, <2>b
    <2> QED
      BY <1>3, <1>4, <2>2 DEF Vetted, QueueInv
  <1>6. Vetted(m, calls)
    BY <1>3, <1>4, <1>5 DEF Vetted
  <1> QED
    BY <1>3, <1>6 DEF m, q, n

(* An entry is queued in the place of the oldest, which the waiting        *)
(* flushes forget.                                                         *)
LEMMA VettedEvict ==
  ASSUME NEW me \in Journal, NEW calls \in [Callers -> FlushCall], Vetted(me, calls), me.status = "open",
         me.queue # <<>>, NEW e \in Entry, IsLossy(e)
  PROVE  LET m == [me EXCEPT !.queue = Append(Tail(@), e)]
             rest == [c \in Callers |-> [calls[c] EXCEPT !.covers = @ \ {Head(me.queue)}]]
         IN m \in Journal /\ rest \in [Callers -> FlushCall] /\ Vetted(m, rest)
  <1> DEFINE h == Head(me.queue)
             t == Tail(me.queue)
             q == Append(t, e)
             m == [me EXCEPT !.queue = q]
             rest == [c \in Callers |-> [calls[c] EXCEPT !.covers = @ \ {h}]]
  <1>1. me.queue \in Seq(Entry) /\ me.batch \in Seq(Entry) /\ me.pending \in Int
    BY DEF Journal
  <1>2. /\ t \in Seq(Entry) /\ Len(t) = Len(me.queue) - 1 /\ Len(me.queue) \in Nat /\ Len(me.batch) \in Nat
        /\ ToSet(me.queue) = ToSet(t) \cup {h}
    BY <1>1, TailSet
  <1> HIDE DEF t, h
  <1>3. q \in Seq(Entry) /\ Len(q) = Len(t) + 1 /\ ToSet(q) = ToSet(t) \cup {e}
    BY <1>2, AppendSet
  <1> HIDE DEF q
  <1>4. /\ m \in Journal /\ m.queue = q /\ m.batch = me.batch /\ m.pending = me.pending
        /\ m.status = me.status /\ m.persisted = me.persisted
    BY <1>3 DEF Journal
  <1> HIDE DEF m
  <1>5. Outstanding(m) \subseteq Outstanding(me) \cup {e} /\ Outstanding(me) \ {h} \subseteq Outstanding(m)
    BY <1>2, <1>3, <1>4, OutstandingIs
  <1>6. rest \in [Callers -> FlushCall] /\ \A c \in Callers : rest[c].st = calls[c].st /\ rest[c].covers = calls[c].covers \ {h}
    BY DEF FlushCall
  <1> HIDE DEF rest
  <1>7. QueueInv(m)
    <2>1. Len(q) = Len(me.queue)
      BY <1>2, <1>3
    <2> QED
      BY <1>4, <1>5, <2>1 DEF Vetted, QueueInv
  <1>8. Vetted(m, rest)
    BY <1>4, <1>5, <1>6, <1>7 DEF Vetted
  <1> QED
    BY <1>4, <1>6, <1>8 DEF m, q, t, rest, h

(* The calls of flush stay as they are where they are UNCHANGED.           *)
LEMMA Untouched ==
  ASSUME TypeOK, NEW p \in Procs
  PROVE  /\ flush[p] \in [Callers -> FlushCall] /\ proc[p] \in Journal /\ txn[p] \in Txn
         /\ flush' = flush => flush' = [flush EXCEPT ![p] = flush[p]]
         /\ proc' = proc => proc' = [proc EXCEPT ![p] = proc[p]]
         /\ txn' = txn => txn' \in [Procs -> Txn]
         /\ reader' = reader => reader' \in [Readers -> Reader]
  BY DEF TypeOK

(* What IInv says of one process.                                          *)
LEMMA IInvParts ==
  ASSUME IInv, NEW p \in Procs
  PROVE  /\ TypeOK /\ StoreInv /\ TxnInv(p) /\ Vetted(proc[p], flush[p])
         /\ flush[p] \in [Callers -> FlushCall] /\ proc[p] \in Journal /\ txn[p] \in Txn
  BY FlushInvIs, Untouched DEF IInv

(* A step of one journal that leaves the transactions and the streams.     *)
LEMMA JournalStep ==
  ASSUME IInv, NEW p \in Procs, NEW m \in Journal, NEW calls \in [Callers -> FlushCall],
         db' = db, log' = log, setting' = setting, txn' = txn, reader' = reader, Vetted(m, calls),
         proc' = [proc EXCEPT ![p] = m], flush' = [flush EXCEPT ![p] = calls]
  PROVE  IInv'
  <1>1. txn' \in [Procs -> Txn] /\ reader' \in [Readers -> Reader]
    BY DEF IInv, TypeOK
  <1>2. \A q \in Procs : TxnInv(q)'
    BY TxnKept DEF IInv
  <1> QED
    BY <1>1, <1>2, LocalStep

(* emitLossy refuses, drops, evicts or queues.                             *)
LEMMA EmitLossyStep ==
  ASSUME IInv, NEW p \in Procs, NEW s \in Sources, NEW given \in SourceSeqs, emitLossy(p, s, given)
  PROVE  IInv'
  <1> DEFINE me == ensureFloors(proc[p], s)
             ss == IF given = Unnamed THEN me.sourceSequence[s] ELSE given
             e == [seq |-> me.sequence, src |-> s, ss |-> ss, type |-> "log", channel |-> "lossy"]
             claimed == raiseFloors(me, e)
  <1>1. /\ TypeOK /\ Vetted(proc[p], flush[p]) /\ flush[p] \in [Callers -> FlushCall] /\ proc[p] \in Journal
        /\ db' = db /\ log' = log /\ setting' = setting /\ txn' = txn /\ reader' = reader
        /\ proc[p].status = "open" /\ ss < MaxSafe
    BY IInvParts DEF emitLossy
  <1>2. /\ me \in Journal /\ SameQueue(me, proc[p]) /\ me.sequence \in 0 .. Ceiling
        /\ me.sourceSequence[s] \in 0 .. Ceiling
    BY <1>1, EnsuredFloors
  <1>3. Vetted(me, flush[p]) /\ me.status = "open"
    BY <1>1, <1>2, VettedSame DEF SameQueue
  <1>4. CASE proc' = [proc EXCEPT ![p] = me] /\ UNCHANGED flush
    BY <1>1, <1>2, <1>3, <1>4, JournalStep, Untouched, ZenonT(60)
  <1>5. CASE me.sequence < MaxSafe
    <2>1. me.sequence \in Seqs /\ ss \in Seqs
      <3>1. MaxSafe \in Nat /\ MaxSafe <= Ceiling /\ Named \subseteq Seqs /\ Ceiling \in Nat
        BY <1>1, SettingFacts, EntryFacts
      <3>2. me.sequence \in Seqs
        BY <1>2, <1>5, <3>1 DEF Seqs
      <3>3. CASE given = Unnamed
        BY <1>1, <1>2, <3>1, <3>2, <3>3 DEF Seqs
      <3>4. CASE given # Unnamed
        BY <3>1, <3>2, <3>4 DEF SourceSeqs
      <3> QED
        BY <3>2, <3>3, <3>4
    <2>2. e \in Entry /\ IsLossy(e)
      BY <2>1 DEF Entry, IsLossy
    <2> HIDE DEF me, e
    <2>3. claimed \in Journal /\ SameQueue(claimed, me)
      BY <1>2, <2>2, RaisedFloors
    <2>4. Vetted(claimed, flush[p]) /\ claimed.status = "open" /\ claimed.queue = me.queue
      BY <1>3, <2>3, VettedSame DEF SameQueue
    <2> HIDE DEF claimed
    <2>5. CASE proc' = [proc EXCEPT ![p] = claimed] /\ UNCHANGED flush
      BY <1>1, <2>3, <2>4, <2>5, JournalStep, Untouched
    <2>6. CASE /\ Len(me.queue) >= Capacity
               /\ proc' = [proc EXCEPT ![p] = [claimed EXCEPT !.queue = Append(Tail(@), e)]]
               /\ forgive(p, Head(me.queue))
      <3>1. me.queue # <<>>
        <4>1. Capacity \in Nat /\ Capacity > 0
          BY <1>1, SettingFacts
        <4> QED
          BY <2>6, <4>1
      <3> DEFINE m == [claimed EXCEPT !.queue = Append(Tail(@), e)]
                 rest == [c \in Callers |-> [flush[p][c] EXCEPT !.covers = @ \ {Head(claimed.queue)}]]
      <3>2. m \in Journal /\ rest \in [Callers -> FlushCall] /\ Vetted(m, rest)
        BY <1>1, <2>2, <2>3, <2>4, <3>1, VettedEvict
      <3>3. proc' = [proc EXCEPT ![p] = m] /\ flush' = [flush EXCEPT ![p] = rest]
        BY <2>4, <2>6 DEF forgive
      <3> HIDE DEF m, rest
      <3> QED
        BY <1>1, <3>2, <3>3, JournalStep
    <2>7. CASE /\ proc' = [proc EXCEPT ![p] = [claimed EXCEPT !.queue = Append(@, e), !.pending = @ + 1]]
               /\ UNCHANGED flush
      <3> DEFINE m == [claimed EXCEPT !.queue = Append(@, e), !.pending = @ + 1]
      <3>1. m \in Journal /\ Vetted(m, flush[p])
        BY <2>2, <2>3, <2>4, VettedAppend
      <3>2. proc' = [proc EXCEPT ![p] = m] /\ flush' = [flush EXCEPT ![p] = flush[p]]
        BY <1>1, <2>7, Untouched
      <3> HIDE DEF m
      <3> QED
        BY <1>1, <3>1, <3>2, JournalStep
    <2> QED
      BY <1>4, <1>5, <2>5, <2>6, <2>7, ZenonT(60) DEF emitLossy, me, e, claimed
  <1> QED
    BY <1>4, <1>5 DEF emitLossy

(* The writer takes a batch from the head of the queue.                    *)
LEMMA TakeBatchStep == ASSUME IInv, NEW p \in Procs, takeBatch(p) PROVE IInv'
  <1> DEFINE me == proc[p]
             n == IF Len(me.queue) < BatchSize THEN Len(me.queue) ELSE BatchSize
             a == SubSeq(me.queue, 1, n)
             b == SubSeq(me.queue, n + 1, Len(me.queue))
             m == [me EXCEPT !.batch = a, !.queue = b]
  <1>1. /\ TypeOK /\ Vetted(me, flush[p]) /\ flush[p] \in [Callers -> FlushCall] /\ me \in Journal
        /\ db' = db /\ log' = log /\ setting' = setting /\ txn' = txn /\ reader' = reader
        /\ me.status \in Unfinished /\ me.batch = <<>>
        /\ proc' = [proc EXCEPT ![p] = m] /\ flush' = [flush EXCEPT ![p] = flush[p]]
    BY IInvParts, Untouched DEF takeBatch, Unfinished
  <1>2. me.queue \in Seq(Entry) /\ Len(me.queue) \in Nat
    BY <1>1, LenProperties DEF Journal
  <1>3. n \in 0 .. Len(me.queue)
    <2>1. BatchSize \in Nat
      BY <1>1, SettingFacts
    <2> QED
      BY <1>2, <2>1
  <1> HIDE DEF me, n
  <1>4. /\ a \in Seq(Entry) /\ Len(a) = n /\ b \in Seq(Entry) /\ Len(b) = Len(me.queue) - n
        /\ ToSet(me.queue) = ToSet(a) \cup ToSet(b)
    BY <1>2, <1>3, SplitSet
  <1> HIDE DEF a, b
  <1>5. /\ m \in Journal /\ m.queue = b /\ m.batch = a /\ m.pending = me.pending
        /\ m.status = me.status /\ m.persisted = me.persisted
    BY <1>1, <1>4 DEF Journal
  <1> HIDE DEF m
  <1>6. Outstanding(m) = Outstanding(me)
    <2>1. ToSet(me.batch) = {}
      BY <1>1 DEF ToSet
    <2> QED
      BY <1>4, <1>5, <2>1, OutstandingIs
  <1>7. QueueInv(m)
    <2>1. me.pending = Len(me.queue) + Len(me.batch) /\ Len(me.batch) = 0 /\ ~me.persisted
      BY <1>1 DEF Vetted, QueueInv, Unfinished
    <2>2. Len(a) = n /\ Len(b) = Len(me.queue) - n
      BY <1>4
    <2>3. me.pending = Len(b) + Len(a)
      BY <1>2, <1>3, <2>1, <2>2
    <2> QED
      BY <1>1, <1>5, <1>6, <2>1, <2>3 DEF Vetted, QueueInv, Unfinished
  <1>8. Vetted(m, flush[p])
    BY <1>1, <1>5, <1>6, <1>7 DEF Vetted
  <1> QED
    BY <1>1, <1>5, <1>8, JournalStep

(* The waiters of a process are told.                                      *)
LEMMA WaitersTold ==
  ASSUME TypeOK, NEW p \in Procs, NEW st \in {"ok", "failed"}, completeFlushWaiters(p, st)
  PROVE  \E calls \in [Callers -> FlushCall] :
            /\ flush' = [flush EXCEPT ![p] = calls]
            /\ \A c \in Callers :
                 /\ calls[c].covers = flush[p][c].covers
                 /\ calls[c].st = IF flush[p][c].st = "waiting" THEN st ELSE flush[p][c].st
  <1> DEFINE calls == [c \in Callers |->
                 IF c \in Waiting(p) THEN [flush[p][c] EXCEPT !.st = st] ELSE flush[p][c]]
  <1>1. flush[p] \in [Callers -> FlushCall]
    BY DEF TypeOK
  <1>2. ASSUME NEW c \in Callers
        PROVE  /\ calls[c] \in FlushCall /\ calls[c].covers = flush[p][c].covers
               /\ calls[c].st = IF flush[p][c].st = "waiting" THEN st ELSE flush[p][c].st
    <2>1. flush[p][c] \in FlushCall /\ (c \in Waiting(p) <=> flush[p][c].st = "waiting")
      BY <1>1 DEF Waiting
    <2> QED
      BY <2>1 DEF FlushCall
  <1>3. calls \in [Callers -> FlushCall]
    BY <1>2
  <1> QED
    BY <1>2, <1>3 DEF completeFlushWaiters

(* The writer settles the batch it has persisted; when nothing is left,    *)
(* the flushes that wait have succeeded.                                   *)
LEMMA SettleStep == ASSUME IInv, NEW p \in Procs, settle(p) PROVE IInv'
  <1> DEFINE me == proc[p]
             left == me.pending - Len(me.batch)
             m == [me EXCEPT !.pending = left, !.batch = <<>>, !.persisted = FALSE]
  <1>1. /\ TypeOK /\ Vetted(me, flush[p]) /\ flush[p] \in [Callers -> FlushCall] /\ me \in Journal
        /\ db' = db /\ log' = log /\ setting' = setting /\ txn' = txn /\ reader' = reader
        /\ me.persisted /\ proc' = [proc EXCEPT ![p] = m]
    BY IInvParts DEF settle
  <1>2. me.queue \in Seq(Entry) /\ me.batch \in Seq(Entry) /\ me.pending \in Int
    BY <1>1 DEF Journal
  <1>3. /\ me.status \in Unfinished /\ me.pending = Len(me.queue) + Len(me.batch)
        /\ \A e \in ToSet(me.batch) : Committed(e)
    BY <1>1 DEF Vetted, QueueInv, Unfinished
  <1>4. left = Len(me.queue) /\ left \in Int /\ (left = 0 => me.queue = <<>>)
    <2>1. Len(me.queue) \in Nat /\ Len(me.batch) \in Nat /\ (Len(me.queue) = 0 => me.queue = <<>>)
      BY <1>2, LenProperties, EmptySeq
    <2> QED
      BY <1>3, <2>1
  <1> HIDE DEF left
  <1>5. /\ m \in Journal /\ m.queue = me.queue /\ m.batch = <<>> /\ m.pending = left
        /\ m.status = me.status /\ m.persisted = FALSE
    <2>1. left \in Int /\ <<>> \in Seq(Entry)
      BY <1>4, EmptySeq
    <2> QED
      BY <1>1, <2>1 DEF Journal
  <1> HIDE DEF m
  <1>6. Outstanding(m) = ToSet(me.queue) /\ Outstanding(me) = ToSet(me.queue) \cup ToSet(me.batch)
    BY <1>5, OutstandingIs DEF ToSet
  <1>7. QueueInv(m)
    <2>1. m.pending = Len(m.queue) + Len(m.batch)
      <3>1. Len(me.queue) \in Nat
        BY <1>2, LenProperties
      <3> QED
        BY <1>4, <1>5, <3>1
    <2> QED
      BY <1>1, <1>5, <1>6, <2>1 DEF Vetted, QueueInv
  <1>8. ASSUME NEW c \in Callers, flush[p][c].st = "waiting", NEW e \in flush[p][c].covers
        PROVE  e \in ToSet(me.queue) \/ Committed(e)
    BY <1>1, <1>3, <1>6, <1>8 DEF Vetted
  <1>9. CASE left = 0
    <2>1. completeFlushWaiters(p, "ok")
      BY <1>9 DEF settle, left
    <2>2. PICK calls \in [Callers -> FlushCall] :
            /\ flush' = [flush EXCEPT ![p] = calls]
            /\ \A c \in Callers :
                 /\ calls[c].covers = flush[p][c].covers
                 /\ calls[c].st = IF flush[p][c].st = "waiting" THEN "ok" ELSE flush[p][c].st
      BY <1>1, <2>1, WaitersTold
    <2>3. ToSet(me.queue) = {}
      BY <1>4, <1>9 DEF ToSet
    <2>4. Vetted(m, calls)
      BY <1>1, <1>7, <1>8, <2>2, <2>3 DEF Vetted
    <2> QED
      BY <1>1, <1>5, <2>2, <2>4, JournalStep
  <1>10. CASE left # 0
    <2>1. flush' = [flush EXCEPT ![p] = flush[p]]
      BY <1>1, <1>10, Untouched DEF settle, left
    <2>2. Vetted(m, flush[p])
      BY <1>1, <1>6, <1>7, <1>8 DEF Vetted
    <2> QED
      BY <1>1, <1>5, <2>1, <2>2, JournalStep
  <1> QED
    BY <1>9, <1>10

(* The writer loses a batch: whoever waits is told so.                     *)
LEMMA FailSinkStep == ASSUME IInv, NEW p \in Procs, failSink(p) PROVE IInv'
  <1> DEFINE me == proc[p]
             left == me.pending - Len(me.batch)
             loss == me.lossEpoch + 1
             told == IF Waiting(p) # {} THEN me.lossEpoch + 1 ELSE me.flushedLossEpoch
             m == [me EXCEPT !.lossEpoch = loss, !.pending = left, !.batch = <<>>, !.flushedLossEpoch = told]
  <1>1. /\ TypeOK /\ Vetted(me, flush[p]) /\ flush[p] \in [Callers -> FlushCall] /\ me \in Journal
        /\ db' = db /\ log' = log /\ setting' = setting /\ txn' = txn /\ reader' = reader
        /\ ~me.persisted /\ me.batch # <<>> /\ me.lossEpoch < MaxLosses /\ completeFlushWaiters(p, "failed")
    BY IInvParts DEF failSink
  <1>a. proc' = [proc EXCEPT ![p] = m]
    BY <1>1 DEF failSink, Journal
  <1>2. /\ me.queue \in Seq(Entry) /\ me.batch \in Seq(Entry) /\ me.pending \in Int
        /\ me.lossEpoch \in 0 .. MaxLosses /\ me.flushedLossEpoch \in 0 .. MaxLosses
    BY <1>1 DEF Journal
  <1>3. me.status \in Unfinished /\ me.pending = Len(me.queue) + Len(me.batch)
    BY <1>1 DEF Vetted, QueueInv, Unfinished
  <1>4. Len(me.queue) \in Nat /\ Len(me.batch) \in Nat
    BY <1>2, LenProperties
  <1>5. left = Len(me.queue) /\ left \in Int
    BY <1>3, <1>4
  <1>6. loss \in 0 .. MaxLosses /\ told \in 0 .. MaxLosses
    <2>1. MaxLosses \in Nat
      BY JournalAssumption
    <2> QED
      BY <1>1, <1>2, <2>1
  <1> HIDE DEF left, loss, told
  <1>7. /\ m \in Journal /\ m.queue = me.queue /\ m.batch = <<>> /\ m.pending = left
        /\ m.status = me.status /\ m.persisted = me.persisted
    <2>1. left \in Int /\ <<>> \in Seq(Entry)
      BY <1>5, EmptySeq
    <2> QED
      BY <1>1, <1>6, <2>1 DEF Journal
  <1> HIDE DEF m
  <1>8. Outstanding(m) = ToSet(me.queue) /\ Outstanding(me) = ToSet(me.queue) \cup ToSet(me.batch)
    BY <1>7, OutstandingIs DEF ToSet
  <1>9. QueueInv(m)
    <2>1. m.pending = Len(m.queue) + Len(m.batch)
      BY <1>4, <1>5, <1>7
    <2> QED
      BY <1>1, <1>7, <1>8, <2>1 DEF Vetted, QueueInv
  <1>10. PICK calls \in [Callers -> FlushCall] :
            /\ flush' = [flush EXCEPT ![p] = calls]
            /\ \A c \in Callers :
                 /\ calls[c].covers = flush[p][c].covers
                 /\ calls[c].st = IF flush[p][c].st = "waiting" THEN "failed" ELSE flush[p][c].st
    BY <1>1, WaitersTold
  <1>11. Vetted(m, calls)
    BY <1>1, <1>9, <1>10 DEF Vetted
  <1> QED
    BY <1>1, <1>a, <1>7, <1>10, <1>11, JournalStep

(* A call of flush covers what is outstanding; with nothing pending, that  *)
(* is nothing.                                                             *)
LEMMA FlushCalled ==
  ASSUME TypeOK, NEW p \in Procs, NEW c \in Callers, NEW me \in Journal, Vetted(me, flush[p]),
         flushInternal(p, c, me)
  PROVE  \E m \in Journal : \E calls \in [Callers -> FlushCall] :
            /\ proc' = [proc EXCEPT ![p] = m] /\ flush' = [flush EXCEPT ![p] = calls]
            /\ Vetted(m, calls)
  <1> DEFINE Call(st) == [st |-> st, covers |-> Outstanding(me)]
             Calls(st) == [flush[p] EXCEPT ![c] = Call(st)]
             told == [me EXCEPT !.flushedLossEpoch = me.lossEpoch]
  <1>1. flush[p] \in [Callers -> FlushCall] /\ Outstanding(me) \subseteq Entry
    <2>1. me.queue \in Seq(Entry) /\ me.batch \in Seq(Entry)
      BY DEF Journal
    <2>2. ToSet(me.queue) \subseteq Entry /\ ToSet(me.batch) \subseteq Entry
      BY <2>1, FiniteMembers
    <2> QED
      BY <2>2, OutstandingIs DEF TypeOK
  <1>2. ASSUME NEW st \in {"idle", "waiting", "ok", "failed"}
        PROVE  /\ Calls(st) \in [Callers -> FlushCall]
               /\ Calls(st)[c].st = st /\ Calls(st)[c].covers = Outstanding(me)
               /\ \A d \in Callers \ {c} : Calls(st)[d] = flush[p][d]
    BY <1>1 DEF FlushCall
  <1>3. \A st : [flush EXCEPT ![p][c] = Call(st)] = [flush EXCEPT ![p] = Calls(st)]
    BY DEF TypeOK
  <1>4. /\ told \in Journal /\ SameQueue(told, me)
    BY DEF Journal, SameQueue
  <1>5. Vetted(told, flush[p])
    BY <1>4, VettedSame
  <1> HIDE DEF Calls, told
  <1>6. Vetted(told, Calls("failed")) /\ Vetted(me, Calls("failed"))
    BY <1>2, <1>5 DEF Vetted
  <1>7. Vetted(me, Calls("waiting"))
    BY <1>2 DEF Vetted
  <1>8. me.pending = 0 => Outstanding(me) = {}
    <2> SUFFICES ASSUME me.pending = 0 PROVE me.queue = <<>> /\ me.batch = <<>>
      BY OutstandingIs DEF ToSet
    <2>1. CASE me.status \in {"open", "closing"}
      <3>1. me.queue \in Seq(Entry) /\ me.batch \in Seq(Entry) /\ 0 = Len(me.queue) + Len(me.batch)
        BY <2>1 DEF Vetted, QueueInv, Journal
      <3>2. Len(me.queue) \in Nat /\ Len(me.batch) \in Nat
        BY <3>1, LenProperties
      <3> DEFINE a == Len(me.queue)
                 b == Len(me.batch)
      <3>3. a \in Nat /\ b \in Nat /\ 0 = a + b
        BY <3>1, <3>2
      <3> HIDE DEF a, b
      <3>4. a = 0 /\ b = 0
        BY <3>3
      <3> QED
        BY <3>1, <3>4, EmptySeq DEF a, b
    <2>2. CASE me.status \notin {"open", "closing"}
      BY <2>2 DEF Vetted, QueueInv
    <2> QED
      BY <2>1, <2>2
  <1>9. me.pending = 0 => Vetted(me, Calls("ok"))
    BY <1>2, <1>8 DEF Vetted
  <1>10. \/ proc' = [proc EXCEPT ![p] = told] /\ flush' = [flush EXCEPT ![p] = Calls("failed")]
         \/ proc' = [proc EXCEPT ![p] = me] /\ flush' = [flush EXCEPT ![p] = Calls("failed")]
         \/ /\ proc' = [proc EXCEPT ![p] = me] /\ me.pending = 0
            /\ flush' = [flush EXCEPT ![p] = Calls("ok")]
         \/ proc' = [proc EXCEPT ![p] = me] /\ flush' = [flush EXCEPT ![p] = Calls("waiting")]
    <2>1. CASE me.lossEpoch > me.flushedLossEpoch
      BY <2>1, <1>3 DEF flushInternal, told
    <2>2. CASE ~(me.lossEpoch > me.flushedLossEpoch) /\ me.lossEpoch = me.flushedLossEpoch /\ me.status = "closed"
      BY <2>2, <1>3 DEF flushInternal
    <2>3. CASE ~(me.lossEpoch > me.flushedLossEpoch) /\ ~(me.lossEpoch = me.flushedLossEpoch /\ me.status = "closed")
      BY <2>3, <1>3 DEF flushInternal
    <2> QED
      BY <2>1, <2>2, <2>3
  <1> QED
    BY <1>2, <1>4, <1>6, <1>7, <1>9, <1>10

(* The service's flush.                                                    *)
LEMMA FlushStep == ASSUME IInv, NEW p \in Procs, Flush(p) PROVE IInv'
  <1>1. /\ TypeOK /\ Vetted(proc[p], flush[p]) /\ proc[p] \in Journal /\ flushInternal(p, "user", proc[p])
        /\ db' = db /\ log' = log /\ setting' = setting /\ txn' = txn /\ reader' = reader
        /\ "user" \in Callers
    BY IInvParts DEF Flush, Callers
  <1>2. PICK m \in Journal : \E calls \in [Callers -> FlushCall] :
            /\ proc' = [proc EXCEPT ![p] = m] /\ flush' = [flush EXCEPT ![p] = calls]
            /\ Vetted(m, calls)
    BY <1>1, FlushCalled
  <1> QED
    BY <1>1, <1>2, JournalStep

(* A call that has returned is forgotten.                                  *)
LEMMA Forgotten ==
  ASSUME TypeOK, NEW p \in Procs, NEW c \in Callers, NEW me, Vetted(me, flush[p])
  PROVE  \E calls \in [Callers -> FlushCall] :
            /\ [flush EXCEPT ![p][c] = [st |-> "idle", covers |-> {}]] = [flush EXCEPT ![p] = calls]
            /\ Vetted(me, calls)
            /\ \A d \in Callers \ {c} : calls[d] = flush[p][d]
            /\ calls[c].st = "idle"
  <1> DEFINE calls == [flush[p] EXCEPT ![c] = [st |-> "idle", covers |-> {}]]
  <1>1. /\ calls \in [Callers -> FlushCall] /\ calls[c].st = "idle"
        /\ \A d \in Callers \ {c} : calls[d] = flush[p][d]
    BY DEF TypeOK, FlushCall
  <1>2. [flush EXCEPT ![p][c] = [st |-> "idle", covers |-> {}]] = [flush EXCEPT ![p] = calls]
    BY DEF TypeOK
  <1> HIDE DEF calls
  <1>3. Vetted(me, calls)
    BY <1>1 DEF Vetted
  <1> QED
    BY <1>1, <1>2, <1>3

(* A flush returns to its user.                                            *)
LEMMA FlushReturnsStep == ASSUME IInv, NEW p \in Procs, FlushReturns(p) PROVE IInv'
  <1>1. /\ TypeOK /\ Vetted(proc[p], flush[p]) /\ proc[p] \in Journal /\ "user" \in Callers
        /\ db' = db /\ log' = log /\ setting' = setting /\ txn' = txn /\ reader' = reader
        /\ proc' = [proc EXCEPT ![p] = proc[p]]
        /\ flush' = [flush EXCEPT ![p]["user"] = [st |-> "idle", covers |-> {}]]
    BY IInvParts, Untouched DEF FlushReturns, Callers
  <1>2. PICK calls \in [Callers -> FlushCall] :
            flush' = [flush EXCEPT ![p] = calls] /\ Vetted(proc[p], calls)
    BY <1>1, Forgotten
  <1> QED
    BY <1>1, <1>2, JournalStep

---------------------------------------------------------------------------
(* A process closes its journal, dies, and opens it again                  *)

(* The streams of a process end with it.                                   *)
LEMMA CutReaders ==
  ASSUME TypeOK, NEW p \in Procs, Cut(p)
  PROVE  /\ reader' \in [Readers -> Reader]
         /\ \A r \in Readers : reader'[r] = reader[r] \/ reader'[r].st = "off"
  <1>1. Stopped \in Reader /\ Stopped.st = "off"
    BY JournalAssumption DEF Stopped, Reader, NoFloor
  <1> QED
    BY <1>1 DEF Cut, TypeOK

(* The database of a new run.                                              *)
LEMMA EmptyIsDb == Empty \in Db /\ Empty.rows = {} /\ Empty.checkpoints = {} /\ Empty.floor = NoFloor
  <1>1. (CHOOSE p \in Procs : TRUE) \in Procs
    BY JournalAssumption
  <1> QED
    BY <1>1 DEF Empty, Db

(* No transaction.                                                         *)
LEMMA NoTxnIsTxn ==
  /\ NoTxn \in Txn /\ NoTxn.st = "none" /\ NoTxn.new = <<>> /\ NoTxn.parked = <<>>
  BY EmptyIsDb, EmptySeq DEF NoTxn, Txn

(* A transaction ends, in whatever way, without effect.                    *)
LEMMA Aborted ==
  ASSUME IInv, NEW p \in Procs, Abort(p)
  PROVE  txn' \in [Procs -> Txn] /\ \A q \in Procs : TxnInv(q)'
  <1>1. txn' \in [Procs -> Txn] /\ txn'[p] = NoTxn /\ \A q \in Procs \ {p} : txn'[q] = txn[q]
    BY NoTxnIsTxn DEF Abort, IInv, TypeOK
  <1>2. TxnInv(p)'
    BY <1>1, NoTxnIsTxn DEF TxnInv
  <1> QED
    BY <1>1, <1>2, TxnKept DEF IInv

(* The finalizer flushes.                                                  *)
LEMMA CloseStep == ASSUME IInv, NEW p \in Procs, close(p) PROVE IInv'
  <1> DEFINE me == [proc[p] EXCEPT !.status = "closing"]
  <1>1. /\ TypeOK /\ Vetted(proc[p], flush[p]) /\ proc[p] \in Journal /\ proc[p].status = "open"
        /\ db' = db /\ log' = log /\ setting' = setting /\ txn' = txn
        /\ flushInternal(p, "finalizer", me) /\ Cut(p) /\ "finalizer" \in Callers
    BY IInvParts DEF close, Callers
  <1>2. /\ me \in Journal /\ me.status = "closing" /\ me.queue = proc[p].queue /\ me.batch = proc[p].batch
        /\ me.persisted = proc[p].persisted /\ me.pending = proc[p].pending
    BY <1>1 DEF Journal
  <1> HIDE DEF me
  <1>3. Outstanding(me) = Outstanding(proc[p])
    BY <1>2 DEF Outstanding
  <1>4. QueueInv(me)
    BY <1>1, <1>2, <1>3 DEF Vetted, QueueInv
  <1>5. Vetted(me, flush[p])
    BY <1>1, <1>2, <1>3, <1>4 DEF Vetted, Unfinished
  <1>6. PICK m \in Journal : \E calls \in [Callers -> FlushCall] :
            /\ proc' = [proc EXCEPT ![p] = m] /\ flush' = [flush EXCEPT ![p] = calls]
            /\ Vetted(m, calls)
    BY <1>1, <1>2, <1>5, FlushCalled
  <1>7. /\ reader' \in [Readers -> Reader]
        /\ \A r \in Readers : reader'[r] = reader[r] \/ reader'[r].st = "off"
    BY <1>1, CutReaders
  <1>8. txn' \in [Procs -> Txn] /\ \A q \in Procs : TxnInv(q)'
    BY <1>1, TxnKept DEF IInv, TypeOK
  <1> QED
    BY <1>1, <1>6, <1>7, <1>8, LocalStep

(* What an open journal held in memory is gone.                            *)
LEMMA ClosedStep == ASSUME IInv, NEW p \in Procs, closed(p) PROVE IInv'
  <1> DEFINE m == [proc[p] EXCEPT !.status = "closed", !.queue = <<>>, !.batch = <<>>, !.persisted = FALSE]
  <1>1. /\ TypeOK /\ Vetted(proc[p], flush[p]) /\ proc[p] \in Journal /\ "finalizer" \in Callers
        /\ db' = db /\ log' = log /\ setting' = setting /\ txn' = txn /\ reader' = reader
        /\ proc' = [proc EXCEPT ![p] = m]
        /\ flush' = [flush EXCEPT ![p]["finalizer"] = [st |-> "idle", covers |-> {}]]
    BY IInvParts DEF closed, Callers
  <1>2. m \in Journal /\ m.status = "closed" /\ m.queue = <<>> /\ m.batch = <<>> /\ m.persisted = FALSE
    BY <1>1, EmptySeq DEF Journal
  <1>3. PICK calls \in [Callers -> FlushCall] :
            flush' = [flush EXCEPT ![p] = calls] /\ Vetted(proc[p], calls)
    BY <1>1, Forgotten
  <1> HIDE DEF m
  <1>4. Vetted(m, calls)
    <2>1. Outstanding(m) = {}
      BY <1>2, OutstandingIs DEF ToSet
    <2> QED
      BY <1>2, <1>3, <2>1 DEF Vetted, QueueInv, Unfinished
  <1> QED
    BY <1>1, <1>2, <1>3, <1>4, JournalStep

(* A journal that has just been opened.                                    *)
LEMMA OpenedIsJournal ==
  /\ Opened \in Journal /\ Opened.status = "open" /\ Opened.queue = <<>> /\ Opened.batch = <<>>
  /\ Opened.pending = 0 /\ Opened.persisted = FALSE /\ QueueInv(Opened)
  <1>1. /\ Opened \in Journal /\ Opened.status = "open" /\ Opened.queue = <<>> /\ Opened.batch = <<>>
        /\ Opened.pending = 0 /\ Opened.persisted = FALSE
    <2>1. NoFloor \in NoFloor .. Ceiling /\ <<>> \in Seq(Entry) /\ 0 \in 0 .. MaxLosses /\ 0 \in Int
      BY JournalAssumption, EntryFacts, EmptySeq
    <2> QED
      BY <2>1 DEF Opened, Journal
  <1>2. Outstanding(Opened) = {}
    BY <1>1, OutstandingIs DEF ToSet
  <1>3. Len(<<>>) = 0
    BY EmptySeq
  <1> QED
    BY <1>1, <1>2, <1>3 DEF QueueInv

(* No call of flush.                                                       *)
LEMMA IdleCalls == Idle \in [Callers -> FlushCall] /\ \A c \in Callers : Idle[c].st = "idle"
  BY DEF Idle, FlushCall

(* A crash leaves only the database.                                       *)
LEMMA CrashStep == ASSUME IInv, NEW p \in Procs, crash(p) PROVE IInv'
  <1> DEFINE m == [Opened EXCEPT !.status = "down"]
  <1>1. /\ TypeOK /\ db' = db /\ log' = log /\ setting' = setting /\ Abort(p) /\ Cut(p)
        /\ proc' = [proc EXCEPT ![p] = m] /\ flush' = [flush EXCEPT ![p] = Idle]
    BY DEF crash, IInv
  <1>2. m \in Journal /\ m.status = "down" /\ m.queue = <<>> /\ m.batch = <<>> /\ m.persisted = FALSE
    BY OpenedIsJournal DEF Journal
  <1> HIDE DEF m
  <1>3. Vetted(m, Idle)
    <2>1. Outstanding(m) = {}
      BY <1>2, OutstandingIs DEF ToSet
    <2> QED
      BY <1>2, <2>1, IdleCalls DEF Vetted, QueueInv
  <1>4. /\ reader' \in [Readers -> Reader]
        /\ \A r \in Readers : reader'[r] = reader[r] \/ reader'[r].st = "off"
    BY <1>1, CutReaders
  <1>5. txn' \in [Procs -> Txn] /\ \A q \in Procs : TxnInv(q)'
    BY <1>1, Aborted
  <1> QED
    BY <1>1, <1>2, <1>3, <1>4, <1>5, IdleCalls, LocalStep

(* A journal opens empty.                                                  *)
LEMMA OpenStep == ASSUME IInv, NEW p \in Procs, open(p) PROVE IInv'
  <1>1. /\ TypeOK /\ db' = db /\ log' = log /\ setting' = setting /\ txn' = txn /\ reader' = reader
        /\ proc' = [proc EXCEPT ![p] = Opened] /\ flush' = [flush EXCEPT ![p] = flush[p]]
        /\ flush[p] \in [Callers -> FlushCall] /\ \A c \in Callers : flush[p][c].st = "idle"
    BY IInvParts, Untouched DEF open
  <1>2. Vetted(Opened, flush[p])
    BY <1>1, OpenedIsJournal DEF Vetted
  <1> QED
    BY <1>1, <1>2, OpenedIsJournal, JournalStep

---------------------------------------------------------------------------
(* The durable channel                                                     *)

(* TxnInv, of a transaction of process p.                                  *)
Proper(t, p) ==
    /\ t.st = "settling" => t.parked # <<>>
    /\ t.st = "open" =>
        /\ IsFiniteSet(t.rows)
        /\ t.rows = t.snap.rows \cup ToSet(t.new)
        /\ \A k \in DOMAIN t.new :
            /\ t.new[k].channel = "durable" /\ Above(t.new[k].seq, t.snap.rows)
            /\ \A j \in 1 .. k - 1 : t.new[j].seq < t.new[k].seq
        /\ \A k \in DOMAIN t.parked :
            /\ t.parked[k].inserted => t.new # <<>>
            /\ t.parked[k].owner => t.snap.holder = p

(* Proper is TxnInv, of a process.                                         *)
LEMMA TxnInvIs == \A p \in Procs : TxnInv(p) <=> Proper(txn[p], p)
  BY DEF TxnInv, Proper

(* A step of one transaction.                                              *)
LEMMA TxnStep ==
  ASSUME IInv, NEW p \in Procs, NEW t \in Txn, Proper(t, p), txn' = [txn EXCEPT ![p] = t]
  PROVE  txn' \in [Procs -> Txn] /\ \A q \in Procs : TxnInv(q)'
  <1>1. txn' \in [Procs -> Txn] /\ txn'[p] = t /\ \A q \in Procs \ {p} : txn'[q] = txn[q]
    BY DEF IInv, TypeOK
  <1>2. TxnInv(p)'
    BY <1>1 DEF TxnInv, Proper
  <1> QED
    BY <1>1, <1>2, TxnKept DEF IInv

(* A step of one process that commits nothing and leaves what it queues,   *)
(* its calls of flush and its streams.                                     *)
LEMMA BodyStep ==
  ASSUME IInv, NEW p \in Procs, NEW m \in Journal, SameQueue(m, proc[p]),
         proc' = [proc EXCEPT ![p] = m],
         db' = db, log' = log, setting' = setting, flush' = flush, reader' = reader,
         txn' \in [Procs -> Txn], \A q \in Procs : TxnInv(q)'
  PROVE  IInv'
  <1>1. /\ TypeOK /\ Vetted(proc[p], flush[p]) /\ flush[p] \in [Callers -> FlushCall]
        /\ flush' = [flush EXCEPT ![p] = flush[p]] /\ reader' \in [Readers -> Reader]
    BY IInvParts, Untouched
  <1>2. Vetted(m, flush[p])
    BY <1>1, VettedSame
  <1> QED
    BY <1>1, <1>2, LocalStep

(* One that leaves its journal altogether.                                 *)
LEMMA QuietStep ==
  ASSUME IInv, NEW p \in Procs, proc' = proc,
         db' = db, log' = log, setting' = setting, flush' = flush, reader' = reader,
         txn' \in [Procs -> Txn], \A q \in Procs : TxnInv(q)'
  PROVE  IInv'
  <1>1. proc[p] \in Journal /\ SameQueue(proc[p], proc[p]) /\ proc' = [proc EXCEPT ![p] = proc[p]]
    BY IInvParts, Untouched DEF SameQueue
  <1> QED
    BY <1>1, BodyStep

(* A transaction begins with nothing of its own.                           *)
LEMMA BeganProper ==
  ASSUME IInv, NEW p \in Procs
  PROVE  Began \in Txn /\ Proper(Began, p)
  <1>1. db \in Db /\ IsFiniteSet(db.rows)
    BY DEF IInv, TypeOK, StoreInv, RowsKept
  <1>2. /\ Began \in Txn /\ Began.st = "open" /\ Began.snap = db /\ Began.rows = db.rows
        /\ Began.new = <<>> /\ Began.parked = <<>>
    BY <1>1, EmptySeq DEF Began, Txn, Db
  <1>3. DOMAIN <<>> = {} /\ ToSet(<<>>) = {}
    BY DEF ToSet
  <1> QED
    BY <1>1, <1>2, <1>3 DEF Proper

(* A transaction begins.                                                   *)
LEMMA TransactStep == ASSUME IInv, NEW p \in Procs, transact(p) PROVE IInv'
  <1>1. txn' \in [Procs -> Txn] /\ \A q \in Procs : TxnInv(q)'
    BY BeganProper, TxnStep DEF transact
  <1> QED
    BY <1>1, QuietStep DEF transact

(* It begins again after SQLITE_BUSY_SNAPSHOT.                             *)
LEMMA ReplayStep == ASSUME IInv, NEW p \in Procs, replay(p) PROVE IInv'
  <1>1. txn' \in [Procs -> Txn] /\ \A q \in Procs : TxnInv(q)'
    BY BeganProper, TxnStep DEF replay
  <1> QED
    BY <1>1, QuietStep DEF replay

(* It rolls back.                                                          *)
LEMMA RollbackStep == ASSUME IInv, NEW p \in Procs, rollback(p) PROVE IInv'
  <1>1. txn' \in [Procs -> Txn] /\ \A q \in Procs : TxnInv(q)'
    BY Aborted DEF rollback
  <1> QED
    BY <1>1, QuietStep DEF rollback

(* The body parks a settlement for a row it found.                         *)
LEMMA ParkedDuplicate ==
  ASSUME IInv, NEW p \in Procs, NEW f \in txn[p].rows, NEW owner \in BOOLEAN,
         txn[p].st = "open", owner => txn[p].snap.holder = p, Park(p, f, FALSE, owner)
  PROVE  txn' \in [Procs -> Txn] /\ \A q \in Procs : TxnInv(q)'
  <1> DEFINE me == txn[p]
             a == [entry |-> f, inserted |-> FALSE, owner |-> owner]
             s == Append(me.parked, a)
             t == [me EXCEPT !.parked = s, !.rows = me.rows \cup {f}, !.new = me.new]
  <1>1. me \in Txn /\ Proper(me, p)
    BY TxnInvIs DEF IInv, TypeOK
  <1>2. f \in Entry /\ me.rows \subseteq Entry /\ me.new \in Seq(Entry) /\ me.parked \in Seq(Settlement)
    BY <1>1 DEF Txn
  <1>3. a \in Settlement /\ a.inserted = FALSE /\ a.owner = owner
    BY <1>2 DEF Settlement
  <1>4. txn' = [txn EXCEPT ![p] = t]
    BY <1>1 DEF Park, Txn
  <1> HIDE DEF a
  <1>5. /\ s \in Seq(Settlement)
        /\ \A k \in DOMAIN s : s[k] = a \/ \E j \in DOMAIN me.parked : s[k] = me.parked[j]
    <2>1. s \in Seq(Settlement) /\ ToSet(s) = ToSet(me.parked) \cup {a}
      BY <1>2, <1>3, AppendSet
    <2> HIDE DEF s
    <2> QED
      BY <2>1 DEF ToSet
  <1> HIDE DEF s
  <1>6. /\ t \in Txn /\ t.st = me.st /\ t.snap = me.snap /\ t.rows = me.rows
        /\ t.new = me.new /\ t.parked = s
    <2>1. me.rows \cup {f} = me.rows
      BY <1>2
    <2> QED
      BY <1>1, <1>5, <2>1 DEF Txn
  <1> HIDE DEF t
  <1>7. Proper(t, p)
    BY <1>1, <1>3, <1>5, <1>6 DEF Proper
  <1> HIDE DEF me
  <1> QED
    BY <1>4, <1>6, <1>7, TxnStep

(* The body inserts an entry above every row that it sees.                 *)
LEMMA ParkedInsert ==
  ASSUME IInv, NEW p \in Procs, NEW e \in Entry, NEW owner \in BOOLEAN, e.channel = "durable",
         Above(e.seq, txn[p].rows), txn[p].st = "open", owner => txn[p].snap.holder = p,
         Park(p, e, TRUE, owner)
  PROVE  txn' \in [Procs -> Txn] /\ \A q \in Procs : TxnInv(q)'
  <1> DEFINE me == txn[p]
             a == [entry |-> e, inserted |-> TRUE, owner |-> owner]
             s == Append(me.parked, a)
             n == Append(me.new, e)
             t == [me EXCEPT !.parked = s, !.rows = me.rows \cup {e}, !.new = n]
  <1>1. me \in Txn /\ Proper(me, p)
    BY TxnInvIs DEF IInv, TypeOK
  <1>2. me.rows \subseteq Entry /\ me.new \in Seq(Entry) /\ me.parked \in Seq(Settlement)
    BY <1>1 DEF Txn
  <1>3. a \in Settlement /\ a.inserted = TRUE /\ a.owner = owner
    BY DEF Settlement
  <1>4. txn' = [txn EXCEPT ![p] = t]
    BY <1>1 DEF Park, Txn
  <1> HIDE DEF a
  <1>5. /\ s \in Seq(Settlement)
        /\ \A k \in DOMAIN s : s[k] = a \/ \E j \in DOMAIN me.parked : s[k] = me.parked[j]
    <2>1. s \in Seq(Settlement) /\ ToSet(s) = ToSet(me.parked) \cup {a}
      BY <1>2, <1>3, AppendSet
    <2> HIDE DEF s
    <2> QED
      BY <2>1 DEF ToSet
  <1> HIDE DEF s
  <1>6. n \in Seq(Entry) /\ ToSet(n) = ToSet(me.new) \cup {e} /\ n # <<>>
    <2>1. n \in Seq(Entry) /\ ToSet(n) = ToSet(me.new) \cup {e}
      BY <1>2, AppendSet
    <2>2. ToSet(<<>>) = {}
      BY DEF ToSet
    <2> QED
      BY <2>1, <2>2
  <1>7. /\ DOMAIN me.new = 1 .. Len(me.new) /\ Len(me.new) \in Nat /\ DOMAIN n = 1 .. Len(me.new) + 1
        /\ n[Len(me.new) + 1] = e /\ \A k \in DOMAIN me.new : n[k] = me.new[k]
    BY <1>2
  <1> HIDE DEF n
  <1>8. /\ t \in Txn /\ t.st = me.st /\ t.snap = me.snap /\ t.rows = me.rows \cup {e}
        /\ t.new = n /\ t.parked = s
    <2>1. me.rows \cup {e} \subseteq Entry
      BY <1>2
    <2> QED
      BY <1>1, <1>5, <1>6, <2>1 DEF Txn
  <1> HIDE DEF t
  <1>9. me.rows = me.snap.rows \cup ToSet(me.new) /\ IsFiniteSet(me.rows)
    BY <1>1 DEF Proper
  <1>10. ASSUME NEW k \in DOMAIN n
         PROVE  /\ n[k].channel = "durable" /\ Above(n[k].seq, me.snap.rows)
                /\ \A j \in 1 .. k - 1 : n[j].seq < n[k].seq
    <2>1. CASE k \in DOMAIN me.new
      <3>1. \A j \in 1 .. k - 1 : j \in DOMAIN me.new
        BY <2>1, <1>7
      <3> QED
        BY <2>1, <3>1, <1>1, <1>7 DEF Proper
    <2>2. CASE k \notin DOMAIN me.new
      <3>1. k = Len(me.new) + 1 /\ n[k] = e /\ \A j \in 1 .. k - 1 : j \in DOMAIN me.new
        BY <2>2, <1>7
      <3>2. \A j \in DOMAIN me.new : me.new[j] \in me.rows
        BY <1>9 DEF ToSet
      <3>3. Above(e.seq, me.snap.rows)
        BY <1>9 DEF Above
      <3>4. \A j \in 1 .. k - 1 : n[j].seq < e.seq
        BY <1>7, <3>1, <3>2 DEF Above
      <3> QED
        BY <3>1, <3>3, <3>4
    <2> QED
      BY <2>1, <2>2
  <1>11. IsFiniteSet(t.rows) /\ t.rows = t.snap.rows \cup ToSet(t.new)
    <2>1. IsFiniteSet(me.rows \cup {e})
      BY <1>9, FS_AddElement
    <2> QED
      BY <1>6, <1>8, <1>9, <2>1
  <1>12. Proper(t, p)
    BY <1>1, <1>3, <1>5, <1>6, <1>8, <1>10, <1>11 DEF Proper
  <1> HIDE DEF me
  <1> QED
    BY <1>4, <1>8, <1>12, TxnStep

(* What emitDurable appends is an entry above the rows it sees.             *)
LEMMA EmittedEntry ==
  ASSUME IInv, NEW p \in Procs, NEW s \in Sources, NEW given \in SourceSeqs, NEW type \in Types,
         emitDurable(p, s, given, type, Fenced)
  PROVE  \E e \in Entry : /\ insertOne(p, e, Fenced) /\ e.channel = "durable" /\ Above(e.seq, txn[p].rows)
                          /\ proc' = [proc EXCEPT ![p] = raiseFloors(proc[p], e)]
  <1> DEFINE me == proc[p]
             next == nextDurable(txn[p].rows)
             ss == IF given = Unnamed
                   THEN Larger(nextDurableSource(txn[p].rows, s), me.sourceSequence[s]) ELSE given
             seq == Larger(next, me.sequence)
             e == [seq |-> seq, src |-> s, ss |-> ss, type |-> type, channel |-> "durable"]
  <1>1. /\ TypeOK /\ me \in Journal /\ txn[p] \in Txn /\ txn[p].st = "open"
        /\ db' = db /\ log' = log /\ setting' = setting /\ flush' = flush /\ reader' = reader
        /\ seq < MaxSafe /\ ss < MaxSafe /\ insertOne(p, e, Fenced)
        /\ proc' = [proc EXCEPT ![p] = raiseFloors(me, e)]
    BY IInvParts DEF emitDurable
  <1>2. /\ txn[p].rows \in SUBSET Entry /\ me.sequence \in NoFloor .. Ceiling
        /\ me.sourceSequence[s] \in NoFloor .. Ceiling
    BY <1>1 DEF Txn, Journal
  <1>3. next \in 0 .. Ceiling /\ Above(next, txn[p].rows) /\ nextDurableSource(txn[p].rows, s) \in 0 .. Ceiling
    BY <1>2, NextSequence
  <1>4. seq \in 0 .. Ceiling /\ seq >= next
    BY <1>2, <1>3, LargerType
  <1>5. /\ MaxSafe \in Nat /\ MaxSafe <= Ceiling /\ Named \subseteq Seqs /\ Ceiling \in Nat
        /\ Types \subseteq {"fold", "snap", "log"} /\ Fenced \in BOOLEAN
    BY <1>1, SettingFacts, EntryFacts
  <1>6. seq \in Seqs
    BY <1>1, <1>4, <1>5 DEF Seqs
  <1>7. ss \in Seqs
    <2>1. CASE given = Unnamed
      <3>1. ss \in 0 .. Ceiling
        BY <2>1, <1>2, <1>3, LargerType
      <3> QED
        BY <3>1, <1>1, <1>5 DEF Seqs
    <2>2. CASE given # Unnamed
      BY <2>2, <1>5 DEF SourceSeqs
    <2> QED
      BY <2>1, <2>2
  <1>8. Above(seq, txn[p].rows)
    <2>1. \A f \in txn[p].rows : f.seq \in Int
      BY <1>2, EntryFacts
    <2>2. next \in Int /\ seq \in Int
      BY <1>3, <1>4
    <2> HIDE DEF next, seq
    <2> QED
      BY <1>3, <1>4, <2>1, <2>2 DEF Above
  <1> HIDE DEF seq, ss, next
  <1>9. e \in Entry /\ e.channel = "durable" /\ e.seq = seq
    BY <1>5, <1>6, <1>7 DEF Entry
  <1> QED
    BY <1>1, <1>8, <1>9

(* emitDurable: the sequence is MAX(seq) + 1 of what the transaction sees, *)
(* or the floor of the process, whichever is larger.                       *)
LEMMA EmitDurableStep ==
  ASSUME IInv, NEW p \in Procs, NEW s \in Sources, NEW given \in SourceSeqs, NEW type \in Types,
         emitDurable(p, s, given, type, Fenced)
  PROVE  IInv'
  <1> DEFINE me == proc[p]
  <1>1. /\ TypeOK /\ me \in Journal /\ txn[p] \in Txn /\ txn[p].st = "open"
        /\ db' = db /\ log' = log /\ setting' = setting /\ flush' = flush /\ reader' = reader
    BY IInvParts DEF emitDurable
  <1>2. PICK e \in Entry : /\ insertOne(p, e, Fenced) /\ e.channel = "durable" /\ Above(e.seq, txn[p].rows)
                           /\ proc' = [proc EXCEPT ![p] = raiseFloors(me, e)]
    BY EmittedEntry
  <1>3. Fenced \in BOOLEAN /\ txn[p].rows \in SUBSET Entry
    BY <1>1, SettingFacts DEF Txn
  <1>4. raiseFloors(me, e) \in Journal /\ SameQueue(raiseFloors(me, e), me)
    BY <1>1, <1>2, RaisedFloors
  <1>5. txn' \in [Procs -> Txn] /\ \A q \in Procs : TxnInv(q)'
    <2>1. CASE Abort(p)
      BY <2>1, Aborted
    <2>2. CASE /\ Fenced => txn[p].snap.holder = p
               /\ \E f \in selectExisting(txn[p].rows, e) : Park(p, f, FALSE, Fenced)
      <3>1. PICK f \in selectExisting(txn[p].rows, e) : Park(p, f, FALSE, Fenced)
        BY <2>2
      <3>2. f \in txn[p].rows
        BY DEF selectExisting
      <3> QED
        BY <1>1, <1>3, <2>2, <3>1, <3>2, ParkedDuplicate
    <2>3. CASE (Fenced => txn[p].snap.holder = p) /\ Park(p, e, TRUE, Fenced)
      BY <1>1, <1>2, <1>3, <2>3, ParkedInsert
    <2> QED
      BY <1>2, <2>1, <2>2, <2>3 DEF insertOne
  <1> QED
    BY <1>1, <1>2, <1>4, <1>5, BodyStep

(* What has committed is settled, entry by entry.                          *)
LEMMA SettleCommitStep == ASSUME IInv, NEW p \in Procs, settleCommit(p) PROVE IInv'
  <1> DEFINE e == Head(txn[p].parked).entry
             rest == Tail(txn[p].parked)
             t == [txn[p] EXCEPT !.parked = rest]
  <1>1. /\ TypeOK /\ proc[p] \in Journal /\ txn[p] \in Txn /\ txn[p].st = "settling" /\ TxnInv(p)
        /\ db' = db /\ log' = log /\ setting' = setting /\ flush' = flush /\ reader' = reader
        /\ proc' = [proc EXCEPT ![p] = raiseFloors(proc[p], e)]
        /\ txn' = [txn EXCEPT ![p] = IF rest = <<>> THEN NoTxn ELSE t]
    BY IInvParts DEF settleCommit
  <1>2. txn[p].parked \in Seq(Settlement) /\ txn[p].parked # <<>>
    BY <1>1 DEF Txn, TxnInv
  <1>3. Head(txn[p].parked) \in Settlement /\ rest \in Seq(Settlement)
    BY <1>2, TailSet
  <1>4. e \in Entry
    BY <1>3 DEF Settlement
  <1> HIDE DEF e, rest
  <1>5. raiseFloors(proc[p], e) \in Journal /\ SameQueue(raiseFloors(proc[p], e), proc[p])
    BY <1>1, <1>4, RaisedFloors
  <1>6. t \in Txn /\ t.st = "settling" /\ t.parked = rest
    BY <1>1, <1>3 DEF Txn
  <1> HIDE DEF t
  <1>7. rest # <<>> => Proper(t, p)
    BY <1>6 DEF Proper
  <1>8. Proper(NoTxn, p) /\ NoTxn \in Txn
    BY NoTxnIsTxn DEF Proper
  <1>9. txn' \in [Procs -> Txn] /\ \A q \in Procs : TxnInv(q)'
    <2>1. CASE rest = <<>>
      BY <1>1, <1>8, <2>1, TxnStep
    <2>2. CASE rest # <<>>
      BY <1>1, <1>6, <1>7, <2>2, TxnStep
    <2> QED
      BY <2>1, <2>2
  <1> QED
    BY <1>1, <1>5, <1>9, BodyStep

---------------------------------------------------------------------------
(* The steps that commit                                                   *)

(* Whatever commits, the other journals and the streams keep what they     *)
(* rely on.                                                                *)
LEMMA AppendStep ==
  ASSUME IInv, NEW x, Appends(x), Ascending(x) \/ Lossy(x),
         setting' = setting, reader' = reader, flush' = flush,
         txn' \in [Procs -> Txn], \A q \in Procs : TxnInv(q)',
         proc' \in [Procs -> Journal], LogGrows => \A q \in Procs : FlushInv(q)'
  PROVE  IInv'
  <1>1. TypeOK /\ StoreInv /\ log \in Seq(Entry) /\ db \in Db /\ x \in Seq(Entry)
    BY DEF IInv, TypeOK, Appends
  <1>2. log' \in Seq(Entry) /\ LogGrows
    BY <1>1, Extended DEF Appends, LogGrows
  <1>3. db' \in Db
    <2>1. db.rows \cup ToSet(x) \subseteq Entry
      BY <1>1, FiniteMembers DEF Db
    <2> QED
      BY <1>1, <2>1 DEF Appends, Db
  <1>4. TypeOK'
    BY <1>1, <1>2, <1>3 DEF TypeOK
  <1>5. StoreInv'
    BY <1>1, AppendStore
  <1>6. \A r \in Readers : Delivered(r)' /\ ReaderInv(r)'
    BY <1>1, AppendReader DEF IInv
  <1> QED
    BY <1>2, <1>4, <1>5, <1>6 DEF IInv

(* A transaction commits on the state it began on.                         *)
LEMMA CommitAppends ==
  ASSUME IInv, NEW p \in Procs, commit(p)
  PROVE  Appends(txn[p].new) /\ Ascending(txn[p].new)
  <1> DEFINE x == txn[p].new
  <1>1. /\ txn[p].st = "open" /\ TxnInv(p) /\ x \in Seq(Entry) /\ db \in Db /\ log' = log \o x
        /\ IsFiniteSet(ToSet(x))
    BY IInvParts, FiniteMembers DEF commit, Txn, TypeOK
  <1>2. CASE x = <<>>
    <2>1. ToSet(x) = {} /\ DOMAIN x = {} /\ db' = db
      BY <1>2 DEF ToSet, commit
    <2>2. db' = [db EXCEPT !.rows = @ \cup ToSet(x)]
      BY <1>1, <2>1 DEF Db
    <2> QED
      BY <1>1, <2>1, <2>2 DEF Appends, Ascending
  <1>3. CASE x # <<>>
    <2>1. db = txn[p].snap /\ db' = [db EXCEPT !.rows = txn[p].rows]
      BY <1>3 DEF commit
    <2>2. txn[p].rows = db.rows \cup ToSet(x)
      BY <1>1, <2>1 DEF TxnInv
    <2>3. db' = [db EXCEPT !.rows = @ \cup ToSet(x)]
      BY <2>1, <2>2
    <2>4. Ascending(x)
      BY <1>1, <2>1 DEF TxnInv, Ascending
    <2> QED
      BY <1>1, <2>3, <2>4 DEF Appends
  <1> QED
    BY <1>2, <1>3

(* commit appends durable entries.                                         *)
LEMMA CommitStep == ASSUME IInv, NEW p \in Procs, commit(p) PROVE IInv'
  <1> DEFINE t == [NoTxn EXCEPT !.st = "settling", !.parked = txn[p].parked]
  <1>1. /\ TypeOK /\ txn[p] \in Txn /\ txn[p].parked # <<>> /\ txn' = [txn EXCEPT ![p] = t]
        /\ setting' = setting /\ reader' = reader /\ flush' = flush /\ proc' = proc
    BY IInvParts DEF commit
  <1>2. t \in Txn /\ t.st = "settling" /\ t.parked = txn[p].parked
    BY <1>1, NoTxnIsTxn DEF Txn
  <1> HIDE DEF t
  <1>3. Proper(t, p)
    BY <1>1, <1>2 DEF Proper
  <1>4. txn' \in [Procs -> Txn] /\ \A q \in Procs : TxnInv(q)'
    BY <1>1, <1>2, <1>3, TxnStep
  <1>5. proc' \in [Procs -> Journal]
    BY <1>1 DEF TypeOK
  <1>6. LogGrows => \A q \in Procs : FlushInv(q)'
    BY <1>1, FlushKept DEF IInv, SameQueue
  <1> QED
    BY <1>1, <1>4, <1>5, <1>6, CommitAppends, AppendStep

(* The writer persists its batch: each entry is in the log now, or the row *)
(* of its event was.                                                       *)
LEMMA PersistBatchStep == ASSUME IInv, NEW p \in Procs, persistBatch(p) PROVE IInv'
  <1> DEFINE me == proc[p]
             fresh == {e \in ToSet(me.batch) : selectExisting(db.rows, e) = {}}
             x == SetToSeq(fresh)
             m == [me EXCEPT !.persisted = TRUE]
  <1>1. /\ TypeOK /\ StoreInv /\ Vetted(me, flush[p]) /\ me \in Journal /\ me.batch # <<>>
        /\ db' = [db EXCEPT !.rows = @ \cup fresh] /\ log' = log \o x
        /\ proc' = [proc EXCEPT ![p] = m]
        /\ setting' = setting /\ reader' = reader /\ flush' = flush /\ txn' = txn
    BY IInvParts DEF persistBatch
  <1>2. me.batch \in Seq(Entry) /\ IsFiniteSet(ToSet(me.batch)) /\ ToSet(me.batch) \subseteq Entry
    BY <1>1, FiniteMembers DEF Journal
  <1>3. IsFiniteSet(fresh) /\ fresh \subseteq Entry /\ fresh \subseteq ToSet(me.batch)
    BY <1>2, FS_Subset
  <1>4. \A e \in fresh : IsLossy(e)
    BY <1>1, <1>3, OutstandingIs DEF Vetted, QueueInv
  <1> HIDE DEF fresh
  <1>5. x \in Seq(fresh) /\ ToSet(x) = fresh
    BY <1>3, ToSequence
  <1> HIDE DEF x
  <1>6. x \in Seq(Entry) /\ Lossy(x)
    BY <1>3, <1>4, <1>5 DEF Lossy
  <1>7. Appends(x)
    BY <1>1, <1>3, <1>5, <1>6 DEF Appends
  <1>8. /\ m \in Journal /\ m.queue = me.queue /\ m.batch = me.batch /\ m.pending = me.pending
        /\ m.status = me.status /\ m.persisted = TRUE
    BY <1>1 DEF Journal
  <1> HIDE DEF m
  <1>9. proc' \in [Procs -> Journal] /\ proc'[p] = m /\ \A q \in Procs \ {p} : proc'[q] = proc[q]
    BY <1>1, <1>8 DEF TypeOK
  <1>10. txn' \in [Procs -> Txn] /\ \A q \in Procs : TxnInv(q)'
    BY <1>1, TxnKept DEF IInv, TypeOK
  <1>11. ASSUME LogGrows, NEW q \in Procs PROVE FlushInv(q)'
    <2>1. CASE q # p
      BY <1>1, <1>9, <1>11, <2>1, FlushKept DEF IInv, SameQueue
    <2>2. CASE q = p
      <3>1. \A e : Committed(e) => Committed(e)'
        BY <1>11 DEF LogGrows, Committed
      <3>2. ASSUME NEW e \in ToSet(me.batch) PROVE Committed(e)'
        <4>1. CASE e \in fresh
          <5>1. PICK k \in DOMAIN x : x[k] = e
            BY <1>5, <4>1 DEF ToSet
          <5>2. \E j \in DOMAIN log' : log'[j] = e
            <6>1. log \in Seq(Entry) /\ log' = log \o x
              BY <1>1 DEF TypeOK
            <6>2. Len(log) + k \in DOMAIN log' /\ log'[Len(log) + k] = x[k]
              BY <1>6, <6>1, Extended
            <6> QED
              BY <5>1, <6>2
          <5> QED
            BY <5>2 DEF Committed, SameEvent
        <4>2. CASE e \notin fresh
          <5>1. PICK f \in db.rows : SameEvent(f, e)
            BY <4>2 DEF fresh, selectExisting
          <5>2. \E j \in DOMAIN log : log[j] = f
            BY <1>1 DEF StoreInv, RowsKept
          <5>3. Committed(e)
            BY <5>1, <5>2 DEF Committed
          <5> QED
            BY <5>3, <3>1
        <4> QED
          BY <4>1, <4>2
      <3>3. Outstanding(m) = Outstanding(me) /\ me.status \in {"open", "closing"}
        BY <1>1, <1>8 DEF Outstanding, Vetted, QueueInv
      <3>4. QueueInv(proc[p])'
        <4>1. QueueInv(me)
          BY <1>1 DEF Vetted
        <4>2. Outstanding(proc[p])' = Outstanding(me)
          BY <1>9, <3>3 DEF Outstanding
        <4>3. \A e \in Outstanding(proc[p])' : IsLossy(e)
          BY <4>1, <4>2 DEF QueueInv
        <4>4. me.pending = Len(me.queue) + Len(me.batch)
          BY <3>3, <4>1 DEF QueueInv
        <4> HIDE DEF me
        <4> QED
          BY <1>1, <1>8, <1>9, <3>2, <3>3, <4>3, <4>4 DEF QueueInv
      <3>5. \A c \in Callers : WaitsFor(p, c)' /\ Vouches(p, c)'
        BY <1>1, <1>8, <1>9, <3>1, <3>3 DEF IInv, FlushInv, WaitsFor, Vouches, Outstanding
      <3> QED
        BY <2>2, <3>4, <3>5 DEF FlushInv
    <2> QED
      BY <2>1, <2>2
  <1> QED
    BY <1>1, <1>6, <1>7, <1>9, <1>10, <1>11, AppendStep

---------------------------------------------------------------------------
(* Checkpoints, compaction, the lease                                      *)

(* A step of the database alone, which may raise the floor.                *)
LEMMA DbStep ==
  ASSUME IInv, db' \in Db, StoreInv', db'.floor >= db.floor, log' = log,
         setting' = setting, proc' = proc, txn' = txn, flush' = flush, reader' = reader
  PROVE  IInv'
  <1>1. TypeOK'
    BY DEF IInv, TypeOK
  <1>2. \A p \in Procs : TxnInv(p)'
    BY TxnKept DEF IInv
  <1>3. \A p \in Procs : FlushInv(p)'
    BY FlushKept DEF IInv, LogGrows, SameQueue
  <1>4. db'.floor \in Int
    BY EntryFacts DEF Db
  <1>5. \A r \in Readers : Delivered(r)' /\ ReaderInv(r)'
    BY <1>4, FloorReader DEF IInv
  <1> QED
    BY <1>1, <1>2, <1>3, <1>5 DEF IInv

(* A checkpoint names a row above the floor.                               *)
LEMMA CheckpointStep == ASSUME IInv, NEW p \in Procs, NEW seq \in Seqs, checkpoint(p, seq) PROVE IInv'
  <1>1. db \in Db /\ StoreInv /\ log' = log /\ db' = [db EXCEPT !.checkpoints = @ \cup {seq}]
        /\ seq > db.floor /\ \E e \in db.rows : e.seq = seq
    BY DEF checkpoint, IInv, TypeOK
  <1>2. /\ db' \in Db /\ db'.rows = db.rows /\ db'.floor = db.floor
        /\ db'.checkpoints = db.checkpoints \cup {seq}
    BY <1>1 DEF Db
  <1>3. StoreInv'
    BY <1>1, <1>2 DEF StoreInv, RowsKept, Channels, DurableAscends, FoldKept
  <1>4. db'.floor >= db.floor
    BY <1>1, <1>2, EntryFacts DEF Db
  <1> QED
    BY <1>1, <1>2, <1>3, <1>4, DbStep DEF checkpoint

(* compact truncates and raises the floor in one transaction.              *)
LEMMA CompactStep == ASSUME IInv, NEW p \in Procs, NEW seq \in Seqs, compact(p, seq) PROVE IInv'
  <1>1. /\ TypeOK /\ StoreInv /\ db \in Db /\ log' = log /\ seq \in db.checkpoints /\ ~FoldBehind(seq)
        /\ db' = [db EXCEPT !.rows = {e \in @ : e.seq >= seq},
                            !.checkpoints = {c \in @ : c > seq}, !.floor = seq]
    BY SMTT(30) DEF compact, IInv, TypeOK
  <1>2. StoreInv' /\ db'.floor > db.floor
    BY <1>1, CompactStore
  <1>3. db' \in Db
    BY <1>1 DEF Db
  <1>4. db'.floor >= db.floor
    <2>1. db'.floor \in Int /\ db.floor \in Int
      BY <1>1, <1>3, EntryFacts DEF Db
    <2> QED
      BY <1>2, <2>1
  <1> QED
    BY <1>1, <1>2, <1>3, <1>4, DbStep DEF compact

(* The lease moves.                                                        *)
LEMMA StealStep == ASSUME IInv, NEW p \in Procs, steal(p) PROVE IInv'
  <1>1. db \in Db /\ StoreInv /\ log' = log /\ db' = [db EXCEPT !.holder = p]
    BY DEF steal, IInv, TypeOK
  <1>2. /\ db' \in Db /\ db'.rows = db.rows /\ db'.floor = db.floor /\ db'.checkpoints = db.checkpoints
    BY <1>1 DEF Db
  <1>3. StoreInv'
    BY <1>1, <1>2 DEF StoreInv, RowsKept, Channels, DurableAscends, FoldKept
  <1>4. db'.floor >= db.floor
    BY <1>1, <1>2, EntryFacts DEF Db
  <1> QED
    BY <1>1, <1>2, <1>3, <1>4, DbStep DEF steal

---------------------------------------------------------------------------
(* Streams                                                                 *)

(* A step of one stream.                                                   *)
LEMMA ReaderStep ==
  ASSUME IInv, NEW r \in Readers, NEW m \in Reader, reader' = [reader EXCEPT ![r] = m],
         db' = db, log' = log, setting' = setting, proc' = proc, txn' = txn, flush' = flush,
         Delivered(r)', ReaderInv(r)'
  PROVE  IInv'
  <1>1. TypeOK' /\ \A q \in Readers \ {r} : reader'[q] = reader[q]
    BY DEF IInv, TypeOK
  <1>2. \A p \in Procs : TxnInv(p)'
    BY TxnKept DEF IInv
  <1>3. \A p \in Procs : FlushInv(p)'
    BY FlushKept DEF IInv, LogGrows, SameQueue
  <1>4. StoreInv'
    BY StoreKept DEF IInv
  <1>5. \A q \in Readers \ {r} : Delivered(q)' /\ ReaderInv(q)'
    BY <1>1, ReaderKept DEF IInv
  <1> QED
    BY <1>1, <1>2, <1>3, <1>4, <1>5 DEF IInv

(* A stream opens at the beginning.                                        *)
LEMMA StreamStep == ASSUME IInv, NEW r \in Readers, stream(r) PROVE IInv'
  <1> DEFINE n == proc[Home[r]].lossEpoch
             m == [Stopped EXCEPT !.st = "rows", !.epoch = n]
  <1>1. /\ TypeOK /\ reader' = [reader EXCEPT ![r] = m]
        /\ db' = db /\ log' = log /\ setting' = setting /\ proc' = proc /\ txn' = txn /\ flush' = flush
    BY DEF stream, IInv
  <1>2. n \in 0 .. MaxLosses
    BY <1>1, JournalAssumption DEF TypeOK, Journal
  <1> HIDE DEF n
  <1>3. m \in Reader /\ m.st = "rows" /\ m.cursor = NoFloor
    BY <1>2 DEF Stopped, Reader
  <1> HIDE DEF m
  <1>4. reader'[r] = m
    BY <1>1 DEF TypeOK
  <1>5. \A k \in DOMAIN log : ~(log[k].seq <= NoFloor)
    <2>1. \A k \in DOMAIN log : log[k] \in Entry
      BY <1>1 DEF TypeOK
    <2>2. \A k \in DOMAIN log : log[k].seq \in Nat
      BY <2>1, EntryFacts
    <2> QED
      BY <2>2, EntryFacts
  <1>6. Delivered(r)' /\ ReaderInv(r)'
    BY <1>1, <1>3, <1>4, <1>5 DEF Delivered, ReaderInv
  <1> QED
    BY <1>1, <1>3, <1>6, ReaderStep

(* A stream reads a page of the rows ahead of its cursor.                  *)
LEMMA ReadRowsStep == ASSUME IInv, NEW r \in Readers, readRows(r) PROVE IInv'
  <1> DEFINE me == reader[r]
             ahead == {e \in db.rows : e.seq > me.cursor}
             page == {e \in ahead : Cardinality({f \in ahead : f.seq < e.seq}) < BatchSize}
             more == ahead # page
             m == [me EXCEPT !.st = "floor", !.page = page, !.more = more]
             lost == [me EXCEPT !.st = "lost"]
  <1>1. /\ TypeOK /\ me \in Reader /\ me.st \in {"rows", "idle"} /\ me.st \in Following
        /\ db' = db /\ log' = log /\ setting' = setting /\ proc' = proc /\ txn' = txn /\ flush' = flush
        /\ StoreInv /\ Delivered(r) /\ ReaderInv(r) /\ db.rows \subseteq Entry /\ IsFiniteSet(db.rows)
    BY DEF readRows, IInv, TypeOK, Following, Db, StoreInv, RowsKept
  <1>2. reader' = [reader EXCEPT ![r] = lost] \/ reader' = [reader EXCEPT ![r] = m]
    BY <1>1 DEF readRows, TypeOK
  <1>3. CASE reader' = [reader EXCEPT ![r] = lost]
    <2>1. lost \in Reader /\ lost.st = "lost"
      BY <1>1 DEF Reader
    <2> HIDE DEF lost
    <2>2. reader'[r] = lost
      BY <1>1, <1>3 DEF TypeOK
    <2>3. Delivered(r)' /\ ReaderInv(r)'
      BY <2>1, <2>2 DEF Delivered, ReaderInv, Following
    <2> QED
      BY <1>1, <1>3, <2>1, <2>3, ReaderStep
  <1>4. CASE reader' = [reader EXCEPT ![r] = m]
    <2>1. ahead \in SUBSET Entry /\ IsFiniteSet(ahead) /\ page \subseteq ahead /\ page \subseteq Entry
      BY <1>1, FS_Subset
    <2>2. BatchSize \in Nat
      BY <1>1, SettingFacts
    <2>3. ASSUME NEW e \in page, NEW f \in ahead, f.seq <= e.seq PROVE f \in page
      BY <2>1, <2>2, <2>3, PageIsPrefix
    <2>4. \A f \in db.rows : f.seq > me.cursor => f \in ahead
      OBVIOUS
    <2>5. ahead \subseteq db.rows
      OBVIOUS
    <2> HIDE DEF ahead, page, more
    <2>6. more \in BOOLEAN
      BY DEF more
    <2>7. m \in Reader /\ m.st = "floor" /\ m.page = page /\ m.cursor = me.cursor /\ m.got = me.got
      BY <1>1, <2>1, <2>6 DEF Reader
    <2> HIDE DEF m
    <2>8. reader'[r] = m
      BY <1>1, <1>4 DEF TypeOK
    <2>9. Delivered(r)'
      BY <1>1, <2>7, <2>8 DEF Delivered
    <2>10. ASSUME NEW e \in page, NEW k \in DOMAIN log, me.cursor < log[k].seq, log[k].seq <= e.seq
           PROVE  (\E f \in page : f.seq = log[k].seq) \/ log[k].seq < db.floor
      <3>1. log[k] \in db.rows \/ log[k].seq < db.floor
        BY <1>1 DEF StoreInv, RowsKept
      <3>2. CASE log[k] \in db.rows
        <4>1. log[k].seq \in Int /\ me.cursor \in Int
          BY <1>1, <3>2, EntryFacts DEF Reader
        <4>2. log[k].seq > me.cursor
          BY <4>1, <2>10
        <4>3. log[k] \in page
          BY <2>3, <2>4, <2>10, <3>2, <4>2
        <4> QED
          BY <4>3
      <3> QED
        BY <3>1, <3>2
    <2>11. \A e \in page : \E k \in DOMAIN log : log[k] = e
      BY <1>1, <2>1, <2>5 DEF StoreInv, RowsKept
    <2>12. ReaderInv(r)'
      BY <1>1, <2>7, <2>8, <2>10, <2>11 DEF ReaderInv
    <2> QED
      BY <1>1, <1>4, <2>7, <2>9, <2>12, ReaderStep
  <1> QED
    BY <1>2, <1>3, <1>4

(* The floor is read after the rows: what was compacted in between is      *)
(* missed only by a cursor below it, and that stream fails.                *)
LEMMA ReadFloorStep == ASSUME IInv, NEW r \in Readers, readFloor(r) PROVE IInv'
  <1> DEFINE me == reader[r]
             S == {e.seq : e \in me.page}
             last == Last1(S)
             cur == Larger(me.cursor, last)
             got == me.got \cup S
             st == IF me.more THEN "rows" ELSE "idle"
             m == [me EXCEPT !.st = st, !.cursor = cur, !.got = got, !.page = {}]
             over == [me EXCEPT !.st = "compacted", !.page = {}]
  <1>1. /\ TypeOK /\ me \in Reader /\ me.st = "floor" /\ me.st \in Following
        /\ db' = db /\ log' = log /\ setting' = setting /\ proc' = proc /\ txn' = txn /\ flush' = flush
        /\ Delivered(r) /\ ReaderInv(r)
    BY DEF readFloor, IInv, TypeOK, Following
  <1>2. \/ reader' = [reader EXCEPT ![r] = over]
        \/ ~(me.cursor < db.floor - 1) /\ reader' = [reader EXCEPT ![r] = m]
    BY <1>1 DEF readFloor, Reader
  <1>3. CASE reader' = [reader EXCEPT ![r] = over]
    <2>1. over \in Reader /\ over.st = "compacted"
      BY <1>1 DEF Reader
    <2> HIDE DEF over
    <2>2. reader'[r] = over
      BY <1>1, <1>3 DEF TypeOK
    <2>3. Delivered(r)' /\ ReaderInv(r)'
      BY <2>1, <2>2 DEF Delivered, ReaderInv, Following
    <2> QED
      BY <1>1, <1>3, <2>1, <2>3, ReaderStep
  <1>4. CASE ~(me.cursor < db.floor - 1) /\ reader' = [reader EXCEPT ![r] = m]
    <2>1. me.page \subseteq Entry /\ me.cursor \in Seqs \cup {NoFloor} /\ me.got \subseteq Seqs
      BY <1>1 DEF Reader
    <2>2. S \in SUBSET Seqs
      BY <2>1, EntryFacts
    <2>3. last \in Seqs \cup {NoFloor} /\ (S # {} => last \in S) /\ (S = {} => last = NoFloor)
      BY <2>2, LastIsMax DEF Last1
    <2>4. /\ me.cursor \in Int /\ last \in Int /\ db.floor \in Int
          /\ \A k \in DOMAIN log : log[k].seq \in Nat
      <3>1. \A k \in DOMAIN log : log[k] \in Entry
        BY <1>1 DEF TypeOK
      <3>2. \A k \in DOMAIN log : log[k].seq \in Nat
        BY <3>1, EntryFacts
      <3>3. db.floor \in Seqs \cup {NoFloor}
        BY <1>1 DEF TypeOK, Db
      <3>4. me.cursor \in Int /\ last \in Int /\ db.floor \in Int
        BY <2>1, <2>3, <3>3, EntryFacts, Zenon
      <3> QED
        BY <3>2, <3>4
    <2> HIDE DEF S, last
    <2>5. cur \in Seqs \cup {NoFloor} /\ (cur = me.cursor \/ (cur = last /\ last > me.cursor))
      BY <2>1, <2>3, <2>4 DEF Larger
    <2>6. got \subseteq Seqs /\ S \subseteq got /\ me.got \subseteq got
      BY <2>1, <2>2
    <2>7. last > me.cursor => \E e \in me.page : e.seq = last
      <3> SUFFICES ASSUME last > me.cursor PROVE S # {}
        BY <2>3 DEF S
      <3>1. me.cursor >= NoFloor
        <4>1. CASE me.cursor = NoFloor
          BY <4>1, EntryFacts
        <4>2. CASE me.cursor \in Seqs
          <5>1. me.cursor \in Nat /\ NoFloor = -1
            BY <4>2, EntryFacts
          <5> QED
            BY <5>1
        <4> QED
          BY <2>1, <4>1, <4>2
      <3> QED
        BY <2>3, <2>4, <3>1, EntryFacts
    <2>8. \A f \in me.page : f.seq \in S
      BY DEF S
    <2> HIDE DEF cur, got, st
    <2>9. st \in {"rows", "idle"}
      BY DEF st
    <2>10. m \in Reader /\ m.st = st /\ m.cursor = cur /\ m.got = got
      BY <1>1, <2>5, <2>6, <2>9 DEF Reader
    <2> HIDE DEF m
    <2>11. reader'[r] = m
      BY <1>1, <1>4 DEF TypeOK
    <2>12. ASSUME NEW k \in DOMAIN log, log[k].channel = "durable", log[k].seq <= cur
           PROVE  log[k].seq \in got
      <3>1. CASE log[k].seq <= me.cursor
        BY <1>1, <2>6, <2>12, <3>1 DEF Delivered
      <3>2. CASE ~(log[k].seq <= me.cursor)
        <4>1. cur = last /\ last > me.cursor /\ me.cursor < log[k].seq
          BY <2>4, <2>5, <2>12, <3>2
        <4>2. PICK e \in me.page : e.seq = last
          BY <2>7, <4>1
        <4>3. (\E f \in me.page : f.seq = log[k].seq) \/ log[k].seq < db.floor
          BY <1>1, <2>12, <4>1, <4>2 DEF ReaderInv
        <4>4. ~(log[k].seq < db.floor)
          BY <1>4, <2>4, <4>1
        <4> QED
          BY <2>6, <2>8, <4>3, <4>4
      <3> QED
        BY <3>1, <3>2
    <2>13. cur # NoFloor => \E k \in DOMAIN log : cur <= log[k].seq
      <3>1. CASE cur = me.cursor
        BY <1>1, <3>1 DEF ReaderInv
      <3>2. CASE cur = last /\ last > me.cursor
        <4>1. PICK e \in me.page : e.seq = last
          BY <2>7, <3>2
        <4>2. PICK k \in DOMAIN log : log[k] = e
          BY <1>1 DEF ReaderInv
        <4>3. cur = log[k].seq /\ log[k].seq \in Nat
          BY <2>4, <3>2, <4>1, <4>2
        <4> QED
          BY <4>3
      <3> QED
        BY <2>5, <3>1, <3>2
    <2>14. Delivered(r)'
      BY <1>1, <2>10, <2>11, <2>12 DEF Delivered
    <2>15. ReaderInv(r)'
      BY <1>1, <2>9, <2>10, <2>11, <2>13 DEF ReaderInv
    <2> QED
      BY <1>1, <1>4, <2>10, <2>14, <2>15, ReaderStep
  <1> QED
    BY <1>2, <1>3, <1>4

---------------------------------------------------------------------------
(* The theorems                                                            *)

(* The journal of a new run.                                               *)
LEMMA InitIInv == Init => IInv
  <1> SUFFICES ASSUME Init PROVE IInv
    OBVIOUS
  <1>1. /\ setting \in Settings /\ db = Empty /\ log = <<>> /\ proc = [p \in Procs |-> Opened]
        /\ txn = [p \in Procs |-> NoTxn] /\ flush = [p \in Procs |-> Idle]
        /\ reader = [r \in Readers |-> Stopped]
    BY DEF Init
  <1>2. Stopped \in Reader /\ Stopped.st = "off"
    BY JournalAssumption DEF Stopped, Reader, NoFloor
  <1>3. TypeOK
    <2>1. db \in Db /\ log \in Seq(Entry)
      BY <1>1, EmptyIsDb, EmptySeq
    <2>2. proc \in [Procs -> Journal] /\ txn \in [Procs -> Txn]
      BY <1>1, OpenedIsJournal, NoTxnIsTxn
    <2>3. flush \in [Procs -> [Callers -> FlushCall]] /\ reader \in [Readers -> Reader]
      BY <1>1, <1>2, IdleCalls
    <2> QED
      BY <1>1, <2>1, <2>2, <2>3 DEF TypeOK
  <1>4. DOMAIN log = {} /\ db.rows = {} /\ db.checkpoints = {} /\ IsFiniteSet({})
    BY <1>1, EmptyIsDb, FS_EmptySet
  <1>5. StoreInv
    BY <1>4 DEF StoreInv, RowsKept, Channels, DurableAscends, FoldKept
  <1>6. \A p \in Procs : TxnInv(p)
    BY <1>1, NoTxnIsTxn DEF TxnInv
  <1>7. ASSUME NEW p \in Procs PROVE FlushInv(p)
    <2>1. proc[p] = Opened /\ flush[p] = Idle
      BY <1>1
    <2>2. Vetted(Opened, Idle)
      BY OpenedIsJournal, IdleCalls DEF Vetted
    <2> QED
      BY <2>1, <2>2, FlushInvIs
  <1>8. \A r \in Readers : Delivered(r) /\ ReaderInv(r)
    BY <1>1, <1>2 DEF Delivered, ReaderInv, Following
  <1> QED
    BY <1>3, <1>5, <1>6, <1>7, <1>8 DEF IInv

(* Every step keeps IInv.                                                  *)
LEMMA NextStep == IInv /\ [Next]_vars => IInv'
  <1> SUFFICES ASSUME IInv, [Next]_vars PROVE IInv'
    OBVIOUS
  <1>0. setting.lossy \subseteq Procs /\ setting.durable \subseteq Procs
    BY SettingFacts DEF IInv
  <1>1. CASE \E p \in setting.lossy, s \in Sources, given \in SourceSeqs : emitLossy(p, s, given)
    BY <1>0, <1>1, EmitLossyStep
  <1>2. CASE \E p \in setting.durable, s \in Sources, given \in SourceSeqs, type \in Types :
               emitDurable(p, s, given, type, Fenced)
    BY <1>0, <1>2, EmitDurableStep
  <1>3. CASE \E p \in setting.durable : transact(p)
    BY <1>0, <1>3, TransactStep
  <1>4. CASE \E p \in Procs : Writer(p) \/ Flush(p) \/ FlushReturns(p)
    BY <1>4, TakeBatchStep, PersistBatchStep, SettleStep, FailSinkStep, FlushStep, FlushReturnsStep
    DEF Writer
  <1>5. CASE \E p \in Procs : commit(p) \/ replay(p) \/ rollback(p) \/ settleCommit(p)
    BY <1>5, CommitStep, ReplayStep, RollbackStep, SettleCommitStep
  <1>6. CASE \E p \in Procs : \E seq \in Seqs : checkpoint(p, seq) \/ compact(p, seq)
    BY <1>6, CheckpointStep, CompactStep
  <1>7. CASE \E p \in Procs : steal(p) \/ close(p) \/ closed(p) \/ crash(p) \/ open(p)
    BY <1>7, StealStep, CloseStep, ClosedStep, CrashStep, OpenStep
  <1>8. CASE \E r \in Readers : stream(r) \/ readRows(r) \/ readFloor(r)
    BY <1>8, StreamStep, ReadRowsStep, ReadFloorStep
  <1>9. CASE UNCHANGED vars
    <2>1. /\ db' = db /\ log' = log /\ setting' = setting /\ proc' = proc /\ txn' = txn
          /\ flush' = flush /\ reader' = reader
      BY <1>9 DEF vars
    <2>2. PICK p \in Procs : TRUE
      BY JournalAssumption
    <2>3. txn' \in [Procs -> Txn] /\ \A q \in Procs : TxnInv(q)'
      BY <2>1, TxnKept DEF IInv, TypeOK
    <2> QED
      BY <2>1, <2>3, QuietStep
  <1> QED
    BY <1>1, <1>2, <1>3, <1>4, <1>5, <1>6, <1>7, <1>8, <1>9 DEF Next

(* IInv is an inductive invariant of the journal: types, the relation of   *)
(* rows, log, checkpoints and floor, what open transactions, flush calls   *)
(* and streams rely on.                                                    *)
THEOREM Invariance == Spec => []IInv
  BY InitIInv, NextStep, PTL DEF Spec

(* A durable entry is above everything committed before it, for any number *)
(* of processes, whatever lossy entries, rollbacks, restarts and           *)
(* compactions come between.                                               *)
THEOREM DurableAscendsHolds == Spec => []DurableAscends
  <1>1. IInv => DurableAscends
    BY DEF IInv, StoreInv
  <1> QED
    BY <1>1, Invariance, PTL

(* No compaction leaves a fold entry without a later snapshot in the rows. *)
THEOREM FoldKeptHolds == Spec => []FoldKept
  <1>1. IInv => FoldKept
    BY DEF IInv, StoreInv
  <1> QED
    BY <1>1, Invariance, PTL

(* A stream that follows has delivered every durable entry up to its       *)
(* cursor, though other processes compact between its page and the floor.  *)
THEOREM DurableDeliveredHolds == Spec => []DurableDelivered
  <1>1. IInv => DurableDelivered
    BY DEF IInv, DurableDelivered
  <1> QED
    BY <1>1, Invariance, PTL

(* A flush that succeeds vouches for all that it covers, whatever batches  *)
(* were evicted or lost.                                                   *)
THEOREM FlushVouchesHolds == Spec => []FlushVouches
  <1>1. IInv => FlushVouches
    BY DEF IInv, FlushInv, FlushVouches
  <1> QED
    BY <1>1, Invariance, PTL

(* Nothing but its commit takes a transaction from its body to its         *)
(* settlements.                                                            *)
LEMMA OnlyCommit ==
  ASSUME IInv, Next, NEW p \in Procs, txn[p].st = "open", txn'[p].st = "settling"
  PROVE  commit(p)
  <1>1. TypeOK /\ txn \in [Procs -> Txn] /\ txn[p] \in Txn /\ setting.durable \subseteq Procs
    BY SettingFacts DEF IInv, TypeOK
  <1>2. ~ UNCHANGED txn
    OBVIOUS
  <1>3. ASSUME NEW q \in Procs, NEW t, txn' = [txn EXCEPT ![q] = t]
        PROVE  q = p /\ t.st = "settling"
    BY <1>1, <1>3
  <1>4. \A q \in Procs : ~ Abort(q)
    BY <1>3, NoTxnIsTxn DEF Abort
  <1>5. \A q \in Procs : txn' # [txn EXCEPT ![q] = Began]
    BY <1>3 DEF Began
  <1>6. ASSUME NEW q \in Procs, NEW f, NEW inserted, NEW owner PROVE ~ Park(q, f, inserted, owner)
    <2> DEFINE t == [txn[q] EXCEPT
                        !.parked = Append(@, [entry |-> f, inserted |-> inserted, owner |-> owner]),
                        !.rows = @ \cup {f}, !.new = IF inserted THEN Append(@, f) ELSE @]
    <2>1. t.st = txn[q].st
      BY <1>1 DEF Txn
    <2>2. Park(q, f, inserted, owner) => txn' = [txn EXCEPT ![q] = t]
      BY DEF Park
    <2> HIDE DEF t
    <2> QED
      BY <1>3, <2>1, <2>2
  <1>7. ~ \E q \in setting.durable, s \in Sources, given \in SourceSeqs, type \in Types :
            emitDurable(q, s, given, type, Fenced)
    <2>1. \A q \in Procs : \A e : ~ insertOne(q, e, Fenced)
      BY <1>4, <1>6 DEF insertOne
    <2> SUFFICES ASSUME NEW q \in Procs, NEW s, NEW given, NEW type, emitDurable(q, s, given, type, Fenced)
                 PROVE  FALSE
      BY <1>1
    <2>2. \E e : insertOne(q, e, Fenced)
      BY DEF emitDurable
    <2> QED
      BY <2>1, <2>2
  <1>8. \A q \in Procs : ~ settleCommit(q)
    <2> SUFFICES ASSUME NEW q \in Procs, settleCommit(q) PROVE FALSE
      OBVIOUS
    <2>1. q = p
      BY <1>3 DEF settleCommit
    <2> QED
      BY <2>1 DEF settleCommit
  <1>9. ASSUME NEW q \in Procs, commit(q) PROVE commit(p)
    BY <1>3, <1>9 DEF commit
  <1>10. \A q \in Procs : ~ transact(q) /\ ~ replay(q) /\ ~ rollback(q) /\ ~ crash(q)
    BY <1>4, <1>5 DEF transact, replay, rollback, crash
  <1>11. \A q \in Procs : ~ Writer(q) /\ ~ Flush(q) /\ ~ FlushReturns(q)
    BY <1>2 DEF Writer, takeBatch, persistBatch, settle, failSink, Flush, FlushReturns
  <1>12. \A q \in Procs : /\ \A seq \in Seqs : ~ checkpoint(q, seq) /\ ~ compact(q, seq)
                          /\ ~ steal(q) /\ ~ close(q) /\ ~ closed(q) /\ ~ open(q)
    BY <1>2 DEF checkpoint, compact, steal, close, closed, open
  <1>13. \A r \in Readers : ~ stream(r) /\ ~ readRows(r) /\ ~ readFloor(r)
    BY <1>2 DEF stream, readRows, readFloor
  <1>14. \A q, s, given : ~ emitLossy(q, s, given)
    BY <1>2 DEF emitLossy
  <1> QED
    BY <1>1, <1>7, <1>8, <1>9, <1>10, <1>11, <1>12, <1>13, <1>14 DEF Next

(* Rule R3: a fenced append commits only while the lease names its writer. *)
(* Only commit takes a transaction from open to settling, and one that     *)
(* inserted commits on its own snapshot.                                   *)
THEOREM FenceHeldHolds == Spec => FenceHeld
  <1> DEFINE Fence(p) ==
        txn[p].st = "open" /\ txn'[p].st = "settling" =>
          \A k \in DOMAIN txn[p].parked : txn[p].parked[k].owner =>
              /\ txn[p].snap.holder = p
              /\ txn[p].parked[k].inserted => db.holder = p
  <1>1. ASSUME IInv, Next, NEW p \in Procs, txn[p].st = "open", txn'[p].st = "settling",
               NEW k \in DOMAIN txn[p].parked, txn[p].parked[k].owner
        PROVE  /\ txn[p].snap.holder = p
               /\ txn[p].parked[k].inserted => db.holder = p
    <2>1. txn[p].snap.holder = p /\ (txn[p].parked[k].inserted => txn[p].new # <<>>)
      BY <1>1 DEF IInv, TxnInv
    <2>2. commit(p)
      BY <1>1, OnlyCommit
    <2> QED
      BY <2>1, <2>2 DEF commit
  <1>2. IInv /\ [Next]_vars => [\A p \in Procs : Fence(p)]_vars
    BY <1>1
  <1> QED
    BY <1>2, Invariance, PTL DEF Spec, FenceHeld

(* A set that has 0 and, below n, every successor, has all up to n.        *)
LEMMA Counting ==
  ASSUME NEW n \in Nat, NEW T, 0 \in T, \A k \in 0 .. n - 1 : k \in T => k + 1 \in T
  PROVE  0 .. n \subseteq T
  <1> DEFINE B == {k \in 0 .. n : k \notin T}
  <1> SUFFICES ASSUME B # {} PROVE FALSE
    OBVIOUS
  <1>1. B \in SUBSET Nat
    OBVIOUS
  <1>2. PICK x \in B : \A y \in B : x <= y
    BY <1>1, Least
  <1>3. x \in 0 .. n /\ x \notin T /\ x # 0
    OBVIOUS
  <1>4. x - 1 \in 0 .. n - 1 /\ ~(x <= x - 1) /\ x - 1 \in 0 .. n /\ (x - 1) + 1 = x
    BY <1>3
  <1>5. x - 1 \in T
    BY <1>2, <1>4
  <1> QED
    BY <1>3, <1>4, <1>5

(* f is the iteration of the steps R from base, and stays in S.            *)
Iterates(f, n, S, base, R) ==
  /\ f \in [0 .. n -> S] /\ f[0] = base
  /\ \A k \in 1 .. n : f[k] = R[k][f[k - 1]]

(* Steps can be iterated.                                                  *)
LEMMA Iterated ==
  ASSUME NEW n \in Nat, NEW S, NEW base \in S, NEW R \in [1 .. n -> [S -> S]]
  PROVE  \E f : Iterates(f, n, S, base, R)
  <1> DEFINE Fits(f, m) == f[0] = base /\ \A k \in 1 .. m : f[k] = R[k][f[k - 1]]
             T == {m \in 0 .. n : \E f \in [0 .. m -> S] : Fits(f, m)}
  <1>1. 0 \in T
    <2> DEFINE f == [k \in 0 .. 0 |-> base]
    <2>1. f \in [0 .. 0 -> S] /\ f[0] = base /\ 1 .. 0 = {}
      OBVIOUS
    <2> HIDE DEF f
    <2> QED
      BY <2>1
  <1>2. ASSUME NEW m \in 0 .. n - 1, m \in T PROVE m + 1 \in T
    <2>1. PICK f \in [0 .. m -> S] : Fits(f, m)
      BY <1>2
    <2> DEFINE g == [k \in 0 .. m + 1 |-> IF k <= m THEN f[k] ELSE R[m + 1][f[m]]]
    <2>2. m \in Nat /\ m + 1 \in 0 .. n /\ m + 1 \in 1 .. n /\ m \in 0 .. m /\ 0 \in 0 .. m
      OBVIOUS
    <2>3. R[m + 1][f[m]] \in S
      BY <2>1, <2>2
    <2>4. g \in [0 .. m + 1 -> S]
      BY <2>2, <2>3
    <2>5. (\A k \in 0 .. m : g[k] = f[k]) /\ g[m + 1] = R[m + 1][f[m]]
      BY <2>2
    <2> HIDE DEF g
    <2>6. ASSUME NEW k \in 1 .. m + 1 PROVE g[k] = R[k][g[k - 1]]
      <3>1. CASE k \in 1 .. m
        <4>1. k \in 0 .. m /\ k - 1 \in 0 .. m
          BY <2>2, <3>1
        <4> QED
          BY <2>1, <2>5, <3>1, <4>1
      <3>2. CASE k = m + 1
        <4>1. k - 1 = m
          BY <2>2, <3>2
        <4> QED
          BY <2>2, <2>5, <3>2, <4>1
      <3> QED
        BY <2>2, <3>1, <3>2
    <2>7. g[0] = base
      BY <2>1, <2>2, <2>5
    <2> QED
      BY <2>2, <2>4, <2>6, <2>7
  <1>3. 0 .. n \subseteq T
    <2> HIDE DEF T
    <2> QED
      BY <1>1, <1>2, Counting
  <1>4. n \in T
    BY <1>3
  <1> QED
    BY <1>4 DEF Iterates

(* Map.delete: what is left was there, and none of it is one of the gone.  *)
LEMMA Deleted ==
  ASSUME NEW index \in Seq(Cached), NEW gone
  PROVE  /\ Without(index, gone) \in Seq(Cached)
         /\ \A c \in ToSet(Without(index, gone)) :
               c \in ToSet(index) /\ \A e \in gone : ~SameEvent(c, e)
  <1> DEFINE n == Len(index)
             Goes(k) == \E e \in gone : SameEvent(index[k], e)
             Step(f, k) == IF k = 0 THEN <<>> ELSE IF Goes(k) THEN f[k - 1] ELSE Append(f[k - 1], index[k])
             Kept == CHOOSE f : f = [k \in 0 .. n |-> Step(f, k)]
             Good == {q \in Seq(Cached) : \A i \in DOMAIN q :
                         (\E j \in DOMAIN index : q[i] = index[j]) /\ \A e \in gone : ~SameEvent(q[i], e)}
             R == [k \in 1 .. n |-> [q \in Seq(Cached) |-> IF Goes(k) THEN q ELSE Append(q, index[k])]]
  <1>0. n \in Nat /\ DOMAIN index = 1 .. n
    OBVIOUS
  <1> HIDE DEF Goes, n
  <1>1. R \in [1 .. n -> [Seq(Cached) -> Seq(Cached)]]
    BY <1>0
  <1>2. PICK f \in [0 .. n -> Seq(Cached)] : f[0] = <<>> /\ \A k \in 1 .. n : f[k] = R[k][f[k - 1]]
    <2> DEFINE S == Seq(Cached)
               base == <<>>
    <2>1. base \in S
      OBVIOUS
    <2>2. R \in [1 .. n -> [S -> S]]
      BY <1>1
    <2> HIDE DEF R, S, base
    <2> n \in Nat
      BY <1>0
    <2>3. \E f : Iterates(f, n, S, base, R)
      BY <2>1, <2>2, Iterated
    <2> QED
      BY <2>3 DEF S, base, Iterates
  <1>3. ASSUME NEW k \in 0 .. n PROVE f[k] = Step(f, k)
    <2>1. CASE k = 0
      BY <1>2, <2>1
    <2>2. CASE k \in 1 .. n
      <3>1. k - 1 \in 0 .. n /\ k # 0
        BY <1>0, <2>2
      <3>2. R[k][f[k - 1]] = IF Goes(k) THEN f[k - 1] ELSE Append(f[k - 1], index[k])
        BY <1>2, <2>2, <3>1
      <3> QED
        BY <1>2, <2>2, <3>1, <3>2
    <2> QED
      BY <1>0, <2>1, <2>2
  <1>4. f = [k \in 0 .. n |-> Step(f, k)]
    <2> HIDE DEF Step
    <2> QED
      BY <1>2, <1>3
  <1>5. Kept = [k \in 0 .. n |-> Step(Kept, k)]
    <2> HIDE DEF Step
    <2> QED
      BY <1>4, Zenon
  <1>6. Without(index, gone) = Kept[n]
    BY Zenon DEF Without, n, Goes
  <1> HIDE DEF Kept
  <1>7. \A k \in 0 .. n : Kept[k] = Step(Kept, k)
    <2> HIDE DEF Step
    <2> QED
      BY <1>5
  <1>8. Kept[0] \in Good
    <2>1. Kept[0] = <<>>
      BY <1>0, <1>7
    <2>2. <<>> \in Seq(Cached) /\ DOMAIN <<>> = {}
      OBVIOUS
    <2> QED
      BY <2>1, <2>2
  <1>9. ASSUME NEW k \in 0 .. n - 1, Kept[k] \in Good PROVE Kept[k + 1] \in Good
    <2> DEFINE q == Kept[k]
               x == index[k + 1]
    <2>1. k + 1 \in 0 .. n /\ k + 1 \in 1 .. n /\ (k + 1) - 1 = k /\ k + 1 # 0
      BY <1>0
    <2>2. Kept[k + 1] = IF Goes(k + 1) THEN q ELSE Append(q, x)
      BY <1>7, <2>1
    <2>3. x \in Cached /\ q \in Seq(Cached) /\ k + 1 \in DOMAIN index
      BY <1>0, <1>9, <2>1
    <2>4. CASE Goes(k + 1)
      BY <1>9, <2>2, <2>4
    <2>5. CASE ~Goes(k + 1)
      <3>1. \A i \in DOMAIN q : (\E j \in DOMAIN index : q[i] = index[j]) /\ \A e \in gone : ~SameEvent(q[i], e)
        BY <1>9
      <3>2. \A e \in gone : ~SameEvent(x, e)
        BY <2>5 DEF Goes
      <3>3. \E j \in DOMAIN index : x = index[j]
        BY <2>3
      <3> HIDE DEF q, x
      <3>4. Append(q, x) \in Seq(Cached)
        BY <2>3
      <3>5. \A i \in DOMAIN Append(q, x) : Append(q, x)[i] = x \/ (i \in DOMAIN q /\ Append(q, x)[i] = q[i])
        BY <2>3
      <3>6. Append(q, x) \in Good
        BY <3>1, <3>2, <3>3, <3>4, <3>5
      <3> QED
        BY <2>2, <2>5, <3>6
    <2> QED
      BY <2>4, <2>5
  <1>10. Kept[n] \in Good
    <2> DEFINE G == {k \in 0 .. n : Kept[k] \in Good}
    <2> HIDE DEF Good
    <2>1. 0 \in G /\ \A k \in 0 .. n - 1 : k \in G => k + 1 \in G
      BY <1>0, <1>8, <1>9
    <2> HIDE DEF G
    <2>2. 0 .. n \subseteq G
      BY <1>0, <2>1, Counting
    <2> QED
      BY <1>0, <2>2 DEF G
  <1> QED
    BY <1>6, <1>10 DEF ToSet

(* What a removal leaves.                                                  *)
LEMMA Removed ==
  ASSUME NEW q \in Seq(Cached), NEW i \in DOMAIN q
  PROVE  /\ RemoveAt(q, i) \in Seq(Cached)
         /\ \A k \in DOMAIN RemoveAt(q, i) : \E j \in DOMAIN q : RemoveAt(q, i)[k] = q[j]
  <1> DEFINE a == SubSeq(q, 1, i - 1)
             b == SubSeq(q, i + 1, Len(q))
  <1>1. DOMAIN q = 1 .. Len(q) /\ Len(q) \in Nat /\ i \in 1 .. Len(q)
    OBVIOUS
  <1>2. a \in Seq(Cached) /\ \A k \in DOMAIN a : k \in DOMAIN q /\ a[k] = q[k]
    BY <1>1
  <1>3. b \in Seq(Cached) /\ \A k \in DOMAIN b : i + k \in DOMAIN q /\ b[k] = q[i + k]
    BY <1>1
  <1> HIDE DEF a, b
  <1>4. a \o b \in Seq(Cached)
    BY <1>2, <1>3
  <1>5. ASSUME NEW k \in DOMAIN (a \o b)
        PROVE  (k \in DOMAIN a /\ (a \o b)[k] = a[k]) \/ (k - Len(a) \in DOMAIN b /\ (a \o b)[k] = b[k - Len(a)])
    BY <1>2, <1>3
  <1> QED
    BY <1>2, <1>3, <1>4, <1>5 DEF RemoveAt, a, b

(* retain: one entry for the event, and otherwise what was there.          *)
LEMMA Retained ==
  ASSUME NEW index \in Seq(Cached), NEW e \in Entry, NEW status \in {"pending", "committed"}
  PROVE  /\ retain(index, e, status) \in Seq(Cached)
         /\ \A c \in ToSet(retain(index, e, status)) :
               c = Index(e, status) \/ (c \in ToSet(index) /\ ~SameEvent(c, e))
  <1> DEFINE w == Without(index, {e})
             x == Index(e, status)
             kept == Append(w, x)
             old == {k \in 1 .. Len(kept) - 1 : kept[k].status = "committed"}
  <1>1. w \in Seq(Cached) /\ \A c \in ToSet(w) : c \in ToSet(index) /\ ~SameEvent(c, e)
    BY Deleted
  <1>2. x \in Cached
    BY DEF Index, Cached, Entry
  <1> HIDE DEF w, x
  <1>3. kept \in Seq(Cached) /\ \A k \in DOMAIN kept : kept[k] = x \/ (k \in DOMAIN w /\ kept[k] = w[k])
    BY <1>1, <1>2
  <1>4. \A c \in ToSet(kept) : c = x \/ c \in ToSet(w)
    BY <1>3 DEF ToSet
  <1>5. retain(index, e, status) = IF Len(kept) <= CacheSize \/ old = {} THEN kept
                                   ELSE RemoveAt(kept, CHOOSE k \in old : \A j \in old : k <= j)
    BY Zenon DEF retain, w, x
  <1>6. CASE Len(kept) <= CacheSize \/ old = {}
    <2>1. retain(index, e, status) = kept
      BY <1>5, <1>6
    <2> QED
      BY <1>1, <1>3, <1>4, <2>1 DEF x
  <1>7. CASE ~(Len(kept) <= CacheSize \/ old = {})
    <2> DEFINE i == CHOOSE k \in old : \A j \in old : k <= j
    <2>1. old \in SUBSET Nat /\ old # {} /\ old \subseteq DOMAIN kept
      BY <1>3, <1>7
    <2> HIDE DEF old, kept
    <2>2. i \in DOMAIN kept
      BY <2>1, Least
    <2>3. retain(index, e, status) = RemoveAt(kept, i)
      BY <1>5, <1>7
    <2> HIDE DEF i
    <2>4. \A k \in DOMAIN RemoveAt(kept, i) : \E j \in DOMAIN kept : RemoveAt(kept, i)[k] = kept[j]
      BY <1>3, <2>2, Removed
    <2>5. \A c \in ToSet(RemoveAt(kept, i)) : c \in ToSet(kept)
      BY <2>4 DEF ToSet
    <2>6. RemoveAt(kept, i) \in Seq(Cached)
      BY <1>3, <2>2, Removed
    <2> QED
      BY <1>1, <1>4, <2>3, <2>5, <2>6 DEF x
  <1> QED
    BY <1>6, <1>7

(* indexBatch: the events of the batch are committed ones, entries or rows *)
(* found in their place, and otherwise what was there.                     *)
LEMMA Remembered ==
  ASSUME NEW index \in Seq(Cached), NEW batch \in Seq(Entry), db.rows \in SUBSET Entry
  PROVE  /\ indexBatch(index, batch) \in Seq(Cached)
         /\ \A c \in ToSet(indexBatch(index, batch)) :
               \/ \E e \in ToSet(batch) : selectExisting(db.rows, e) = {} /\ c = Index(e, "committed")
               \/ \E f \in db.rows : c = Index(f, "committed")
               \/ c \in ToSet(index) /\ \A e \in ToSet(batch) : ~SameEvent(c, e)
  <1> DEFINE n == Len(batch)
             Stored(e) == IF selectExisting(db.rows, e) = {} THEN e
                          ELSE CHOOSE f \in selectExisting(db.rows, e) : TRUE
             Step(f, k) == IF k = 0 THEN index ELSE retain(f[k - 1], Stored(batch[k]), "committed")
             Indexed == CHOOSE f : f = [k \in 0 .. n |-> Step(f, k)]
             New(c) == \/ \E e \in ToSet(batch) : selectExisting(db.rows, e) = {} /\ c = Index(e, "committed")
                       \/ \E f \in db.rows : c = Index(f, "committed")
             Good(k) == {q \in Seq(Cached) : \A c \in ToSet(q) :
                            New(c) \/ (c \in ToSet(index) /\ \A j \in 1 .. k : ~SameEvent(c, batch[j]))}
             R == [k \in 1 .. n |-> [q \in Seq(Cached) |-> retain(q, Stored(batch[k]), "committed")]]
  <1>0. n \in Nat /\ DOMAIN batch = 1 .. n /\ \A k \in 1 .. n : batch[k] \in Entry /\ batch[k] \in ToSet(batch)
    BY DEF ToSet
  <1>1. ASSUME NEW k \in 1 .. n
        PROVE  /\ Stored(batch[k]) \in Entry /\ SameEvent(Stored(batch[k]), batch[k])
               /\ New(Index(Stored(batch[k]), "committed"))
    <2>1. batch[k] \in Entry /\ batch[k] \in ToSet(batch)
      BY <1>0
    <2>2. CASE selectExisting(db.rows, batch[k]) = {}
      <3>1. Stored(batch[k]) = batch[k]
        BY <2>2
      <3> QED
        BY <2>1, <2>2, <3>1 DEF SameEvent
    <2>3. CASE selectExisting(db.rows, batch[k]) # {}
      <3>1. Stored(batch[k]) \in selectExisting(db.rows, batch[k])
        BY <2>3
      <3> HIDE DEF Stored
      <3>2. Stored(batch[k]) \in db.rows /\ SameEvent(Stored(batch[k]), batch[k])
        BY <3>1 DEF selectExisting
      <3> QED
        BY <3>2
    <2> QED
      BY <2>2, <2>3
  <1> HIDE DEF n, Stored, New
  <1>2. \A k \in 1 .. n, q \in Seq(Cached) : retain(q, Stored(batch[k]), "committed") \in Seq(Cached)
    BY <1>1, Retained
  <1>3. PICK f : Iterates(f, n, Seq(Cached), index, R)
    <2> DEFINE S == Seq(Cached)
    <2>1. R \in [1 .. n -> [S -> S]] /\ index \in S
      BY <1>2
    <2> n \in Nat
      BY <1>0
    <2> HIDE DEF R, S
    <2>2. \E f : Iterates(f, n, S, index, R)
      BY <2>1, Iterated
    <2> QED
      BY <2>2 DEF S
  <1>4. ASSUME NEW k \in 0 .. n PROVE f[k] = Step(f, k)
    <2>1. CASE k = 0
      BY <1>3, <2>1 DEF Iterates
    <2>2. CASE k \in 1 .. n
      <3>1. k - 1 \in 0 .. n /\ k # 0
        BY <1>0, <2>2
      <3>2. f[k] = R[k][f[k - 1]] /\ f[k - 1] \in Seq(Cached)
        BY <1>3, <2>2, <3>1 DEF Iterates
      <3>3. R[k][f[k - 1]] = retain(f[k - 1], Stored(batch[k]), "committed")
        BY <2>2, <3>2
      <3> QED
        BY <3>1, <3>2, <3>3
    <2> QED
      BY <1>0, <2>1, <2>2
  <1>5. f = [k \in 0 .. n |-> Step(f, k)]
    <2> HIDE DEF Step
    <2> QED
      BY <1>3, <1>4 DEF Iterates
  <1>6. Indexed = [k \in 0 .. n |-> Step(Indexed, k)]
    <2> HIDE DEF Step
    <2> QED
      BY <1>5, Zenon
  <1>7. indexBatch(index, batch) = Indexed[n]
    BY Zenon DEF indexBatch, n, Stored
  <1> HIDE DEF Indexed
  <1>8. \A k \in 0 .. n : Indexed[k] = Step(Indexed, k)
    <2> HIDE DEF Step
    <2> QED
      BY <1>6
  <1>9. Indexed[0] \in Good(0)
    BY <1>0, <1>8
  <1>10. ASSUME NEW k \in 0 .. n - 1, Indexed[k] \in Good(k) PROVE Indexed[k + 1] \in Good(k + 1)
    <2> DEFINE q == Indexed[k]
               x == Stored(batch[k + 1])
    <2>1. k + 1 \in 0 .. n /\ k + 1 \in 1 .. n /\ (k + 1) - 1 = k /\ k + 1 # 0 /\ k \in Nat
      BY <1>0
    <2>2. Indexed[k + 1] = retain(q, x, "committed")
      BY <1>8, <2>1
    <2>3. x \in Entry /\ SameEvent(x, batch[k + 1]) /\ New(Index(x, "committed"))
      BY <1>1, <2>1
    <2>4. q \in Seq(Cached) /\ \A c \in ToSet(q) :
             New(c) \/ (c \in ToSet(index) /\ \A j \in 1 .. k : ~SameEvent(c, batch[j]))
      BY <1>10
    <2> HIDE DEF q, x
    <2>5. /\ retain(q, x, "committed") \in Seq(Cached)
          /\ \A c \in ToSet(retain(q, x, "committed")) :
                c = Index(x, "committed") \/ (c \in ToSet(q) /\ ~SameEvent(c, x))
      BY <2>3, <2>4, Retained
    <2>6. ASSUME NEW c \in ToSet(q), ~New(c), ~SameEvent(c, x), NEW j \in 1 .. k + 1
          PROVE  c \in ToSet(index) /\ ~SameEvent(c, batch[j])
      <3>1. CASE j \in 1 .. k
        BY <2>4, <2>6, <3>1
      <3>2. CASE j = k + 1
        BY <2>3, <2>4, <2>6, <3>2 DEF SameEvent
      <3> QED
        BY <2>1, <3>1, <3>2
    <2>7. \A c \in ToSet(retain(q, x, "committed")) :
             New(c) \/ (c \in ToSet(index) /\ \A j \in 1 .. k + 1 : ~SameEvent(c, batch[j]))
      BY <2>1, <2>3, <2>4, <2>5, <2>6
    <2> QED
      BY <2>2, <2>5, <2>7
  <1>11. Indexed[n] \in Good(n)
    <2> DEFINE G == {k \in 0 .. n : Indexed[k] \in Good(k)}
    <2> HIDE DEF Good
    <2>1. 0 \in G /\ \A k \in 0 .. n - 1 : k \in G => k + 1 \in G
      BY <1>0, <1>9, <1>10
    <2> HIDE DEF G
    <2>2. 0 .. n \subseteq G
      BY <1>0, <2>1, Counting
    <2> QED
      BY <1>0, <2>2 DEF G
  <1>12. \A c : (\A j \in 1 .. n : ~SameEvent(c, batch[j])) => \A e \in ToSet(batch) : ~SameEvent(c, e)
    BY <1>0 DEF ToSet
  <1> QED
    BY <1>7, <1>11, <1>12 DEF New

(* A finite set of numbers has one that is larger than exactly k - 1.      *)
LEMMA Ranked ==
  ASSUME NEW S \in SUBSET Nat, IsFiniteSet(S), NEW k \in 1 .. Cardinality(S)
  PROVE  \E n \in S : Cardinality({m \in S : m < n}) = k - 1
  <1> DEFINE Below(n) == {m \in S : m < n}
             Rank == [n \in S |-> Cardinality(Below(n))]
             N == Cardinality(S)
  <1>1. N \in Nat /\ IsFiniteSet(0 .. N - 1) /\ Cardinality(0 .. N - 1) = N
    <2>1. N \in Nat /\ 0 \in Int /\ N - 1 \in Int
      BY FS_CardinalityType
    <2> HIDE DEF N
    <2>2. IsFiniteSet(0 .. N - 1) /\ Cardinality(0 .. N - 1) = IF 0 > N - 1 THEN 0 ELSE N - 1 - 0 + 1
      BY <2>1, FS_Interval
    <2> QED
      BY <2>1, <2>2
  <1>2. \A n \in S : IsFiniteSet(Below(n)) /\ Cardinality(Below(n)) \in Nat
    BY FS_Subset, FS_CardinalityType
  <1>3. ASSUME NEW n \in S PROVE Cardinality(Below(n)) \in 0 .. N - 1
    <2>1. Below(n) \in SUBSET S /\ Below(n) # S
      <3>1. n \in S /\ n \notin Below(n)
        OBVIOUS
      <3> QED
        BY <3>1
    <2> HIDE DEF Below
    <2>2. Cardinality(Below(n)) <= N /\ Cardinality(Below(n)) # N
      BY <2>1, FS_Subset
    <2> QED
      BY <1>1, <1>2, <2>2
  <1>4. ASSUME NEW a \in S, NEW b \in S, a < b PROVE Cardinality(Below(a)) # Cardinality(Below(b))
    <2>1. a \in Nat /\ b \in Nat /\ \A m \in S : m \in Nat /\ (m < a => m < b)
      BY <1>4
    <2>2. a \in Below(b) /\ a \notin Below(a)
      BY <1>4, <2>1
    <2>3. Below(a) \in SUBSET Below(b)
      BY <2>1
    <2> HIDE DEF Below
    <2> QED
      BY <1>2, <2>2, <2>3, FS_Subset
  <1>5. Rank \in [S -> 0 .. N - 1] /\ \A n \in S : Rank[n] = Cardinality(Below(n))
    BY <1>3
  <1> HIDE DEF Below, Rank, N
  <1>6. \A a, b \in S : Rank[a] = Rank[b] => a = b
    <2>1. \A a, b \in S : a = b \/ a < b \/ b < a
      OBVIOUS
    <2> QED
      BY <1>4, <1>5, <2>1
  <1>7. Rank \in Injection(S, 0 .. N - 1)
    BY <1>5, <1>6 DEF Injection, IsInjective
  <1>8. Rank \in Surjection(S, 0 .. N - 1)
    BY <1>1, <1>7, FS_Injection DEF N
  <1>9. k - 1 \in 0 .. N - 1
    BY <1>1 DEF N
  <1>10. PICK n \in S : Rank[n] = k - 1
    BY <1>8, <1>9 DEF Surjection
  <1> QED
    BY <1>5, <1>10 DEF Below

(* A journal that is opened knows committed rows only.                     *)
LEMMA Seeded ==
  ASSUME NEW rows \in SUBSET Entry
  PROVE  /\ Newest(rows) \in Seq(Cached)
         /\ \A c \in ToSet(Newest(rows)) : \E e \in rows : c = Index(e, "committed")
  <1> DEFINE seqs == {e.seq : e \in rows}
             newest == {n \in seqs : Cardinality({m \in seqs : m > n}) < CacheSize}
             Nth(k) == CHOOSE n \in newest : Cardinality({m \in newest : m < n}) = k - 1
             Row(k) == CHOOSE e \in rows : e.seq = Nth(k)
             N == Cardinality(newest)
  <1>1. seqs \in SUBSET Seqs /\ newest \in SUBSET seqs /\ Seqs \in SUBSET Nat /\ IsFiniteSet(Seqs)
    <2>1. Ceiling \in Nat /\ Ceiling - 1 \in Int
      BY JournalAssumption
    <2>2. IsFiniteSet(0 .. Ceiling - 1)
      BY <2>1, FS_Interval
    <2> QED
      BY <2>1, <2>2 DEF Seqs, Entry
  <1>2. newest \in SUBSET Nat /\ IsFiniteSet(newest)
    BY <1>1, FS_Subset
  <1>3. N \in Nat
    BY <1>2, FS_CardinalityType
  <1>4. Newest(rows) = [k \in 1 .. N |-> Index(Row(k), "committed")]
    BY Zenon DEF Newest
  <1>5. ASSUME NEW k \in 1 .. N PROVE Row(k) \in rows
    <2> HIDE DEF newest
    <2>1. Nth(k) \in newest
      BY <1>2, Ranked
    <2> HIDE DEF Nth
    <2>2. Nth(k) \in seqs
      BY <2>1 DEF newest
    <2>3. \E e \in rows : e.seq = Nth(k)
      BY <2>2
    <2> QED
      BY <2>3
  <1> HIDE DEF Row, N
  <1>6. \A k \in 1 .. N : Index(Row(k), "committed") \in Cached
    BY <1>5 DEF Index, Cached, Entry
  <1>7. Newest(rows) \in Seq(Cached) /\ DOMAIN Newest(rows) = 1 .. N
    BY <1>3, <1>4, <1>6
  <1> QED
    BY <1>4, <1>5, <1>7 DEF ToSet

---------------------------------------------------------------------------
(* The index tells the truth                                               *)

(* What an event that is not committed waits for: the queue, or the batch  *)
(* until it is persisted.                                                  *)
Unsettled(me) == ToSet(me.queue) \cup (IF me.persisted THEN {} ELSE ToSet(me.batch))

(* An entry is in a log; an index knows an event as a log has it.          *)
InLog(e, l) == \E k \in DOMAIN l : l[k] = e
KnownAs(c, l) == \E k \in DOMAIN l : SameEvent(l[k], c) /\ l[k].seq = c.seq

(* The index of a journal, also while its batch is persisted and not yet   *)
(* settled.                                                                *)
Founded(c, me, l) ==
    IF c.status = "committed" THEN KnownAs(c, l) ELSE \E e \in Unsettled(me) : SameEvent(e, c)
Truthful(index, me, l) == \A c \in ToSet(index) : Founded(c, me, l)

(* What a transaction has parked is in the log once it has committed.      *)
Vouched(t, l) ==
    /\ t.st = "open" =>
        /\ \A e \in t.snap.rows : InLog(e, l)
        /\ \A k \in DOMAIN t.parked : t.parked[k].entry \in t.rows
    /\ t.st = "settling" => \A k \in DOMAIN t.parked : InLog(t.parked[k].entry, l)

IndexInv ==
    /\ sourceEvents \in [Procs -> Seq(Cached)]
    /\ \A p \in Procs :
        /\ proc[p].status # "closed" => Truthful(sourceEvents[p], proc[p], log)
        /\ Vouched(txn[p], log)

(* A log that grows keeps what was found in it.                            *)
LEMMA Grown ==
  ASSUME NEW l, NEW m, \A k \in DOMAIN l : k \in DOMAIN m /\ m[k] = l[k]
  PROVE  /\ \A e : InLog(e, l) => InLog(e, m)
         /\ \A c, me : Founded(c, me, l) => Founded(c, me, m)
         /\ \A index, me : Truthful(index, me, l) => Truthful(index, me, m)
         /\ \A t : Vouched(t, l) => Vouched(t, m)
  <1>1. \A e : InLog(e, l) => InLog(e, m)
    BY DEF InLog
  <1>2. \A c : KnownAs(c, l) => KnownAs(c, m)
    BY DEF KnownAs
  <1>3. \A c, me : Founded(c, me, l) => Founded(c, me, m)
    BY <1>2 DEF Founded
  <1> QED
    BY <1>1, <1>3 DEF Truthful, Vouched

(* One journal and its transaction step; the log only grows.               *)
LEMMA IndexStep ==
  ASSUME IInv, IndexInv, LogGrows, NEW p \in Procs, NEW index \in Seq(Cached), NEW me, NEW t,
         sourceEvents' = [sourceEvents EXCEPT ![p] = index],
         proc' = [proc EXCEPT ![p] = me], txn' = [txn EXCEPT ![p] = t],
         me.status # "closed" => Truthful(index, me, log'), Vouched(t, log')
  PROVE  IndexInv'
  <1>1. proc \in [Procs -> Journal] /\ txn \in [Procs -> Txn] /\ sourceEvents \in [Procs -> Seq(Cached)]
    BY DEF IInv, TypeOK, IndexInv
  <1>2. /\ sourceEvents' \in [Procs -> Seq(Cached)]
        /\ sourceEvents'[p] = index /\ proc'[p] = me /\ txn'[p] = t
        /\ \A q \in Procs \ {p} : sourceEvents'[q] = sourceEvents[q] /\ proc'[q] = proc[q] /\ txn'[q] = txn[q]
    BY <1>1
  <1>3. /\ \A i, m : Truthful(i, m, log) => Truthful(i, m, log')
        /\ \A u : Vouched(u, log) => Vouched(u, log')
    BY Grown DEF LogGrows
  <1>4. ASSUME NEW q \in Procs
        PROVE  /\ proc'[q].status # "closed" => Truthful(sourceEvents'[q], proc'[q], log')
               /\ Vouched(txn'[q], log')
    <2>1. CASE q = p
      BY <1>2, <2>1
    <2>2. CASE q # p
      BY <1>2, <1>3, <2>2 DEF IndexInv
    <2> QED
      BY <2>1, <2>2
  <1> QED
    BY <1>2, <1>4 DEF IndexInv

(* What a step may leave as it is.                                         *)
LEMMA IndexParts ==
  ASSUME IInv, IndexInv, NEW p \in Procs
  PROVE  /\ TypeOK /\ StoreInv /\ proc[p] \in Journal /\ txn[p] \in Txn /\ QueueInv(proc[p])
         /\ sourceEvents[p] \in Seq(Cached) /\ log \in Seq(Entry) /\ db.rows \in SUBSET Entry
         /\ proc[p].queue \in Seq(Entry) /\ proc[p].batch \in Seq(Entry)
         /\ ToSet(proc[p].queue) \subseteq Entry /\ ToSet(proc[p].batch) \subseteq Entry
         /\ proc[p].status # "closed" => Truthful(sourceEvents[p], proc[p], log)
         /\ Vouched(txn[p], log) /\ \A e \in db.rows : InLog(e, log)
         /\ sourceEvents' = sourceEvents => sourceEvents' = [sourceEvents EXCEPT ![p] = sourceEvents[p]]
         /\ proc' = proc => proc' = [proc EXCEPT ![p] = proc[p]]
         /\ txn' = txn => txn' = [txn EXCEPT ![p] = txn[p]]
         /\ log' = log => LogGrows
  <1>1. /\ TypeOK /\ StoreInv /\ proc[p] \in Journal /\ txn[p] \in Txn /\ QueueInv(proc[p])
        /\ sourceEvents[p] \in Seq(Cached) /\ log \in Seq(Entry) /\ db.rows \in SUBSET Entry
        /\ proc[p].queue \in Seq(Entry) /\ proc[p].batch \in Seq(Entry)
    BY DEF IInv, TypeOK, IndexInv, FlushInv, Db, Journal
  <1>2. ToSet(proc[p].queue) \subseteq Entry /\ ToSet(proc[p].batch) \subseteq Entry
    BY <1>1, FiniteMembers
  <1>3. /\ proc[p].status # "closed" => Truthful(sourceEvents[p], proc[p], log)
        /\ Vouched(txn[p], log)
    BY DEF IndexInv
  <1>4. \A e \in db.rows : InLog(e, log)
    BY <1>1 DEF StoreInv, RowsKept, InLog
  <1>5. /\ sourceEvents' = sourceEvents => sourceEvents' = [sourceEvents EXCEPT ![p] = sourceEvents[p]]
        /\ proc' = proc => proc' = [proc EXCEPT ![p] = proc[p]]
        /\ txn' = txn => txn' = [txn EXCEPT ![p] = txn[p]]
    BY DEF IInv, TypeOK, IndexInv
  <1>6. log' = log => LogGrows
    BY DEF LogGrows
  <1> QED
    BY <1>1, <1>2, <1>3, <1>4, <1>5, <1>6

(* The truth is about what queues.                                         *)
LEMMA TruthfulSame ==
  ASSUME NEW index, NEW l, NEW me, NEW m, Truthful(index, me, l),
         m.queue = me.queue, m.batch = me.batch, m.persisted = me.persisted
  PROVE  Truthful(index, m, l)
  BY DEF Truthful, Founded, Unsettled

(* Nothing of the index moves.                                             *)
LEMMA IndexQuiet ==
  ASSUME IInv, IndexInv, UNCHANGED <<sourceEvents, log, proc, txn>>
  PROVE  IndexInv'
  BY DEF IndexInv

(* A journal whose queue, batch and status stay.                           *)
LEMMA IndexLocal ==
  ASSUME IInv, IndexInv, NEW p \in Procs, NEW m, SameQueue(m, proc[p]),
         proc' = [proc EXCEPT ![p] = m], UNCHANGED <<sourceEvents, log>>,
         NEW t, txn' = [txn EXCEPT ![p] = t], Vouched(t, log)
  PROVE  IndexInv'
  <1>1. /\ sourceEvents[p] \in Seq(Cached) /\ LogGrows
        /\ sourceEvents' = [sourceEvents EXCEPT ![p] = sourceEvents[p]]
        /\ proc[p].status # "closed" => Truthful(sourceEvents[p], proc[p], log)
    BY IndexParts
  <1>2. m.status # "closed" => Truthful(sourceEvents[p], m, log)
    BY <1>1, TruthfulSame DEF SameQueue
  <1> QED
    BY <1>1, <1>2, IndexStep

(* An admitted entry is queued, and indexed as pending; one that is        *)
(* evicted for it leaves the queue and the index.                          *)
LEMMA IndexEmitLossy ==
  ASSUME IInv, IndexInv, NEW p \in Procs, NEW s \in Sources, NEW given \in SourceSeqs,
         emitLossy(p, s, given)
  PROVE  IndexInv'
  <1> DEFINE me == ensureFloors(proc[p], s)
             ss == IF given = Unnamed THEN me.sourceSequence[s] ELSE given
             e == [seq |-> me.sequence, src |-> s, ss |-> ss, type |-> "log", channel |-> "lossy"]
             claimed == raiseFloors(me, e)
             index == sourceEvents[p]
  <1>1. /\ TypeOK /\ proc[p] \in Journal /\ log' = log /\ txn' = [txn EXCEPT ![p] = txn[p]]
        /\ proc[p].status = "open" /\ ss < MaxSafe /\ Vouched(txn[p], log) /\ LogGrows
        /\ index \in Seq(Cached) /\ Truthful(index, proc[p], log)
    BY IndexParts DEF emitLossy
  <1>2. /\ me \in Journal /\ SameQueue(me, proc[p]) /\ me.sequence \in 0 .. Ceiling
        /\ me.sourceSequence[s] \in 0 .. Ceiling
    BY <1>1, EnsuredFloors
  <1>3. CASE proc' = [proc EXCEPT ![p] = me] /\ UNCHANGED sourceEvents
    <2> HIDE DEF me
    <2> QED
      BY <1>1, <1>2, <1>3, IndexLocal
  <1>4. CASE me.sequence < MaxSafe
    <2>1. me.sequence \in Seqs /\ ss \in Seqs
      <3>1. MaxSafe \in Nat /\ MaxSafe <= Ceiling /\ Named \subseteq Seqs /\ Ceiling \in Nat
        BY <1>1, SettingFacts, EntryFacts
      <3>2. me.sequence \in Seqs
        BY <1>2, <1>4, <3>1 DEF Seqs
      <3>3. CASE given = Unnamed
        BY <1>1, <1>2, <3>1, <3>2, <3>3 DEF Seqs
      <3>4. CASE given # Unnamed
        BY <3>1, <3>2, <3>4 DEF SourceSeqs
      <3> QED
        BY <3>2, <3>3, <3>4
    <2>2. e \in Entry
      BY <2>1 DEF Entry
    <2> HIDE DEF me, e
    <2>3. claimed \in Journal /\ SameQueue(claimed, proc[p]) /\ SameQueue(claimed, me)
      BY <1>2, <2>2, RaisedFloors DEF SameQueue
    <2> HIDE DEF claimed, index
    <2>4. claimed.queue \in Seq(Entry) /\ claimed.queue = proc[p].queue /\ claimed.queue = me.queue
      BY <2>3 DEF Journal, SameQueue
    <2>5. CASE proc' = [proc EXCEPT ![p] = claimed] /\ UNCHANGED sourceEvents
      BY <1>1, <2>3, <2>5, IndexLocal
    <2>6. CASE /\ Len(me.queue) >= Capacity
               /\ proc' = [proc EXCEPT ![p] = [claimed EXCEPT !.queue = Append(Tail(@), e)]]
               /\ sourceEvents' = [sourceEvents EXCEPT ![p] = retain(Without(@, {Head(me.queue)}), e, "pending")]
      <3> DEFINE h == Head(claimed.queue)
                 rest == Append(Tail(claimed.queue), e)
                 m == [claimed EXCEPT !.queue = rest]
                 left == Without(index, {h})
                 new == retain(left, e, "pending")
      <3>1. claimed.queue # <<>>
        <4>1. Capacity \in Nat /\ Capacity > 0
          BY <1>1, SettingFacts
        <4> QED
          BY <2>4, <2>6, <4>1
      <3>2. ToSet(claimed.queue) = ToSet(Tail(claimed.queue)) \cup {h} /\ Tail(claimed.queue) \in Seq(Entry)
        BY <2>4, <3>1, TailSet
      <3> DEFINE tl == Tail(claimed.queue)
      <3>3. ToSet(rest) = ToSet(Tail(claimed.queue)) \cup {e}
        <4>1. tl \in Seq(Entry)
          BY <3>2
        <4>2. ToSet(Append(tl, e)) = ToSet(tl) \cup {e}
          <5> HIDE DEF tl, e
          <5> QED
            BY <2>2, <4>1, AppendSet
        <4> QED
          BY <4>2, Zenon
      <3>4. left \in Seq(Cached) /\ \A c \in ToSet(left) : c \in ToSet(index) /\ ~SameEvent(c, h)
        BY <1>1, Deleted
      <3> HIDE DEF left, h, rest
      <3>5. new \in Seq(Cached) /\ \A c \in ToSet(new) : c = Index(e, "pending") \/ c \in ToSet(left)
        BY <2>2, <3>4, Retained
      <3>6. /\ m.queue = rest /\ m.batch = proc[p].batch /\ m.persisted = proc[p].persisted
            /\ m.status = proc[p].status
        BY <2>3 DEF Journal, SameQueue
      <3>7. proc' = [proc EXCEPT ![p] = m]
        BY <2>6 DEF rest
      <3>8. sourceEvents' = [sourceEvents EXCEPT ![p] = new]
        BY <2>4, <2>6 DEF left, h, index
      <3> HIDE DEF m, new
      <3>9. ASSUME NEW c \in ToSet(new) PROVE Founded(c, m, log)
        <4>1. CASE c = Index(e, "pending")
          <5>1. e \in Unsettled(m) /\ c.status = "pending" /\ SameEvent(e, c)
            BY <3>3, <3>6, <4>1 DEF Unsettled, Index, SameEvent
          <5> QED
            BY <5>1 DEF Founded
        <4>2. CASE c \in ToSet(left)
          <5>1. Founded(c, proc[p], log) /\ ~SameEvent(c, h)
            BY <1>1, <3>4, <4>2 DEF Truthful
          <5>2. \A f \in Unsettled(proc[p]) : f = h \/ f \in Unsettled(m)
            BY <2>4, <3>2, <3>3, <3>6 DEF Unsettled
          <5> QED
            BY <5>1, <5>2 DEF Founded, SameEvent
        <4> QED
          BY <3>5, <4>1, <4>2
      <3>10. Truthful(new, m, log')
        BY <1>1, <3>9 DEF Truthful
      <3> QED
        BY <1>1, <3>5, <3>7, <3>8, <3>10, IndexStep
    <2>7. CASE /\ proc' = [proc EXCEPT ![p] = [claimed EXCEPT !.queue = Append(@, e), !.pending = @ + 1]]
               /\ sourceEvents' = [sourceEvents EXCEPT ![p] = retain(@, e, "pending")]
      <3> DEFINE m == [claimed EXCEPT !.queue = Append(@, e), !.pending = @ + 1]
                 new == retain(index, e, "pending")
      <3>1. new \in Seq(Cached) /\ \A c \in ToSet(new) : c = Index(e, "pending") \/ c \in ToSet(index)
        BY <1>1, <2>2, Retained
      <3>2. /\ m.queue = Append(claimed.queue, e) /\ m.batch = proc[p].batch
            /\ m.persisted = proc[p].persisted /\ m.status = proc[p].status
        BY <2>3 DEF Journal, SameQueue
      <3>3. ToSet(m.queue) = ToSet(proc[p].queue) \cup {e}
        BY <2>2, <2>4, <3>2, AppendSet
      <3>4. sourceEvents' = [sourceEvents EXCEPT ![p] = new] /\ proc' = [proc EXCEPT ![p] = m]
        BY <2>7 DEF index
      <3> HIDE DEF m, new
      <3>5. ASSUME NEW c \in ToSet(new) PROVE Founded(c, m, log)
        <4>1. CASE c = Index(e, "pending")
          <5>1. e \in Unsettled(m) /\ c.status = "pending" /\ SameEvent(e, c)
            BY <3>3, <4>1 DEF Unsettled, Index, SameEvent
          <5> QED
            BY <5>1 DEF Founded
        <4>2. CASE c \in ToSet(index)
          <5>1. Founded(c, proc[p], log) /\ Unsettled(proc[p]) \subseteq Unsettled(m)
            BY <1>1, <3>2, <3>3, <4>2 DEF Truthful, Unsettled
          <5> QED
            BY <5>1 DEF Founded
        <4> QED
          BY <3>1, <4>1, <4>2
      <3>6. Truthful(new, m, log')
        BY <1>1, <3>5 DEF Truthful
      <3> QED
        BY <1>1, <3>1, <3>4, <3>6, IndexStep
    <2> QED
      BY <1>3, <1>4, <2>5, <2>6, <2>7, ZenonT(60) DEF emitLossy, me, e, claimed
  <1> QED
    BY <1>3, <1>4 DEF emitLossy

(* A batch that is taken waits on.                                         *)
LEMMA IndexTakeBatch == ASSUME IInv, IndexInv, NEW p \in Procs, takeBatch(p) PROVE IndexInv'
  <1> DEFINE me == proc[p]
             n == IF Len(me.queue) < BatchSize THEN Len(me.queue) ELSE BatchSize
             a == SubSeq(me.queue, 1, n)
             b == SubSeq(me.queue, n + 1, Len(me.queue))
             m == [me EXCEPT !.batch = a, !.queue = b]
  <1>1. /\ TypeOK /\ me \in Journal /\ me.queue \in Seq(Entry) /\ QueueInv(me)
        /\ log' = log /\ LogGrows /\ Vouched(txn[p], log)
        /\ me.status \in {"open", "closing"} /\ me.batch = <<>>
        /\ proc' = [proc EXCEPT ![p] = m] /\ txn' = [txn EXCEPT ![p] = txn[p]]
        /\ sourceEvents[p] \in Seq(Cached) /\ Truthful(sourceEvents[p], me, log)
        /\ sourceEvents' = [sourceEvents EXCEPT ![p] = sourceEvents[p]]
    BY IndexParts DEF takeBatch
  <1>2. n \in 0 .. Len(me.queue)
    <2>1. BatchSize \in Nat /\ Len(me.queue) \in Nat
      BY <1>1, SettingFacts, LenProperties
    <2> QED
      BY <2>1
  <1> HIDE DEF me, n
  <1>3. ToSet(me.queue) = ToSet(a) \cup ToSet(b)
    BY <1>1, <1>2, SplitSet
  <1> HIDE DEF a, b
  <1>4. m.queue = b /\ m.batch = a /\ m.persisted = me.persisted /\ ~me.persisted
    BY <1>1 DEF Journal, QueueInv
  <1> HIDE DEF m
  <1>5. Unsettled(m) = Unsettled(me)
    <2>1. ToSet(me.batch) = {}
      BY <1>1 DEF ToSet
    <2> QED
      BY <1>3, <1>4, <2>1 DEF Unsettled
  <1>6. Truthful(sourceEvents[p], m, log')
    BY <1>1, <1>5 DEF Truthful, Founded
  <1> QED
    BY <1>1, <1>6, IndexStep

(* A batch that is settled was persisted: nothing waits for it.            *)
LEMMA IndexSettle == ASSUME IInv, IndexInv, NEW p \in Procs, settle(p) PROVE IndexInv'
  <1> DEFINE me == proc[p]
             left == me.pending - Len(me.batch)
             m == [me EXCEPT !.pending = left, !.batch = <<>>, !.persisted = FALSE]
  <1>1. /\ me \in Journal /\ log' = log /\ LogGrows /\ Vouched(txn[p], log) /\ me.persisted
        /\ proc' = [proc EXCEPT ![p] = m] /\ txn' = [txn EXCEPT ![p] = txn[p]]
        /\ sourceEvents[p] \in Seq(Cached)
        /\ me.status # "closed" => Truthful(sourceEvents[p], me, log)
        /\ sourceEvents' = [sourceEvents EXCEPT ![p] = sourceEvents[p]]
    BY IndexParts DEF settle
  <1>2. m.queue = me.queue /\ m.batch = <<>> /\ m.persisted = FALSE /\ m.status = me.status
    BY <1>1 DEF Journal
  <1> HIDE DEF m
  <1>3. Unsettled(m) = Unsettled(me)
    <2>1. ToSet(<<>>) = {}
      BY DEF ToSet
    <2> QED
      BY <1>1, <1>2, <2>1 DEF Unsettled
  <1>4. m.status # "closed" => Truthful(sourceEvents[p], m, log')
    BY <1>1, <1>2, <1>3 DEF Truthful, Founded
  <1> QED
    BY <1>1, <1>4, IndexStep

(* A batch that is lost leaves the index.                                  *)
LEMMA IndexFailSink == ASSUME IInv, IndexInv, NEW p \in Procs, failSink(p) PROVE IndexInv'
  <1> DEFINE me == proc[p]
             m == [me EXCEPT !.lossEpoch = @ + 1, !.pending = @ - Len(me.batch), !.batch = <<>>,
                             !.flushedLossEpoch = IF Waiting(p) # {} THEN me.lossEpoch + 1 ELSE @]
             new == Without(sourceEvents[p], ToSet(me.batch))
  <1>1. /\ me \in Journal /\ log' = log /\ LogGrows /\ Vouched(txn[p], log) /\ ~me.persisted
        /\ proc' = [proc EXCEPT ![p] = m] /\ txn' = [txn EXCEPT ![p] = txn[p]]
        /\ sourceEvents[p] \in Seq(Cached)
        /\ me.status # "closed" => Truthful(sourceEvents[p], me, log)
        /\ sourceEvents' = [sourceEvents EXCEPT ![p] = new]
    BY IndexParts DEF failSink
  <1>2. m.queue = me.queue /\ m.batch = <<>> /\ m.persisted = me.persisted /\ m.status = me.status
    BY <1>1 DEF Journal
  <1>3. /\ new \in Seq(Cached)
        /\ \A c \in ToSet(new) : c \in ToSet(sourceEvents[p]) /\ \A e \in ToSet(me.batch) : ~SameEvent(c, e)
    BY <1>1, Deleted
  <1> HIDE DEF m, new
  <1>4. ASSUME NEW c \in ToSet(new), me.status # "closed" PROVE Founded(c, m, log)
    <2>1. Founded(c, me, log) /\ \A e \in ToSet(me.batch) : ~SameEvent(c, e)
      BY <1>1, <1>3, <1>4 DEF Truthful
    <2>2. \A f \in Unsettled(me) : f \in ToSet(me.batch) \/ f \in Unsettled(m)
      BY <1>2 DEF Unsettled
    <2> QED
      BY <2>1, <2>2 DEF Founded, SameEvent
  <1>5. m.status # "closed" => Truthful(new, m, log')
    BY <1>1, <1>2, <1>4 DEF Truthful
  <1> QED
    BY <1>1, <1>3, <1>5, IndexStep

(* A batch that is persisted: its events are known as the log has them,    *)
(* and no other waits for it.                                              *)
LEMMA IndexPersistBatch == ASSUME IInv, IndexInv, NEW p \in Procs, persistBatch(p) PROVE IndexInv'
  <1> DEFINE me == proc[p]
             fresh == {e \in ToSet(me.batch) : selectExisting(db.rows, e) = {}}
             x == SetToSeq(fresh)
             m == [me EXCEPT !.persisted = TRUE]
             index == sourceEvents[p]
             new == indexBatch(index, me.batch)
  <1>1. /\ me \in Journal /\ log' = log \o x /\ Vouched(txn[p], log) /\ ~me.persisted
        /\ proc' = [proc EXCEPT ![p] = m] /\ txn' = [txn EXCEPT ![p] = txn[p]]
        /\ me.batch \in Seq(Entry) /\ db.rows \in SUBSET Entry /\ log \in Seq(Entry)
        /\ \A e \in db.rows : InLog(e, log)
        /\ index \in Seq(Cached) /\ (me.status # "closed" => Truthful(index, me, log))
        /\ sourceEvents' = [sourceEvents EXCEPT ![p] = new]
    BY IndexParts DEF persistBatch
  <1>2. IsFiniteSet(fresh) /\ fresh \subseteq Entry
    <2>1. IsFiniteSet(ToSet(me.batch)) /\ ToSet(me.batch) \subseteq Entry
      BY <1>1, FiniteMembers
    <2> QED
      BY <2>1, FS_Subset
  <1>3. /\ new \in Seq(Cached)
        /\ \A c \in ToSet(new) :
             \/ \E e \in fresh : c = Index(e, "committed")
             \/ \E f \in db.rows : c = Index(f, "committed")
             \/ c \in ToSet(index) /\ \A e \in ToSet(me.batch) : ~SameEvent(c, e)
    <2>1. /\ new \in Seq(Cached)
          /\ \A c \in ToSet(new) :
               \/ \E e \in ToSet(me.batch) : selectExisting(db.rows, e) = {} /\ c = Index(e, "committed")
               \/ \E f \in db.rows : c = Index(f, "committed")
               \/ c \in ToSet(index) /\ \A e \in ToSet(me.batch) : ~SameEvent(c, e)
      BY <1>1, Remembered
    <2> HIDE DEF new, index
    <2> QED
      BY <2>1
  <1> HIDE DEF fresh, new, index
  <1>4. x \in Seq(fresh) /\ ToSet(x) = fresh
    BY <1>2, ToSequence
  <1> HIDE DEF x
  <1>5. x \in Seq(Entry)
    BY <1>2, <1>4
  <1>6. LogGrows /\ \A k \in DOMAIN x : Len(log) + k \in DOMAIN log' /\ log'[Len(log) + k] = x[k]
    BY <1>1, <1>5, Extended DEF LogGrows
  <1>7. \A e \in fresh : InLog(e, log')
    BY <1>4, <1>6 DEF ToSet, InLog
  <1>8. \A e : InLog(e, log') => KnownAs(Index(e, "committed"), log')
    BY DEF InLog, KnownAs, Index, SameEvent
  <1>9. /\ \A e : InLog(e, log) => InLog(e, log')
        /\ \A c, j : Founded(c, j, log) => Founded(c, j, log')
        /\ \A t : Vouched(t, log) => Vouched(t, log')
    BY <1>6, Grown DEF LogGrows
  <1>10. m.queue = me.queue /\ m.persisted = TRUE /\ m.status = me.status
    BY <1>1 DEF Journal
  <1> HIDE DEF m
  <1>11. ASSUME NEW c \in ToSet(new), me.status # "closed" PROVE Founded(c, m, log')
    <2>1. ASSUME NEW e, InLog(e, log'), c = Index(e, "committed") PROVE Founded(c, m, log')
      <3>1. c.status = "committed" /\ KnownAs(c, log')
        BY <1>8, <2>1 DEF Index
      <3> QED
        BY <3>1 DEF Founded
    <2>2. CASE \E e \in fresh : c = Index(e, "committed")
      BY <1>7, <2>1, <2>2
    <2>3. CASE \E f \in db.rows : c = Index(f, "committed")
      BY <1>1, <1>9, <2>1, <2>3
    <2>4. CASE c \in ToSet(index) /\ \A e \in ToSet(me.batch) : ~SameEvent(c, e)
      <3>1. Founded(c, me, log')
        BY <1>1, <1>9, <1>11, <2>4 DEF Truthful
      <3>2. \A f \in Unsettled(me) : f \in ToSet(me.batch) \/ f \in Unsettled(m)
        BY <1>10 DEF Unsettled
      <3> QED
        BY <2>4, <3>1, <3>2 DEF Founded, SameEvent
    <2> QED
      BY <1>3, <2>2, <2>3, <2>4
  <1>12. m.status # "closed" => Truthful(new, m, log')
    BY <1>10, <1>11 DEF Truthful
  <1> QED
    BY <1>1, <1>3, <1>6, <1>9, <1>12, IndexStep

(* A transaction begins on committed rows, or ends without effect.         *)
LEMMA IndexTxn ==
  ASSUME IInv, IndexInv, NEW p \in Procs, UNCHANGED <<sourceEvents, log, proc>>,
         NEW t, t = Began \/ t = NoTxn, txn' = [txn EXCEPT ![p] = t]
  PROVE  IndexInv'
  <1>1. /\ proc' = [proc EXCEPT ![p] = proc[p]] /\ SameQueue(proc[p], proc[p])
        /\ \A e \in db.rows : InLog(e, log)
    BY IndexParts DEF SameQueue
  <1>2. Began.snap = db /\ Began.parked = <<>> /\ Began.st = "open" /\ DOMAIN <<>> = {}
    BY DEF Began
  <1>3. Vouched(Began, log)
    BY <1>1, <1>2 DEF Vouched
  <1>4. Vouched(NoTxn, log)
    BY NoTxnIsTxn DEF Vouched
  <1> QED
    BY <1>1, <1>3, <1>4, IndexLocal

(* What is parked is a row of the transaction.                             *)
LEMMA ParkVouched ==
  ASSUME IInv, IndexInv, NEW p \in Procs, txn[p].st = "open",
         NEW f \in Entry, NEW inserted \in BOOLEAN, NEW owner \in BOOLEAN, Park(p, f, inserted, owner)
  PROVE  \E t : txn' = [txn EXCEPT ![p] = t] /\ Vouched(t, log)
  <1> DEFINE me == txn[p]
             a == [entry |-> f, inserted |-> inserted, owner |-> owner]
             s == Append(me.parked, a)
             rows == me.rows \cup {f}
             n == IF inserted THEN Append(me.new, f) ELSE me.new
             t == [me EXCEPT !.parked = s, !.rows = rows, !.new = n]
  <1>1. me \in Txn /\ Vouched(me, log) /\ me.parked \in Seq(Settlement)
    BY IndexParts DEF Txn
  <1>2. txn' = [txn EXCEPT ![p] = t]
    BY DEF Park
  <1>3. a \in Settlement /\ a.entry = f
    BY DEF Settlement
  <1> HIDE DEF a
  <1>4. \A k \in DOMAIN s : s[k] = a \/ (k \in DOMAIN me.parked /\ s[k] = me.parked[k])
    BY <1>1, <1>3
  <1> HIDE DEF s, n
  <1>5. t.st = "open" /\ t.snap = me.snap /\ t.parked = s /\ t.rows = me.rows \cup {f}
    BY <1>1 DEF Txn
  <1> HIDE DEF t
  <1>6. Vouched(t, log)
    BY <1>1, <1>3, <1>4, <1>5 DEF Vouched
  <1> QED
    BY <1>2, <1>6

(* An append is indexed when it is settled, not before.                    *)
LEMMA IndexEmitDurable ==
  ASSUME IInv, IndexInv, NEW p \in Procs, NEW s \in Sources, NEW given \in SourceSeqs, NEW type \in Types,
         emitDurable(p, s, given, type, Fenced)
  PROVE  IndexInv'
  <1>1. PICK e \in Entry : insertOne(p, e, Fenced) /\ proc' = [proc EXCEPT ![p] = raiseFloors(proc[p], e)]
    BY EmittedEntry
  <1>2. /\ txn[p].st = "open" /\ UNCHANGED <<sourceEvents, log>> /\ proc[p] \in Journal /\ txn[p] \in Txn
        /\ Fenced \in BOOLEAN
    BY IndexParts, SettingFacts DEF emitDurable
  <1>3. SameQueue(raiseFloors(proc[p], e), proc[p])
    BY <1>2, RaisedFloors
  <1>4. \E t : txn' = [txn EXCEPT ![p] = t] /\ Vouched(t, log)
    <2>1. CASE Abort(p)
      BY <2>1, NoTxnIsTxn DEF Abort, Vouched
    <2>2. CASE \E f \in selectExisting(txn[p].rows, e) : Park(p, f, FALSE, Fenced)
      <3>1. PICK f \in selectExisting(txn[p].rows, e) : Park(p, f, FALSE, Fenced)
        BY <2>2
      <3>2. f \in Entry
        BY <1>2 DEF selectExisting, Txn
      <3> QED
        BY <1>2, <3>1, <3>2, ParkVouched
    <2>3. CASE Park(p, e, TRUE, Fenced)
      BY <1>2, <2>3, ParkVouched
    <2> QED
      BY <1>1, <2>1, <2>2, <2>3 DEF insertOne
  <1> QED
    BY <1>1, <1>2, <1>3, <1>4, IndexLocal

(* What a transaction committed is in the log.                             *)
LEMMA IndexCommit == ASSUME IInv, IndexInv, NEW p \in Procs, commit(p) PROVE IndexInv'
  <1> DEFINE x == txn[p].new
             t == [NoTxn EXCEPT !.st = "settling", !.parked = txn[p].parked]
  <1>1. /\ txn[p] \in Txn /\ txn[p].st = "open" /\ TxnInv(p) /\ Vouched(txn[p], log)
        /\ log \in Seq(Entry) /\ x \in Seq(Entry) /\ log' = log \o x
        /\ txn' = [txn EXCEPT ![p] = t] /\ proc' = [proc EXCEPT ![p] = proc[p]]
        /\ sourceEvents[p] \in Seq(Cached)
        /\ sourceEvents' = [sourceEvents EXCEPT ![p] = sourceEvents[p]]
        /\ proc[p].status # "closed" => Truthful(sourceEvents[p], proc[p], log)
    BY IndexParts DEF commit, IInv, Txn
  <1>2. LogGrows /\ \A k \in DOMAIN x : Len(log) + k \in DOMAIN log' /\ log'[Len(log) + k] = x[k]
    <2>1. log \in Seq(Entry) /\ x \in Seq(Entry) /\ log' = log \o x
      BY <1>1
    <2> HIDE DEF x, t
    <2> DEFINE whole == log \o x
    <2>2. /\ \A k \in DOMAIN log : k \in DOMAIN whole /\ whole[k] = log[k]
          /\ \A k \in DOMAIN x : Len(log) + k \in DOMAIN whole /\ whole[Len(log) + k] = x[k]
      BY <2>1, Extended
    <2>3. log' = whole
      BY <2>1
    <2> HIDE DEF whole
    <2> QED
      BY <2>2, <2>3 DEF LogGrows
  <1>3. /\ \A e : InLog(e, log) => InLog(e, log')
        /\ \A i, m : Truthful(i, m, log) => Truthful(i, m, log')
    BY <1>2, Grown DEF LogGrows
  <1>4. \A e \in ToSet(x) : InLog(e, log')
    BY <1>2 DEF ToSet, InLog
  <1>5. \A e \in txn[p].rows : InLog(e, log')
    BY <1>1, <1>3, <1>4 DEF TxnInv, Vouched
  <1>6. t.st = "settling" /\ t.parked = txn[p].parked
    BY NoTxnIsTxn DEF Txn
  <1> HIDE DEF t
  <1>7. Vouched(t, log')
    BY <1>1, <1>5, <1>6 DEF Vouched
  <1> QED
    BY <1>1, <1>2, <1>3, <1>7, IndexStep

(* A settlement is indexed as committed, which it is.                      *)
LEMMA IndexSettleCommit == ASSUME IInv, IndexInv, NEW p \in Procs, settleCommit(p) PROVE IndexInv'
  <1> DEFINE parked == txn[p].parked
             e == Head(parked).entry
             rest == Tail(parked)
             t == IF rest = <<>> THEN NoTxn ELSE [txn[p] EXCEPT !.parked = rest]
             index == sourceEvents[p]
             new == retain(index, e, "committed")
             m == raiseFloors(proc[p], e)
  <1>1. /\ proc[p] \in Journal /\ txn[p] \in Txn /\ txn[p].st = "settling" /\ TxnInv(p)
        /\ log' = log /\ LogGrows /\ Vouched(txn[p], log) /\ index \in Seq(Cached)
        /\ proc[p].status # "closed" => Truthful(index, proc[p], log)
        /\ sourceEvents' = [sourceEvents EXCEPT ![p] = new]
        /\ proc' = [proc EXCEPT ![p] = m] /\ txn' = [txn EXCEPT ![p] = t]
    BY IndexParts DEF settleCommit, IInv
  <1>2. parked \in Seq(Settlement) /\ parked # <<>>
    BY <1>1 DEF Txn, TxnInv
  <1>3. /\ Head(parked) \in Settlement /\ Head(parked) = parked[1] /\ 1 \in DOMAIN parked
        /\ rest \in Seq(Settlement) /\ \A k \in DOMAIN rest : k + 1 \in DOMAIN parked /\ rest[k] = parked[k + 1]
    BY <1>2
  <1>4. e \in Entry /\ InLog(e, log)
    BY <1>1, <1>3 DEF Settlement, Vouched
  <1>5. \A k \in DOMAIN rest : InLog(rest[k].entry, log)
    BY <1>1, <1>3 DEF Vouched
  <1> HIDE DEF e, rest, parked
  <1>6. Vouched(t, log)
    <2>1. CASE rest = <<>>
      BY <2>1, NoTxnIsTxn DEF Vouched
    <2>2. CASE rest # <<>>
      <3>1. t.st = "settling" /\ t.parked = rest
        BY <1>1, <2>2 DEF Txn
      <3> HIDE DEF t
      <3> QED
        BY <1>5, <3>1 DEF Vouched
    <2> QED
      BY <2>1, <2>2
  <1>7. /\ new \in Seq(Cached)
        /\ \A c \in ToSet(new) : c = Index(e, "committed") \/ c \in ToSet(index)
    BY <1>1, <1>4, Retained
  <1>8. SameQueue(m, proc[p])
    BY <1>1, <1>4, RaisedFloors
  <1> HIDE DEF t, new, m, index
  <1>9. KnownAs(Index(e, "committed"), log) /\ Index(e, "committed").status = "committed"
    BY <1>4 DEF InLog, KnownAs, Index, SameEvent
  <1>10. m.status # "closed" => Truthful(new, proc[p], log')
    BY <1>1, <1>7, <1>8, <1>9 DEF Truthful, Founded, SameQueue
  <1>11. m.status # "closed" => Truthful(new, m, log')
    BY <1>8, <1>10, TruthfulSame DEF SameQueue
  <1> QED
    BY <1>1, <1>6, <1>7, <1>11, IndexStep

(* A call of flush leaves the queue as it is.                              *)
LEMMA CalledQueue ==
  ASSUME NEW p \in Procs, NEW c, NEW me \in Journal, flushInternal(p, c, me)
  PROVE  \E m : proc' = [proc EXCEPT ![p] = m] /\ SameQueue(m, me)
  <1> DEFINE told == [me EXCEPT !.flushedLossEpoch = me.lossEpoch]
  <1>1. SameQueue(told, me) /\ SameQueue(me, me)
    BY DEF SameQueue, Journal
  <1>2. proc' = [proc EXCEPT ![p] = told] \/ proc' = [proc EXCEPT ![p] = me]
    BY DEF flushInternal
  <1> QED
    BY <1>1, <1>2

(* So the index is about what it was about.                                *)
LEMMA IndexFlush == ASSUME IInv, IndexInv, NEW p \in Procs, Flush(p) PROVE IndexInv'
  <1>1. /\ proc[p] \in Journal /\ UNCHANGED <<sourceEvents, log>> /\ txn' = [txn EXCEPT ![p] = txn[p]]
        /\ Vouched(txn[p], log) /\ flushInternal(p, "user", proc[p])
    BY IndexParts DEF Flush
  <1> QED
    BY <1>1, CalledQueue, IndexLocal

(* A journal closes: until its queue is shut down, the index holds.        *)
LEMMA IndexClose == ASSUME IInv, IndexInv, NEW p \in Procs, close(p) PROVE IndexInv'
  <1> DEFINE me == [proc[p] EXCEPT !.status = "closing"]
  <1>1. /\ proc[p] \in Journal /\ proc[p].status = "open" /\ log' = log /\ LogGrows
        /\ txn' = [txn EXCEPT ![p] = txn[p]] /\ Vouched(txn[p], log)
        /\ sourceEvents[p] \in Seq(Cached) /\ Truthful(sourceEvents[p], proc[p], log)
        /\ sourceEvents' = [sourceEvents EXCEPT ![p] = sourceEvents[p]]
        /\ flushInternal(p, "finalizer", me)
    BY IndexParts DEF close
  <1>2. me \in Journal /\ me.queue = proc[p].queue /\ me.batch = proc[p].batch /\ me.persisted = proc[p].persisted
    BY <1>1 DEF Journal
  <1> HIDE DEF me
  <1>3. PICK m : proc' = [proc EXCEPT ![p] = m] /\ SameQueue(m, me)
    BY <1>1, <1>2, CalledQueue
  <1>4. Truthful(sourceEvents[p], m, log')
    BY <1>1, <1>2, <1>3, TruthfulSame DEF SameQueue
  <1> QED
    BY <1>1, <1>3, <1>4, IndexStep

(* Once the queue is shut down, nothing is said of the index.              *)
LEMMA IndexClosed == ASSUME IInv, IndexInv, NEW p \in Procs, closed(p) PROVE IndexInv'
  <1> DEFINE m == [proc[p] EXCEPT !.status = "closed", !.queue = <<>>, !.batch = <<>>, !.persisted = FALSE]
  <1>1. /\ proc[p] \in Journal /\ log' = log /\ LogGrows
        /\ txn' = [txn EXCEPT ![p] = txn[p]] /\ Vouched(txn[p], log)
        /\ sourceEvents[p] \in Seq(Cached)
        /\ sourceEvents' = [sourceEvents EXCEPT ![p] = sourceEvents[p]]
        /\ proc' = [proc EXCEPT ![p] = m]
    BY IndexParts DEF closed
  <1>2. m.status = "closed"
    BY <1>1 DEF Journal
  <1> HIDE DEF m
  <1> QED
    BY <1>1, <1>2, IndexStep

(* A crash forgets the index, and a journal that opens reads it anew.      *)
LEMMA IndexCrash == ASSUME IInv, IndexInv, NEW p \in Procs, crash(p) PROVE IndexInv'
  <1> DEFINE m == [Opened EXCEPT !.status = "down"]
  <1>1. /\ log' = log /\ LogGrows /\ txn' = [txn EXCEPT ![p] = NoTxn]
        /\ sourceEvents' = [sourceEvents EXCEPT ![p] = <<>>] /\ proc' = [proc EXCEPT ![p] = m]
    BY IndexParts DEF crash, Abort
  <1>2. <<>> \in Seq(Cached) /\ ToSet(<<>>) = {}
    BY DEF ToSet
  <1> HIDE DEF m
  <1>3. Truthful(<<>>, m, log') /\ Vouched(NoTxn, log')
    BY <1>2, NoTxnIsTxn DEF Truthful, Vouched
  <1> QED
    BY <1>1, <1>2, <1>3, IndexStep

(* A journal that opens knows what is committed, and nothing else.         *)
LEMMA IndexOpen == ASSUME IInv, IndexInv, NEW p \in Procs, open(p) PROVE IndexInv'
  <1> DEFINE new == Newest(db.rows)
  <1>1. /\ log' = log /\ LogGrows /\ txn' = [txn EXCEPT ![p] = txn[p]] /\ Vouched(txn[p], log)
        /\ sourceEvents' = [sourceEvents EXCEPT ![p] = new] /\ proc' = [proc EXCEPT ![p] = Opened]
        /\ db.rows \in SUBSET Entry /\ \A e \in db.rows : InLog(e, log)
    BY IndexParts DEF open
  <1>2. new \in Seq(Cached) /\ \A c \in ToSet(new) : \E e \in db.rows : c = Index(e, "committed")
    BY <1>1, Seeded
  <1> HIDE DEF new
  <1>3. \A e : InLog(e, log) => KnownAs(Index(e, "committed"), log) /\ Index(e, "committed").status = "committed"
    BY DEF InLog, KnownAs, Index, SameEvent
  <1>4. Truthful(new, Opened, log')
    BY <1>1, <1>2, <1>3 DEF Truthful, Founded
  <1> QED
    BY <1>1, <1>2, <1>4, IndexStep

(* Every journal starts with what is committed, which is nothing.          *)
LEMMA InitIndexInv == Init => IndexInv
  <1> SUFFICES ASSUME Init PROVE IndexInv
    OBVIOUS
  <1>1. <<>> \in Seq(Cached) /\ ToSet(<<>>) = {}
    BY DEF ToSet
  <1>2. /\ sourceEvents = [p \in Procs |-> <<>>] /\ txn = [p \in Procs |-> NoTxn]
    BY DEF Init
  <1>3. \A me : Truthful(<<>>, me, log) /\ Vouched(NoTxn, log)
    BY <1>1, NoTxnIsTxn DEF Truthful, Vouched
  <1> QED
    BY <1>1, <1>2, <1>3 DEF IndexInv

(* Every step keeps the indexes truthful.                                  *)
LEMMA NextIndexInv == IInv /\ IndexInv /\ [Next]_vars => IndexInv'
  <1> SUFFICES ASSUME IInv, IndexInv, [Next]_vars PROVE IndexInv'
    OBVIOUS
  <1>0. setting.lossy \subseteq Procs /\ setting.durable \subseteq Procs
    BY SettingFacts DEF IInv
  <1>1. CASE \E p \in setting.lossy, s \in Sources, given \in SourceSeqs : emitLossy(p, s, given)
    BY <1>0, <1>1, IndexEmitLossy
  <1>2. CASE \E p \in setting.durable, s \in Sources, given \in SourceSeqs, type \in Types :
               emitDurable(p, s, given, type, Fenced)
    BY <1>0, <1>2, IndexEmitDurable
  <1>3. CASE \E p \in Procs : Writer(p) \/ Flush(p)
    BY <1>3, IndexTakeBatch, IndexPersistBatch, IndexSettle, IndexFailSink, IndexFlush DEF Writer
  <1>4. CASE \E p \in Procs : transact(p) \/ replay(p) \/ rollback(p)
    BY <1>4, IndexTxn DEF transact, replay, rollback, Abort
  <1>5. CASE \E p \in Procs : commit(p) \/ settleCommit(p)
    BY <1>5, IndexCommit, IndexSettleCommit
  <1>6. CASE \E p \in Procs : close(p) \/ closed(p) \/ crash(p) \/ open(p)
    BY <1>6, IndexClose, IndexClosed, IndexCrash, IndexOpen
  <1>7. CASE \/ \E p \in Procs : FlushReturns(p) \/ steal(p) \/ \E seq \in Seqs : checkpoint(p, seq) \/ compact(p, seq)
             \/ \E r \in Readers : stream(r) \/ readRows(r) \/ readFloor(r)
             \/ UNCHANGED vars
    BY <1>7, IndexQuiet DEF FlushReturns, steal, checkpoint, compact, stream, readRows, readFloor, vars
  <1> QED
    BY <1>0, <1>1, <1>2, <1>3, <1>4, <1>5, <1>6, <1>7 DEF Next

(* The index of a journal never calls an event committed that is not, nor  *)
(* pending when nothing of it is outstanding: what rolled back, was lost   *)
(* or was evicted can be emitted again.                                    *)
THEOREM IndexTruthfulHolds == Spec => []IndexTruthful
  <1>1. IInv /\ IndexInv => IndexTruthful
    <2> SUFFICES ASSUME IndexInv, NEW p \in Procs, proc[p].status # "closed", NEW k \in DOMAIN sourceEvents[p]
                 PROVE  LET c == sourceEvents[p][k]
                        IN IF c.status = "committed"
                           THEN \E j \in DOMAIN log : SameEvent(log[j], c) /\ log[j].seq = c.seq
                           ELSE \E e \in Outstanding(proc[p]) : SameEvent(e, c)
      BY DEF IndexTruthful
    <2> DEFINE c == sourceEvents[p][k]
    <2>1. Founded(c, proc[p], log)
      BY DEF IndexInv, Truthful, ToSet
    <2>2. Unsettled(proc[p]) \subseteq Outstanding(proc[p])
      BY OutstandingIs DEF Unsettled
    <2> HIDE DEF c
    <2>3. IF c.status = "committed"
          THEN \E j \in DOMAIN log : SameEvent(log[j], c) /\ log[j].seq = c.seq
          ELSE \E e \in Outstanding(proc[p]) : SameEvent(e, c)
      BY <2>1, <2>2 DEF Founded, KnownAs
    <2> QED
      BY <2>3 DEF c
  <1>2. Spec => []IndexInv
    BY InitIndexInv, NextIndexInv, Invariance, PTL DEF Spec
  <1> QED
    BY <1>1, <1>2, Invariance, PTL

=============================================================================
