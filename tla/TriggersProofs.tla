--------------------------- MODULE TriggersProofs ---------------------------
(***************************************************************************)
(* What the schedulers of a trigger keep of its overlap policy, for every  *)
(* number of schedulers and occurrences, every lease and every setting.    *)
(***************************************************************************)
EXTENDS Triggers, FiniteSetTheorems, WellFoundedInduction, NaturalsInduction, TLAPS

-----------------------------------------------------------------------------
(* The inductive invariant, in parts. *)

Superseding == {"interrupt", "cancel", "superseded"}
Unfired == {"skip", "buffer", "rebuffer"}
Done(o) == run[o] \in {"ended", "cancelled"}

(* What a poll holds at each of its awaits; who is not composed does nothing. *)
Places(p) ==
    /\ pc[p] \in Unfired \cup Superseding \cup {"resume"} => occ[p] \in Occs
    /\ pc[p] = "each" => due[p] # {}
    /\ pc[p] \in Superseding \cup {"clear", "clearStored"} => prior[p] # None
    /\ p \notin setting.procs => pc[p] = "idle" /\ \A o \in Occs : ~Live(p, o)

(* Only the overlap policy of the trigger is ever applied. *)
Ruled ==
    /\ \A p \in Procs :
        /\ pc[p] = "skip" => Overlap = "skip"
        /\ pc[p] \in {"resume", "buffer", "rebuffer"} => Overlap = "buffer-one"
        /\ pc[p] \in Superseding => Overlap = "supersede"
    /\ \A o \in Occs :
        /\ fires[o] = "skipped" => Overlap = "skip"
        /\ fires[o] = "buffered" => Overlap = "buffer-one"
        /\ fires[o] = "superseded" => Overlap = "supersede"
    /\ pending # None => Overlap = "buffer-one" /\ fires[pending] # "unclaimed"

(* Nothing is known of an occurrence without a fire, one that was skipped is  *)
(* nobody's, and a fiber past its start has a run.                            *)
Fired(p) ==
    /\ \A o \in Occs :
        /\ Live(p, o) => fires[o] \notin {"unclaimed", "skipped"}
        /\ fiber[p][o] \in {"started", "watching", "blind", "unrecorded"} => run[o] # "none"
        /\ fiber[p][o] = "completing" => Done(o)
        /\ fiber[p][o] \in {"failing", "blind", "unrecorded"} => faults # 0
    /\ occ[p] # None => fires[occ[p]] # "unclaimed"
    /\ pc[p] = "skip" => fires[occ[p]] = "skipped"
Unrun == \A o \in Occs : fires[o] \in {"unclaimed", "skipped"} => run[o] = "none"

(* Who has a buffered occurrence. *)
Kept(o) ==
    \/ pending = o \/ run[o] # "none"
    \/ \E p \in Procs : (pc[p] = "resume" /\ occ[p] = o) \/ Live(p, o)
    \/ \E q \in Occs : q > o /\ fires[q] # "unclaimed"
Buffers == MaxFaults = 0 =>
    /\ \A o \in Occs : fires[o] = "buffered" => Kept(o)
    /\ \A p \in Procs : pc[p] \in {"buffer", "rebuffer"} =>
          /\ fires[occ[p]] = "buffered" \/ run[occ[p]] # "none"
          /\ Kept(occ[p])

(* A lone scheduler that neither fails nor supersedes has one fiber, whose    *)
(* entry and whose row are its own.                                           *)
Starting == {"starting", "started", "failing", "unrecorded"}
Watched == {"watching", "completing", "blind"}
Entered(p, o) ==
    local[p] = [occ |-> o, fiber |-> TRUE,
                id |-> IF fiber[p][o] \in {"starting", "failing"} THEN Reservation(o) ELSE Run(o)]
InTime(o) ==
    /\ since # None /\ began[o] # None
    /\ since >= began[o] /\ now >= began[o] /\ now < began[o] + Lease

Sole(p) ==
    /\ \A o \in Occs : Live(p, o) =>
        /\ Entered(p, o)
        /\ fiber[p][o] \in Starting => active = Reservation(o) /\ InTime(o)
        /\ fiber[p][o] \in Watched => active = Run(o)
        /\ pc[p] \notin {"stored", "pending", "resume"}
        /\ pc[p] \in Unfired => occ[p] # o
    /\ (\A o \in Occs : ~Live(p, o)) => active = None /\ local[p] = None
    /\ \A o \in Occs : run[o] = "active" => fiber[p][o] \in {"started", "watching"}
    /\ pc[p] \notin {"clear", "clearStored", "rebuffer"}
Solo(p) == MaxFaults = 0 /\ Overlap # "supersede" => Sole(p)

(* What an entry says of an occurrence beside its run: nothing, that it is    *)
(* the run's, or one that is over.                                            *)
Fine(o, k) == o \in {None, k} \/ Done(o)
NamesRun(id, o) == \A k \in Occs : id = Run(k) => Fine(o, k)

(* A lone scheduler that supersedes. *)
Rows(p) ==
    /\ active # None => NamesRun(active, last)
    /\ local[p] # None => NamesRun(local[p].id, local[p].occ)
    /\ prior[p] # None => NamesRun(prior[p].id, prior[p].occ)
    /\ active # None /\ active.kind = "run" /\ pc[p] \notin Superseding \cup {"idle"} =>
          NamesRun(active, known[p]) \/ local[p] = [occ |-> active.occ, fiber |-> TRUE, id |-> active]
Launches(p) ==
    /\ local[p] # None /\ local[p].fiber => local[p].occ # None /\ Live(p, local[p].occ)
    /\ \A o \in Occs : fiber[p][o] \in Starting =>
          /\ Entered(p, o) /\ InTime(o)
          /\ active # None /\ active.kind = "reservation"
    /\ pc[p] = "clear" => local[p] \in {None, prior[p]} /\ ~prior[p].fiber
    /\ pc[p] \in {"stored", "clearStored", "pending"} => local[p] = None
Takes(p) ==
    /\ pc[p] \in Superseding /\ prior[p].id.kind = "run" =>
          /\ active = Reservation(occ[p]) /\ InTime(occ[p])
          /\ \A o \in Occs : fiber[p][o] \notin Starting
    /\ pc[p] = "superseded" => prior[p].id.kind = "run" /\ Done(prior[p].id.occ)
Watches(p) == faults = 0 \/ (\E o \in Occs : fiber[p][o] = "blind") =>
    \A o \in Occs : fiber[p][o] \in Watched =>
        /\ Entered(p, o)
        /\ active = Run(o) \/ (pc[p] = "interrupt" /\ prior[p] = local[p])
Settled == \A o \in Occs : fires[o] = "superseded" => Done(o)
Tidy(p) == Rows(p) /\ Launches(p) /\ Takes(p) /\ Watches(p) /\ Settled
Supersedes(p) == MaxFaults <= 1 /\ Overlap = "supersede" => Tidy(p)

IInv ==
    /\ TypeOK /\ Ruled /\ Unrun /\ Buffers
    /\ \A p \in Procs : Places(p) /\ Fired(p)
    /\ Alone => \A p \in setting.procs : Solo(p) /\ Supersedes(p)

-----------------------------------------------------------------------------
(* Identities, occurrences *)

(* A reservation, a run and None are different things.                     *)
LEMMA Identities ==
  /\ \A o \in Occs : /\ Reservation(o) \in Ids /\ Run(o) \in Ids
                     /\ Reservation(o) # None /\ Run(o) # None
                     /\ Reservation(o).kind = "reservation" /\ Run(o).kind = "run"
                     /\ Reservation(o).occ = o /\ Run(o).occ = o
  /\ \A id \in Ids : /\ id # None /\ id.occ \in Occs
                     /\ id.kind = "run" => id = Run(id.occ)
                     /\ id.kind # "run" => id = Reservation(id.occ) /\ id.kind = "reservation"
  /\ \A e \in Entry : e # None /\ e.id \in Ids /\ e.occ \in Occs \cup {None} /\ e.fiber \in BOOLEAN
  <1>1. \A o \in Occs : Reservation(o) \in Ids /\ Run(o) \in Ids
    BY DEF Ids
  <1>2. None \notin Ids /\ None \notin Entry
    BY TriggersAssumption
  <1>3. \A o \in Occs : /\ Reservation(o).kind = "reservation" /\ Run(o).kind = "run"
                        /\ Reservation(o).occ = o /\ Run(o).occ = o
    BY DEF Reservation, Run
  <1>4. ASSUME NEW id \in Ids
        PROVE  /\ id.occ \in Occs
               /\ id.kind = "run" => id = Run(id.occ)
               /\ id.kind # "run" => id = Reservation(id.occ) /\ id.kind = "reservation"
    <2>1. PICK o \in Occs : id = Reservation(o) \/ id = Run(o)
      BY DEF Ids
    <2> QED
      BY <1>3, <2>1
  <1>5. \A e \in Entry : e.id \in Ids /\ e.occ \in Occs \cup {None} /\ e.fiber \in BOOLEAN
    BY DEF Entry
  <1> QED
    BY <1>1, <1>2, <1>3, <1>4, <1>5

(* Occurrences are numbers, and None is none of them.                      *)
LEMMA Occurrences == Occs \subseteq Nat /\ None \notin Occs /\ 1 \in Occs
  BY TriggersAssumption DEF Occs

(* The first of some occurrences is one of them.                           *)
LEMMA First ==
  ASSUME NEW S \in SUBSET Occs, S # {}
  PROVE  Min(S) \in S
  <1>1. S \subseteq Nat
    BY Occurrences
  <1>2. PICK x \in S : \A y \in S : ~ (<<y, x>> \in OpToRel(<, Nat))
    BY <1>1, NatLessThanWellFounded, WFMin
  <1>3. ASSUME NEW y \in S PROVE x <= y
    <2>1. x \in Nat /\ y \in Nat
      BY <1>1
    <2>2. y < x => <<y, x>> \in OpToRel(<, Nat)
      BY <2>1 DEF OpToRel
    <2>3. ~(y < x)
      BY <1>2, <2>2, Zenon
    <2> QED
      BY <2>1, <2>3
  <1> QED
    BY <1>3 DEF Min

-----------------------------------------------------------------------------
(* The outcomes of a claim *)

(* The occurrence that a poll is about to claim.                           *)
Chosen(p) == IF pc[p] = "resume" THEN occ[p] ELSE Min(due[p])
Rest(p) == due[p] \ {Chosen(p)}

(* What every outcome has in common.                                       *)
Claims(p) ==
    /\ pc[p] \in {"resume", "each"}
    /\ due' = Set(due, p, Rest(p))
    /\ UNCHANGED <<setting, now, run, at, known, observed, faults>>

(* Another claim of the occurrence was first.                              *)
ClaimLost(p) ==
    /\ Claims(p) /\ ~Claimable(Chosen(p), pc[p] = "resume")
    /\ Goto(p, After(p, Rest(p)))
    /\ occ' = Set(occ, p, None)
    /\ UNCHANGED <<row, local, prior, fiber, began>>

(* The claim reserves the row.                                             *)
Reserves(p, o) ==
    /\ Claims(p)
    /\ fires' = [fires EXCEPT ![o] = IF @ = "unclaimed" THEN "claimed" ELSE @]
    /\ active' = Reservation(o) /\ since' = now
    /\ UNCHANGED <<last, pending>>
    /\ began' = [began EXCEPT ![o] = now]

(* Nothing is active, and the occurrence is launched.                      *)
ClaimFires(p, o) ==
    /\ Holder = None /\ Claimable(o, pc[p] = "resume")
    /\ Reserves(p, o)
    /\ occ' = Set(occ, p, None)
    /\ Launch(p, o) /\ Goto(p, After(p, Rest(p))) /\ UNCHANGED prior

(* The entry that a poll supersedes.                                       *)
Victim(p) ==
    IF local[p] # None /\ local[p].id = active THEN local[p]
    ELSE [occ |-> known[p], id |-> active, fiber |-> FALSE]
ClaimSupersedes(p, o) ==
    /\ active # None /\ ~Expired /\ Overlap = "supersede" /\ Claimable(o, pc[p] = "resume")
    /\ Reserves(p, o)
    /\ occ' = Set(occ, p, o)
    /\ Goto(p, "interrupt") /\ prior' = Set(prior, p, Victim(p))
    /\ UNCHANGED <<local, fiber>>

(* The occurrence is skipped or buffered.                                  *)
ClaimYields(p, o) ==
    /\ active # None /\ ~Expired /\ Claimable(o, pc[p] = "resume")
    /\ Claims(p)
    /\ \/ /\ Overlap = "skip"
          /\ fires' = [fires EXCEPT ![o] = "skipped"] /\ pending' = pending
          /\ Goto(p, IF pc[p] = "resume" THEN "rebuffer" ELSE "skip")
       \/ /\ Overlap = "buffer-one"
          /\ fires' = [fires EXCEPT ![o] = "buffered"]
          /\ pending' = (IF pending = None \/ pending < o THEN o ELSE pending)
          /\ Goto(p, IF pc[p] = "resume" THEN "rebuffer" ELSE "buffer")
    /\ last' = o
    /\ occ' = Set(occ, p, o)
    /\ UNCHANGED <<active, since, local, prior, fiber, began>>

(* A claim loses, fires, supersedes or yields.                             *)
LEMMA ClaimCases ==
  ASSUME TypeOK, NEW p \in Procs, Places(p), Claim(p)
  PROVE  /\ Chosen(p) \in Occs
         /\ \/ ClaimLost(p) \/ ClaimFires(p, Chosen(p))
            \/ ClaimSupersedes(p, Chosen(p)) \/ ClaimYields(p, Chosen(p))
  <1> DEFINE o == Chosen(p)
             resume == pc[p] = "resume"
  <1>1. o \in Occs
    <2>1. CASE resume
      BY <2>1 DEF Places, Chosen
    <2>2. CASE pc[p] = "each"
      <3>1. due[p] \in SUBSET Occs /\ due[p] # {}
        BY <2>2 DEF TypeOK, Places
      <3> QED
        BY <2>2, <3>1, First DEF Chosen
    <2> QED
      BY <2>1, <2>2 DEF Claim
  <1>2. Claims(p)
    BY DEF Claim, Claims, Chosen, Rest
  <1>3. Overlap \in {"skip", "buffer-one", "supersede"}
    BY TriggersAssumption DEF TypeOK, Overlap
  <1>4. CASE ~Claimable(o, resume)
    BY <1>1, <1>2, <1>4 DEF Claim, ClaimLost, Chosen, Rest, Claimable, Resumable
  <1>5. CASE Claimable(o, resume) /\ Holder = None
    BY <1>1, <1>2, <1>5 DEF Decide, Claimable, Resumable, Claim, ClaimFire, ClaimFires, Reserves, Chosen, Rest
  <1>6. CASE Claimable(o, resume) /\ Holder # None /\ Overlap = "supersede"
    <2>1. active # None /\ ~Expired
      BY <1>6 DEF Holder
    <2> QED
      BY <1>1, <1>2, <1>6, <2>1 DEF Decide, Claimable, Resumable, Claim, ClaimFire, ClaimSupersedes, Reserves, Victim, Chosen, Rest
  <1>7. CASE Claimable(o, resume) /\ Holder # None /\ Overlap = "skip"
    <2>1. active # None /\ ~Expired /\ Holder = active
      BY <1>7 DEF Holder
    <2> QED
      BY <1>1, <1>2, <1>7, <2>1 DEF Decide, Claimable, Resumable, Claim, ClaimFire, ClaimYields, Chosen, Rest
  <1>8. CASE Claimable(o, resume) /\ Holder # None /\ Overlap = "buffer-one"
    <2>1. active # None /\ ~Expired /\ Holder = active
      BY <1>8 DEF Holder
    <2> QED
      BY <1>1, <1>2, <1>8, <2>1 DEF Decide, Claimable, Resumable, Claim, ClaimFire, ClaimYields, Chosen, Rest
  <1> QED
    BY <1>1, <1>3, <1>4, <1>5, <1>6, <1>7, <1>8

-----------------------------------------------------------------------------
(* Types *)

(* The types in four parts.                                                *)
RowTyped ==
    /\ fires \in [Occs -> {"unclaimed", "claimed", "skipped", "buffered", "launched",
                           "completed", "failed", "superseded"}]
    /\ active \in Ids \cup {None} /\ since \in Occs \cup {None}
    /\ last \in Occs \cup {None} /\ pending \in Occs \cup {None}
    /\ now \in Occs /\ began \in [Occs -> Occs \cup {None}]
PollTyped ==
    /\ pc \in [Procs -> {"idle", "resolve", "clear", "stored", "clearStored", "pending", "resume",
                         "due", "each", "skip", "buffer", "rebuffer", "interrupt", "cancel", "superseded"}]
    /\ at \in [Procs -> Occs] /\ known \in [Procs -> Occs \cup {None}]
    /\ observed \in [Procs -> Occs \cup {None}] /\ due \in [Procs -> SUBSET Occs]
    /\ occ \in [Procs -> Occs \cup {None}]
EntryTyped == local \in [Procs -> Entry \cup {None}] /\ prior \in [Procs -> Entry \cup {None}]
FiberTyped ==
    /\ run \in [Occs -> {"none", "active", "ended", "cancelled"}]
    /\ fiber \in [Procs -> [Occs -> {"none", "starting", "started", "watching", "completing", "blind", "failing", "unrecorded"}]]
    /\ faults \in 0..MaxFaults /\ setting \in Settings
Shape == RowTyped /\ PollTyped /\ EntryTyped /\ FiberTyped /\ \A p \in Procs : Places(p)

(* They are the types.                                                     *)
LEMMA TypeParts == TypeOK <=> RowTyped /\ PollTyped /\ EntryTyped /\ FiberTyped
  BY DEF TypeOK, RowTyped, PollTyped, EntryTyped, FiberTyped

(* The steps of a poll keep the types, and what the poll holds at them.    *)
LEMMA PollShape ==
  ASSUME Shape, NEW p \in Procs, PollStep(p)
  PROVE  Shape'
  <1> USE DEF Goto, Set, row, memory, MaxFaults, Unfired, Superseding
  <1>0. RowTyped /\ PollTyped /\ EntryTyped /\ FiberTyped /\ \A q \in Procs : Places(q)
    BY DEF Shape
  <1>m. setting.maxFaults \in Nat /\ setting.last \in 1..LastTick
    BY <1>0, TriggersAssumption DEF FiberTyped
  <1>1. CASE Poll(p)
    <2>1. RowTyped'
      BY <1>0, <1>1 DEF Poll, RowTyped
    <2>2. PollTyped'
      BY <1>0, <1>1 DEF Poll, RowTyped, PollTyped
    <2>3. EntryTyped'
      BY <1>0, <1>1 DEF Poll, EntryTyped
    <2>4. FiberTyped'
      BY <1>0, <1>1 DEF Poll, FiberTyped
    <2>5. \A q \in Procs : Places(q)'
      BY <1>0, <1>1 DEF Poll, PollTyped, EntryTyped, FiberTyped, Places, Live
    <2> QED
      BY <2>1, <2>2, <2>3, <2>4, <2>5 DEF Shape
  <1>2. CASE ResolveLocal(p)
    <2>1. RowTyped'
      BY <1>0, <1>2 DEF ResolveLocal, RowTyped
    <2>2. PollTyped'
      BY <1>0, <1>2 DEF ResolveLocal, PollTyped
    <2>3. EntryTyped'
      BY <1>0, <1>2 DEF ResolveLocal, EntryTyped
    <2>4. FiberTyped'
      BY <1>0, <1>2 DEF ResolveLocal, FiberTyped
    <2>5. \A q \in Procs : Places(q)'
      BY <1>0, <1>2 DEF ResolveLocal, PollTyped, EntryTyped, FiberTyped, Places, Live
    <2> QED
      BY <2>1, <2>2, <2>3, <2>4, <2>5 DEF Shape
  <1>3. CASE ClearLocal(p)
    <2>1. RowTyped'
      BY <1>0, <1>3 DEF ClearLocal, ClearActive, RowTyped
    <2>2. PollTyped'
      BY <1>0, <1>3 DEF ClearLocal, PollTyped
    <2>3. EntryTyped'
      BY <1>0, <1>3 DEF ClearLocal, Without, EntryTyped
    <2>4. FiberTyped'
      BY <1>0, <1>3 DEF ClearLocal, FiberTyped
    <2>5. \A q \in Procs : Places(q)'
      BY <1>0, <1>3 DEF ClearLocal, ClearActive, Without, PollTyped, EntryTyped, FiberTyped, Places, Live
    <2> QED
      BY <2>1, <2>2, <2>3, <2>4, <2>5 DEF Shape
  <1>4. CASE ResolveStored(p)
    <2>1. RowTyped'
      BY <1>0, <1>4 DEF ResolveStored, RowTyped
    <2>2. PollTyped'
      BY <1>0, <1>4 DEF ResolveStored, PollTyped
    <2>3. EntryTyped'
      <3>1. Holder # None => active \in Ids /\ [occ |-> known[p], id |-> active, fiber |-> FALSE] \in Entry
        BY <1>0 DEF Holder, Entry, RowTyped, PollTyped
      <3> QED
        BY <1>0, <1>4, <3>1 DEF ResolveStored, EntryTyped
    <2>4. FiberTyped'
      BY <1>0, <1>4 DEF ResolveStored, FiberTyped
    <2>5. \A q \in Procs : Places(q)'
      <3>1. Holder # None => [occ |-> known[p], id |-> active, fiber |-> FALSE] # None
        BY <1>0, Identities DEF Holder, Entry, RowTyped, PollTyped
      <3> QED
        BY <1>0, <1>4, <3>1 DEF ResolveStored, PollTyped, EntryTyped, Places, Live
    <2> QED
      BY <2>1, <2>2, <2>3, <2>4, <2>5 DEF Shape
  <1>5. CASE ClearStored(p)
    <2>1. RowTyped'
      BY <1>0, <1>5 DEF ClearStored, ClearActive, RowTyped
    <2>2. PollTyped'
      BY <1>0, <1>5 DEF ClearStored, PollTyped
    <2>3. EntryTyped'
      BY <1>0, <1>5 DEF ClearStored, EntryTyped
    <2>4. FiberTyped'
      BY <1>0, <1>5 DEF ClearStored, FiberTyped
    <2>5. \A q \in Procs : Places(q)'
      BY <1>0, <1>5 DEF ClearStored, ClearActive, PollTyped, EntryTyped, FiberTyped, Places, Live
    <2> QED
      BY <2>1, <2>2, <2>3, <2>4, <2>5 DEF Shape
  <1>6. CASE TakePending(p)
    <2>1. RowTyped'
      BY <1>0, <1>6 DEF TakePending, RowTyped
    <2>2. PollTyped'
      BY <1>0, <1>6 DEF TakePending, RowTyped, PollTyped
    <2>3. EntryTyped'
      BY <1>0, <1>6 DEF TakePending, EntryTyped
    <2>4. FiberTyped'
      BY <1>0, <1>6 DEF TakePending, FiberTyped
    <2>5. \A q \in Procs : Places(q)'
      BY <1>0, <1>6, Occurrences DEF TakePending, PollTyped, EntryTyped, FiberTyped, Places, Live, RowTyped
    <2> QED
      BY <2>1, <2>2, <2>3, <2>4, <2>5 DEF Shape
  <1>7. CASE RecordUnfired(p)
    <2>1. RowTyped'
      BY <1>0, <1>7 DEF RecordUnfired, RecordResult, RowTyped, Places
    <2>2. PollTyped'
      BY <1>0, <1>7 DEF RecordUnfired, PollTyped
    <2>3. EntryTyped'
      BY <1>0, <1>7 DEF RecordUnfired, EntryTyped
    <2>4. FiberTyped'
      BY <1>0, <1>7 DEF RecordUnfired, FiberTyped
    <2>5. \A q \in Procs : Places(q)'
      BY <1>0, <1>7 DEF RecordUnfired, RecordResult, PollTyped, EntryTyped, FiberTyped, Places, Live
    <2> QED
      BY <2>1, <2>2, <2>3, <2>4, <2>5 DEF Shape
  <1>8. CASE Interrupt(p)
    <2>1. RowTyped'
      BY <1>0, <1>8 DEF Interrupt, RowTyped
    <2>2. PollTyped'
      BY <1>0, <1>8 DEF Interrupt, PollTyped
    <2>3. EntryTyped'
      BY <1>0, <1>8 DEF Interrupt, Without, EntryTyped
    <2>4. FiberTyped'
      <3>1. CASE ~LiveFiber(p, prior[p])
        BY <1>0, <1>8, <3>1 DEF Interrupt, FiberTyped
      <3>2. CASE LiveFiber(p, prior[p])
        <4> DEFINE o == prior[p].occ
        <4>1. o \in Occs
          BY <1>0, <1>8, <3>2, Identities DEF LiveFiber, EntryTyped, Interrupt, Places
        <4>2. PICK reached \in BOOLEAN : run' = [run EXCEPT ![o] = Interrupted(p, o, reached)]
          BY <1>8, <3>2 DEF Interrupt
        <4>3. Interrupted(p, o, reached) \in {"none", "active", "ended", "cancelled"}
          BY <1>0, <4>1 DEF Interrupted, FiberTyped
        <4>4. fiber' = [fiber EXCEPT ![p][o] = "none"] /\ UNCHANGED <<faults, setting>>
          BY <1>8, <3>2 DEF Interrupt
        <4> HIDE DEF o
        <4> QED
          BY <1>0, <4>1, <4>2, <4>3, <4>4 DEF FiberTyped
      <3> QED
        BY <3>1, <3>2
    <2>5. \A q \in Procs : Places(q)'
      BY <1>0, <1>8 DEF Interrupt, Live, LiveFiber, Without, Interrupted, PollTyped, EntryTyped, FiberTyped, Places, Live
    <2> QED
      BY <2>1, <2>2, <2>3, <2>4, <2>5 DEF Shape
  <1>9. CASE Cancel(p)
    <2>1. RowTyped'
      BY <1>0, <1>9 DEF Cancel, RowTyped
    <2>2. PollTyped'
      BY <1>0, <1>9 DEF Cancel, PollTyped
    <2>3. EntryTyped'
      BY <1>0, <1>9 DEF Cancel, EntryTyped
    <2>4. FiberTyped'
      <3>1. prior[p].id.occ \in Occs
        BY <1>0, <1>9, Identities DEF Cancel, EntryTyped, Places
      <3> QED
        BY <1>0, <1>9, <3>1 DEF Cancel, FiberTyped
    <2>5. \A q \in Procs : Places(q)'
      BY <1>0, <1>9 DEF Cancel, PollTyped, EntryTyped, FiberTyped, Places, Live
    <2> QED
      BY <2>1, <2>2, <2>3, <2>4, <2>5 DEF Shape
  <1>10. CASE Superseded(p)
    <2>1. RowTyped'
      <3>1. prior[p].occ \in Occs \cup {None}
        BY <1>0, <1>10, Identities DEF Superseded, EntryTyped, Places
      <3> QED
        BY <1>0, <1>10, <3>1 DEF Superseded, RecordResult, RowTyped
    <2>2. PollTyped'
      BY <1>0, <1>10 DEF Superseded, PollTyped
    <2>3. EntryTyped'
      BY <1>0, <1>10, Identities DEF Superseded, Launch, EntryTyped, Entry, Places
    <2>4. FiberTyped'
      BY <1>0, <1>10 DEF Superseded, Launch, FiberTyped
    <2>5. \A q \in Procs : Places(q)'
      BY <1>0, <1>10 DEF Superseded, RecordResult, Launch, PollTyped, EntryTyped, FiberTyped, Places, Live
    <2> QED
      BY <2>1, <2>2, <2>3, <2>4, <2>5 DEF Shape
  <1>11. CASE Due(p)
    <2> DEFINE owed == IF observed[p] = None
                THEN IF known[p] = None THEN {at[p]} ELSE Missed(known[p], at[p])
                ELSE IF at[p] <= observed[p] THEN {} ELSE Missed(observed[p], at[p] - 1) \cup {at[p]}
    <2>1. owed \subseteq Occs \cup {None}
      BY <1>0 DEF Missed, PollTyped
    <2>2. /\ pc[p] = "due" /\ observed' = [observed EXCEPT ![p] = at[p]]
          /\ \/ pc' = [pc EXCEPT ![p] = "idle"] /\ UNCHANGED due
             \/ /\ None \notin owed /\ owed # {}
                /\ pc' = [pc EXCEPT ![p] = "each"] /\ due' = [due EXCEPT ![p] = owed]
          /\ UNCHANGED <<setting, now, row, run, at, known, local, occ, prior, fiber, began, faults>>
      BY <1>11 DEF Due
    <2> HIDE DEF owed
    <2>3. PollTyped'
      BY <1>0, <2>1, <2>2 DEF PollTyped
    <2>4. RowTyped' /\ EntryTyped' /\ FiberTyped'
      BY <1>0, <2>2 DEF RowTyped, EntryTyped, FiberTyped
    <2>5. \A q \in Procs : Places(q)'
      BY <1>0, <2>2 DEF PollTyped, Places, Live
    <2> QED
      BY <2>3, <2>4, <2>5 DEF Shape
  <1>12. CASE Claim(p)
    <2> DEFINE o == Chosen(p)
    <2>0. o \in Occs /\ (ClaimLost(p) \/ ClaimFires(p, o) \/ ClaimSupersedes(p, o) \/ ClaimYields(p, o))
      BY <1>0, <1>12, TypeParts, ClaimCases
    <2> HIDE DEF o
    <2> USE DEF Claims, Rest, After
    <2>1. CASE ClaimLost(p)
      <3>1. RowTyped'
        BY <1>0, <2>0, <2>1 DEF ClaimLost, RowTyped
      <3>2. PollTyped'
        BY <1>0, <2>0, <2>1 DEF ClaimLost, PollTyped
      <3>3. EntryTyped'
        BY <1>0, <2>0, <2>1 DEF ClaimLost, EntryTyped
      <3>4. FiberTyped'
        BY <1>0, <2>0, <2>1 DEF ClaimLost, FiberTyped
      <3>5. \A q \in Procs : Places(q)'
        BY <1>0, <2>0, <2>1 DEF ClaimLost, PollTyped, EntryTyped, FiberTyped, Places, Live
      <3> QED
        BY <3>1, <3>2, <3>3, <3>4, <3>5 DEF Shape
    <2>2. CASE ClaimFires(p, o)
      <3>1. RowTyped'
        BY <1>0, <2>0, <2>2, Identities DEF ClaimFires, Reserves, RowTyped
      <3>2. PollTyped'
        BY <1>0, <2>0, <2>2 DEF ClaimFires, Reserves, PollTyped
      <3>3. EntryTyped'
        BY <1>0, <2>0, <2>2, Identities DEF ClaimFires, Reserves, Launch, EntryTyped, Entry
      <3>4. FiberTyped'
        BY <1>0, <2>0, <2>2 DEF ClaimFires, Reserves, Launch, FiberTyped
      <3>5. \A q \in Procs : Places(q)'
        BY <1>0, <2>0, <2>2 DEF ClaimFires, Reserves, Launch, PollTyped, EntryTyped, FiberTyped, Places, Live
      <3> QED
        BY <3>1, <3>2, <3>3, <3>4, <3>5 DEF Shape
    <2>3. CASE ClaimSupersedes(p, o)
      <3>1. RowTyped'
        BY <1>0, <2>0, <2>3, Identities DEF ClaimSupersedes, Reserves, RowTyped
      <3>2. PollTyped'
        BY <1>0, <2>0, <2>3 DEF ClaimSupersedes, Reserves, PollTyped
      <3>3. EntryTyped'
        BY <1>0, <2>0, <2>3, Identities DEF ClaimSupersedes, Reserves, Victim, RowTyped, PollTyped, EntryTyped, Entry
      <3>4. FiberTyped'
        BY <1>0, <2>0, <2>3 DEF ClaimSupersedes, Reserves, FiberTyped
      <3>5. \A q \in Procs : Places(q)'
        <4>1. Victim(p) # None
          BY <1>0, <2>3, Identities DEF ClaimSupersedes, Victim, Entry, RowTyped, PollTyped
        <4> QED
          BY <1>0, <2>0, <2>3, <4>1 DEF ClaimSupersedes, Reserves, PollTyped, EntryTyped, Places, Live
      <3> QED
        BY <3>1, <3>2, <3>3, <3>4, <3>5 DEF Shape
    <2>4. CASE ClaimYields(p, o)
      <3>1. RowTyped'
        <4>1. pending' \in Occs \cup {None}
          BY <1>0, <2>0, <2>4 DEF ClaimYields, RowTyped
        <4>2. fires' = [fires EXCEPT ![o] = "skipped"] \/ fires' = [fires EXCEPT ![o] = "buffered"]
          BY <2>4 DEF ClaimYields
        <4> QED
          BY <1>0, <2>0, <2>4, <4>1, <4>2 DEF ClaimYields, RowTyped
      <3>2. PollTyped'
        BY <1>0, <2>0, <2>4 DEF ClaimYields, PollTyped
      <3>3. EntryTyped'
        BY <1>0, <2>0, <2>4 DEF ClaimYields, EntryTyped
      <3>4. FiberTyped'
        BY <1>0, <2>0, <2>4 DEF ClaimYields, FiberTyped
      <3>5. \A q \in Procs : Places(q)'
        BY <1>0, <2>0, <2>4 DEF ClaimYields, PollTyped, EntryTyped, FiberTyped, Places, Live
      <3> QED
        BY <3>1, <3>2, <3>3, <3>4, <3>5 DEF Shape
    <2> QED
      BY <2>0, <2>1, <2>2, <2>3, <2>4
  <1> QED
    BY <1>1, <1>2, <1>3, <1>4, <1>5, <1>6, <1>7, <1>8, <1>9, <1>10, <1>11, <1>12 DEF PollStep

(* The steps of a launch fiber keep the types.                             *)
LEMMA FiberShape ==
  ASSUME Shape, NEW p \in Procs, NEW o \in Occs, Start(p, o) \/ Launched(p, o) \/ Watch(p, o) \/ Settle(p, o) \/ RecordingFails(p, o)
  PROVE  Shape'
  <1> USE DEF Goto, Set, row, memory, MaxFaults, Unfired, Superseding
  <1>0. RowTyped /\ PollTyped /\ EntryTyped /\ FiberTyped /\ \A q \in Procs : Places(q)
    BY DEF Shape
  <1>m. setting.maxFaults \in Nat /\ setting.last \in 1..LastTick
    BY <1>0, TriggersAssumption DEF FiberTyped
  <1>1. CASE Start(p, o)
    <2>1. RowTyped'
      BY <1>0, <1>m, <1>1 DEF Start, RowTyped
    <2>2. PollTyped'
      BY <1>0, <1>m, <1>1 DEF Start, PollTyped
    <2>3. EntryTyped'
      <3>1. CASE local[p] # None /\ local[p].occ = o /\ local' = [local EXCEPT ![p].id = Run(o)]
        <4>1. [local[p] EXCEPT !.id = Run(o)] \in Entry
          BY <1>0, <3>1, Identities DEF Entry, EntryTyped
        <4> QED
          BY <1>0, <1>1, <3>1, <4>1 DEF Start, EntryTyped
      <3>2. CASE UNCHANGED local
        BY <1>0, <1>1, <3>2 DEF Start, EntryTyped
      <3> QED
        BY <1>1, <3>1, <3>2 DEF Start
    <2>4. FiberTyped'
      <3>1. run' \in [Occs -> {"none", "active", "ended", "cancelled"}]
        BY <1>0, <1>1 DEF Start, FiberTyped
      <3>2. faults' \in 0..MaxFaults /\ setting' = setting
        BY <1>0, <1>m, <1>1 DEF Start, FiberTyped
      <3>3. fiber' = [fiber EXCEPT ![p][o] = "started"] \/ fiber' = [fiber EXCEPT ![p][o] = "failing"]
        BY <1>1 DEF Start
      <3>4. \A v \in {"started", "failing"} : [fiber EXCEPT ![p][o] = v] \in [Procs -> [Occs ->
              {"none", "starting", "started", "watching", "completing", "blind", "failing", "unrecorded"}]]
        BY <1>0 DEF FiberTyped
      <3> QED
        BY <1>0, <3>1, <3>2, <3>3, <3>4 DEF FiberTyped
    <2>5. \A q \in Procs : Places(q)'
      BY <1>0, <1>m, <1>1 DEF Start, PollTyped, EntryTyped, FiberTyped, Places, Live
    <2> QED
      BY <2>1, <2>2, <2>3, <2>4, <2>5 DEF Shape
  <1>2. CASE Launched(p, o)
    <2>1. RowTyped'
      BY <1>0, <1>m, <1>2, Identities DEF Launched, RecordResult, RowTyped
    <2>2. PollTyped'
      BY <1>0, <1>m, <1>2 DEF Launched, PollTyped
    <2>3. EntryTyped'
      BY <1>0, <1>m, <1>2 DEF Launched, EntryTyped
    <2>4. FiberTyped'
      BY <1>0, <1>m, <1>2 DEF Launched, FiberTyped
    <2>5. \A q \in Procs : Places(q)'
      BY <1>0, <1>m, <1>2 DEF Launched, RecordResult, PollTyped, EntryTyped, FiberTyped, Places, Live
    <2> QED
      BY <2>1, <2>2, <2>3, <2>4, <2>5 DEF Shape
  <1>3. CASE Watch(p, o)
    <2>1. RowTyped'
      BY <1>0, <1>m, <1>3 DEF Watch, RowTyped
    <2>2. PollTyped'
      BY <1>0, <1>m, <1>3 DEF Watch, PollTyped
    <2>3. EntryTyped'
      BY <1>0, <1>m, <1>3 DEF Watch, EntryTyped
    <2>4. FiberTyped'
      <3>1. faults' \in 0..MaxFaults /\ UNCHANGED <<run, setting>>
        BY <1>0, <1>m, <1>3 DEF Watch, FiberTyped
      <3>2. fiber' = [fiber EXCEPT ![p][o] = "completing"] \/ fiber' = [fiber EXCEPT ![p][o] = "blind"]
        BY <1>3 DEF Watch
      <3> QED
        BY <1>0, <3>1, <3>2 DEF FiberTyped
    <2>5. \A q \in Procs : Places(q)'
      BY <1>0, <1>3 DEF Watch, FiberTyped, Places, Live
    <2> QED
      BY <2>1, <2>2, <2>3, <2>4, <2>5 DEF Shape
  <1>4. CASE Settle(p, o)
    <2>1. RowTyped'
      BY <1>0, <1>m, <1>4 DEF Settle, RecordResult, RowTyped
    <2>2. PollTyped'
      BY <1>0, <1>m, <1>4 DEF Settle, PollTyped
    <2>3. EntryTyped'
      BY <1>0, <1>m, <1>4 DEF Settle, Without, EntryTyped
    <2>4. FiberTyped'
      BY <1>0, <1>m, <1>4 DEF Settle, FiberTyped
    <2>5. \A q \in Procs : Places(q)'
      BY <1>0, <1>m, <1>4 DEF Settle, RecordResult, Without, PollTyped, EntryTyped, FiberTyped, Places, Live
    <2> QED
      BY <2>1, <2>2, <2>3, <2>4, <2>5 DEF Shape
  <1>5. CASE RecordingFails(p, o)
    <2>0. PICK v \in {"unrecorded", "blind", "none"} :
             fiber[p][o] # "none" /\ fiber' = [fiber EXCEPT ![p][o] = v]
      BY <1>5 DEF RecordingFails
    <2>1. RowTyped' /\ PollTyped'
      BY <1>0, <1>m, <1>5 DEF RecordingFails, RowTyped, PollTyped
    <2>3. EntryTyped'
      BY <1>0, <1>m, <1>5 DEF RecordingFails, Without, EntryTyped
    <2>4. FiberTyped'
      <3>1. faults' \in 0..MaxFaults /\ UNCHANGED <<run, setting>>
        BY <1>0, <1>m, <1>5 DEF RecordingFails, FiberTyped
      <3> QED
        BY <1>0, <2>0, <3>1 DEF FiberTyped
    <2>5. \A q \in Procs : Places(q)'
      BY <1>0, <1>5, <2>0 DEF RecordingFails, FiberTyped, Places, Live
    <2> QED
      BY <2>1, <2>3, <2>4, <2>5 DEF Shape
  <1> QED
    BY <1>1, <1>2, <1>3, <1>4, <1>5

(* So do the environment, crashes and failures.                            *)
LEMMA EnvShape ==
  ASSUME Shape, NEW p \in Procs, NEW o \in Occs, RunEnds(o) \/ Tick \/ Crash(p) \/ Close(p) \/ PollFails(p)
  PROVE  Shape'
  <1> USE DEF Goto, Set, row, memory, MaxFaults, Unfired, Superseding
  <1>0. RowTyped /\ PollTyped /\ EntryTyped /\ FiberTyped /\ \A q \in Procs : Places(q)
    BY DEF Shape
  <1>m. setting.maxFaults \in Nat /\ setting.last \in 1..LastTick
    BY <1>0, TriggersAssumption DEF FiberTyped
  <1>1. CASE RunEnds(o)
    <2>1. RowTyped'
      BY <1>0, <1>m, <1>1 DEF RunEnds, RowTyped
    <2>2. PollTyped'
      BY <1>0, <1>m, <1>1 DEF RunEnds, PollTyped
    <2>3. EntryTyped'
      BY <1>0, <1>m, <1>1 DEF RunEnds, EntryTyped
    <2>4. FiberTyped'
      BY <1>0, <1>m, <1>1 DEF RunEnds, FiberTyped
    <2>5. \A q \in Procs : Places(q)'
      BY <1>0, <1>m, <1>1 DEF RunEnds, PollTyped, EntryTyped, FiberTyped, Places, Live
    <2> QED
      BY <2>1, <2>2, <2>3, <2>4, <2>5 DEF Shape
  <1>2. CASE Tick
    <2>1. RowTyped'
      BY <1>0, <1>m, <1>2, TriggersAssumption DEF Tick, Occs, RowTyped
    <2>2. PollTyped'
      BY <1>0, <1>m, <1>2 DEF Tick, Occs, PollTyped
    <2>3. EntryTyped'
      BY <1>0, <1>m, <1>2 DEF Tick, Occs, EntryTyped
    <2>4. FiberTyped'
      BY <1>0, <1>m, <1>2 DEF Tick, Occs, FiberTyped
    <2>5. \A q \in Procs : Places(q)'
      BY <1>0, <1>m, <1>2 DEF Tick, Occs, PollTyped, EntryTyped, FiberTyped, Places, Live
    <2> QED
      BY <2>1, <2>2, <2>3, <2>4, <2>5 DEF Shape
  <1>3. CASE Crash(p)
    <2>1. RowTyped'
      BY <1>0, <1>m, <1>3 DEF Crash, Restart, RowTyped
    <2>2. PollTyped'
      BY <1>0, <1>m, <1>3, Occurrences DEF Crash, Restart, PollTyped
    <2>3. EntryTyped'
      BY <1>0, <1>m, <1>3 DEF Crash, Restart, EntryTyped
    <2>4. FiberTyped'
      BY <1>0, <1>m, <1>3 DEF Crash, Restart, FiberTyped
    <2>5. \A q \in Procs : Places(q)'
      BY <1>0, <1>m, <1>3 DEF Crash, Restart, PollTyped, EntryTyped, FiberTyped, Places, Live
    <2> QED
      BY <2>1, <2>2, <2>3, <2>4, <2>5 DEF Shape
  <1>4. CASE Close(p)
    <2>1. RowTyped'
      BY <1>0, <1>m, <1>4 DEF Close, Restart, RowTyped
    <2>2. PollTyped'
      BY <1>0, <1>m, <1>4, Occurrences DEF Close, Restart, PollTyped
    <2>3. EntryTyped'
      BY <1>0, <1>m, <1>4 DEF Close, Restart, EntryTyped
    <2>4. FiberTyped'
      BY <1>0, <1>m, <1>4 DEF Close, Restart, Interrupted, FiberTyped
    <2>5. \A q \in Procs : Places(q)'
      BY <1>0, <1>m, <1>4 DEF Close, Restart, Interrupted, PollTyped, EntryTyped, FiberTyped, Places, Live
    <2> QED
      BY <2>1, <2>2, <2>3, <2>4, <2>5 DEF Shape
  <1>5. CASE PollFails(p)
    <2>1. RowTyped'
      BY <1>0, <1>m, <1>5 DEF PollFails, RowTyped
    <2>2. PollTyped'
      BY <1>0, <1>m, <1>5 DEF PollFails, PollTyped
    <2>3. EntryTyped'
      BY <1>0, <1>m, <1>5 DEF PollFails, EntryTyped
    <2>4. FiberTyped'
      BY <1>0, <1>m, <1>5 DEF PollFails, FiberTyped
    <2>5. \A q \in Procs : Places(q)'
      BY <1>0, <1>m, <1>5 DEF PollFails, PollTyped, EntryTyped, FiberTyped, Places, Live
    <2> QED
      BY <2>1, <2>2, <2>3, <2>4, <2>5 DEF Shape
  <1> QED
    BY <1>1, <1>2, <1>3, <1>4, <1>5

(* The schedulers are some of the processes, and faults are counted.       *)
LEMMA InSettings ==
  ASSUME Shape
  PROVE  /\ setting.procs \subseteq Procs /\ setting.maxFaults \in Nat
         /\ Overlap \in {"skip", "buffer-one", "supersede"}
  BY TriggersAssumption DEF Shape, FiberTyped, Overlap

(* Types hold at first.                                                    *)
LEMMA InitShape == Init => Shape
  <1> SUFFICES ASSUME Init PROVE Shape
    OBVIOUS
  <1>1. setting.maxFaults \in Nat
    BY TriggersAssumption DEF Init
  <1>2. RowTyped /\ PollTyped /\ EntryTyped /\ FiberTyped
    BY <1>1, Occurrences DEF Init, RowTyped, PollTyped, EntryTyped, FiberTyped, MaxFaults
  <1>3. \A p \in Procs : Places(p)
    BY DEF Init, Places, Live, Unfired, Superseding
  <1> QED
    BY <1>2, <1>3 DEF Shape

(* And every step keeps them.                                              *)
LEMMA NextShape == Shape /\ [Next]_vars => Shape'
  <1> SUFFICES ASSUME Shape, [Next]_vars PROVE Shape'
    OBVIOUS
  <1>1. CASE UNCHANGED vars
    BY <1>1 DEF vars, row, memory, Shape, RowTyped, PollTyped, EntryTyped, FiberTyped, Places, Live, MaxFaults
  <1>2. CASE Next
    <2>1. ASSUME NEW p \in Procs, PollStep(p) \/ FiberStep(p) \/ PollFails(p) \/ Crash(p) \/ Close(p)
          PROVE  Shape'
      BY <2>1, PollShape, FiberShape, EnvShape, Occurrences DEF FiberStep
    <2>2. ASSUME Tick \/ \E o \in Occs : RunEnds(o) PROVE Shape'
      BY <2>2, EnvShape, Occurrences, TriggersAssumption
    <2> QED
      BY <1>2, <2>1, <2>2 DEF Next
  <1> QED
    BY <1>1, <1>2

-----------------------------------------------------------------------------
(* The effects of the longer steps *)

(* A step of one fiber.                                                    *)
Becomes(p, o, v) ==
    \A q \in Procs, x \in Occs : fiber'[q][x] = IF q = p /\ x = o THEN v ELSE fiber[q][x]
LEMMA FiberAt ==
  ASSUME Shape, NEW p \in Procs, NEW o \in Occs, NEW v, fiber' = [fiber EXCEPT ![p][o] = v]
  PROVE  Becomes(p, o, v)
  BY DEF Shape, FiberTyped, Becomes

(* The due occurrences are observed.                                       *)
LEMMA DueEffect ==
  ASSUME Shape, NEW p \in Procs, Due(p)
  PROVE  /\ pc[p] = "due" /\ pc' = [pc EXCEPT ![p] = pc'[p]] /\ pc'[p] \in {"idle", "each"}
         /\ UNCHANGED <<setting, now, fires, active, since, last, pending, run, at, known, local, occ,
                        prior, fiber, began, faults>>
  BY DEF Due, Goto, row, Shape, PollTyped

(* No step changes the setting.                                            *)
LEMMA SettingFixed == Next => UNCHANGED setting
  <1>1. ASSUME NEW p \in Procs, PollStep(p) PROVE UNCHANGED setting
    BY <1>1 DEF PollStep, Poll, ResolveLocal, ClearLocal, ResolveStored, ClearStored, TakePending, Due,
                Claim, RecordUnfired, Interrupt, Cancel, Superseded
  <1>2. ASSUME NEW p \in Procs, FiberStep(p) \/ PollFails(p) \/ Crash(p) \/ Close(p) PROVE UNCHANGED setting
    BY <1>2 DEF FiberStep, Start, Launched, Watch, Settle, RecordingFails, PollFails, Crash, Close, Restart
  <1>3. ASSUME Tick \/ \E o \in Occs : RunEnds(o) PROVE UNCHANGED setting
    BY <1>3 DEF Tick, RunEnds
  <1> QED
    BY <1>1, <1>2, <1>3 DEF Next

(* A skip or a buffer is recorded.                                         *)
LEMMA UnfiredEffect ==
  ASSUME Shape, NEW p \in Procs, RecordUnfired(p)
  PROVE  /\ occ[p] \in Occs /\ pc[p] \in Unfired /\ pc'[p] \in {"due", "idle", "each"}
         /\ fires' = [fires EXCEPT ![occ[p]] = IF pc[p] = "skip" THEN "skipped" ELSE "buffered"]
         /\ pc' = [pc EXCEPT ![p] = pc'[p]] /\ occ' = [occ EXCEPT ![p] = None]
         /\ last' = occ[p]
         /\ \/ active # Reservation(occ[p]) /\ active' = active /\ since' = since
            \/ active = Reservation(occ[p]) /\ active' = None /\ since' = None
         /\ UNCHANGED <<setting, now, pending, run, at, known, local, observed, due, prior, fiber, began, faults>>
  <1>1. occ[p] \in Occs /\ pc[p] \in Unfired
    BY DEF RecordUnfired, Unfired, Shape, Places
  <1>2. pc' = [pc EXCEPT ![p] = pc'[p]] /\ pc'[p] \in {"due", "idle", "each"}
    BY DEF RecordUnfired, Goto, Shape, PollTyped
  <1> QED
    BY <1>1, <1>2 DEF RecordUnfired, RecordResult, Set

(* A fiber is interrupted, if the entry has a live one.                    *)
Reaches(p, o, r) ==
    \/ r = run[o]
    \/ run[o] = "active" /\ r = "cancelled"
    \/ fiber[p][o] = "starting" /\ run[o] = "none" /\ r = "active"
InterruptsFiber(p, o) ==
    /\ prior[p].fiber /\ prior[p].occ = o /\ Live(p, o)
    /\ \E r \in {"none", "active", "ended", "cancelled"} :
          /\ run' = [run EXCEPT ![o] = r] /\ Reaches(p, o, r)
          /\ fiber[p][o] \in {"started", "watching", "completing", "blind", "unrecorded"} => r # "active"
    /\ Becomes(p, o, "none")
    /\ local' = [local EXCEPT ![p] = Without(local[p], o)]
LEMMA InterruptEffect ==
  ASSUME Shape, NEW p \in Procs, Interrupt(p)
  PROVE  /\ pc[p] = "interrupt" /\ pc' = [pc EXCEPT ![p] = "cancel"]
         /\ UNCHANGED <<setting, now, row, at, known, observed, due, occ, prior, began, faults>>
         /\ \/ ~LiveFiber(p, prior[p]) /\ UNCHANGED <<run, fiber, local>>
            \/ \E o \in Occs : InterruptsFiber(p, o)
  <1>1. CASE ~LiveFiber(p, prior[p])
    BY <1>1 DEF Interrupt, Goto
  <1>2. CASE LiveFiber(p, prior[p])
    <2> DEFINE o == prior[p].occ
    <2>1. o \in Occs /\ prior[p].fiber /\ Live(p, o)
      BY <1>2, Identities DEF LiveFiber, Shape, EntryTyped, Interrupt, Places, Superseding
    <2>2. PICK reached \in BOOLEAN : run' = [run EXCEPT ![o] = Interrupted(p, o, reached)]
      BY <1>2 DEF Interrupt
    <2>3. /\ Interrupted(p, o, reached) \in {"none", "active", "ended", "cancelled"}
          /\ Reaches(p, o, Interrupted(p, o, reached))
          /\ fiber[p][o] \in {"started", "watching", "completing", "blind", "unrecorded"} =>
                Interrupted(p, o, reached) # "active"
      BY <2>1 DEF Interrupted, Reaches, Shape, FiberTyped
    <2>4. fiber' = [fiber EXCEPT ![p][o] = "none"] /\ local' = [local EXCEPT ![p] = Without(local[p], o)]
      BY <1>2 DEF Interrupt, Set
    <2>5. Becomes(p, o, "none")
      BY <2>1, <2>4, FiberAt
    <2>6. InterruptsFiber(p, o)
      BY <2>1, <2>2, <2>3, <2>4, <2>5 DEF InterruptsFiber
    <2> QED
      BY <2>1, <2>6 DEF Interrupt, Goto
  <1> QED
    BY <1>1, <1>2

(* The superseded occurrence is recorded, and the other one is launched.   *)
LEMMA SupersededEffect ==
  ASSUME Shape, NEW p \in Procs, Superseded(p)
  PROVE  /\ pc[p] = "superseded" /\ occ[p] \in Occs /\ prior[p] \in Entry
         /\ pc' = [pc EXCEPT ![p] = pc'[p]] /\ pc'[p] \in {"idle", "each"}
         /\ occ' = [occ EXCEPT ![p] = None] /\ prior' = [prior EXCEPT ![p] = None]
         /\ \/ prior[p].occ = None /\ UNCHANGED <<fires, active, since, last>>
            \/ /\ prior[p].occ \in Occs /\ last' = prior[p].occ
               /\ fires' = [fires EXCEPT ![prior[p].occ] = "superseded"]
               /\ \/ active' = active /\ since' = since
                  \/ active = prior[p].id /\ active' = None
         /\ local' = [local EXCEPT ![p] = [occ |-> occ[p], id |-> Reservation(occ[p]), fiber |-> TRUE]]
         /\ Becomes(p, occ[p], "starting")
         /\ UNCHANGED <<setting, now, pending, run, at, known, observed, due, began, faults>>
  <1>1. occ[p] \in Occs /\ prior[p] \in Entry /\ pc[p] = "superseded"
    BY DEF Superseded, Superseding, Shape, Places, EntryTyped
  <1>2. pc' = [pc EXCEPT ![p] = pc'[p]] /\ pc'[p] \in {"idle", "each"}
    BY DEF Superseded, Goto, Shape, PollTyped
  <1>3. prior[p].occ \in Occs \cup {None} /\ prior[p].id # None
    BY <1>1, Identities
  <1>4. Becomes(p, occ[p], "starting")
    BY <1>1, FiberAt DEF Superseded, Launch
  <1>5. \/ prior[p].occ = None /\ UNCHANGED <<fires, active, since, last, pending>>
        \/ prior[p].occ \in Occs /\ RecordResult(prior[p].occ, "superseded", prior[p].id)
    BY <1>3 DEF Superseded, row
  <1>6. RecordResult(prior[p].occ, "superseded", prior[p].id) =>
          /\ last' = prior[p].occ /\ pending' = pending
          /\ fires' = [fires EXCEPT ![prior[p].occ] = "superseded"]
          /\ \/ active' = active /\ since' = since
             \/ active = prior[p].id /\ active' = None
    BY <1>3 DEF RecordResult
  <1> QED
    BY <1>1, <1>2, <1>4, <1>5, <1>6 DEF Superseded, Launch, Set

(* A fiber ends with a result.                                             *)
LEMMA SettleEffect ==
  ASSUME Shape, NEW p \in Procs, NEW o \in Occs, Settle(p, o)
  PROVE  /\ \/ fiber[p][o] = "completing" /\ fires' = [fires EXCEPT ![o] = "completed"]
            \/ fiber[p][o] \in {"blind", "failing", "unrecorded"} /\ fires' = [fires EXCEPT ![o] = "failed"]
         /\ last' = o
         /\ \/ active # Run(o) /\ active' = active /\ since' = since /\ fiber[p][o] # "failing"
            \/ active = Run(o) /\ active' = None
            \/ fiber[p][o] = "failing" /\ active' = None
         /\ Becomes(p, o, "none")
         /\ local' = [local EXCEPT ![p] = Without(local[p], o)]
         /\ UNCHANGED <<setting, now, pending, run, pc, at, known, observed, due, occ, prior, began, faults>>
  <1>1. Becomes(p, o, "none")
    BY FiberAt DEF Settle
  <1>2. Run(o) # None
    BY Identities
  <1>3. CASE fiber[p][o] = "completing"
    <2>1. RecordResult(o, "completed", Run(o))
      BY <1>3 DEF Settle
    <2> QED
      BY <1>1, <1>2, <1>3, <2>1 DEF Settle, RecordResult, Set
  <1>4. CASE fiber[p][o] \in {"blind", "unrecorded"}
    <2>1. RecordResult(o, "failed", Run(o))
      BY <1>4 DEF Settle
    <2> QED
      BY <1>1, <1>2, <1>4, <2>1 DEF Settle, RecordResult, Set
  <1>5. CASE fiber[p][o] = "failing"
    <2>1. RecordResult(o, "failed", None)
      BY <1>5 DEF Settle
    <2> QED
      BY <1>1, <1>5, <2>1 DEF Settle, RecordResult, Set
  <1> QED
    BY <1>3, <1>4, <1>5 DEF Settle

-----------------------------------------------------------------------------
(* What is recorded of an occurrence *)

Recorded == Ruled /\ Unrun /\ \A p \in Procs : Fired(p)

(* The steps of a poll record by the policy, and run nothing.              *)
LEMMA PollRecorded ==
  ASSUME Shape, Shape', Recorded, NEW p \in Procs, PollStep(p)
  PROVE  Recorded'
  <1> USE DEF Goto, Set, row, memory, MaxFaults, Overlap
  <1>0. Shape /\ Shape' /\ Ruled /\ Unrun /\ \A q \in Procs : Fired(q)
    BY DEF Recorded
  <1>s. RowTyped /\ PollTyped /\ EntryTyped /\ FiberTyped /\ \A q \in Procs : Places(q)
    BY DEF Shape
  <1>1. CASE Poll(p)
    <2>1. Ruled'
      BY <1>0, <1>s, <1>1 DEF Poll, RowTyped, PollTyped, Ruled, Superseding, Unfired, Places
    <2>2. Unrun'
      BY <1>0, <1>s, <1>1 DEF Poll, RowTyped, FiberTyped, Unrun, Ruled, Fired, Live, Done
    <2>3. \A q \in Procs : Fired(q)'
      BY <1>0, <1>s, <1>1 DEF Poll, RowTyped, PollTyped, FiberTyped, Fired, Unrun, Ruled, Live, Done, Places
    <2> QED
      BY <2>1, <2>2, <2>3 DEF Recorded
  <1>2. CASE ResolveLocal(p)
    <2>1. Ruled'
      BY <1>0, <1>s, <1>2 DEF ResolveLocal, RowTyped, PollTyped, Ruled, Superseding, Unfired, Places
    <2>2. Unrun'
      BY <1>0, <1>s, <1>2 DEF ResolveLocal, RowTyped, FiberTyped, Unrun, Ruled, Fired, Live, Done
    <2>3. \A q \in Procs : Fired(q)'
      BY <1>0, <1>s, <1>2 DEF ResolveLocal, RowTyped, PollTyped, FiberTyped, Fired, Unrun, Ruled, Live, Done, Places
    <2> QED
      BY <2>1, <2>2, <2>3 DEF Recorded
  <1>3. CASE ClearLocal(p)
    <2>1. Ruled'
      BY <1>0, <1>s, <1>3 DEF ClearLocal, ClearActive, Without, RowTyped, PollTyped, Ruled, Superseding, Unfired, Places
    <2>2. Unrun'
      BY <1>0, <1>s, <1>3 DEF ClearLocal, ClearActive, Without, RowTyped, FiberTyped, Unrun, Ruled, Fired, Live, Done
    <2>3. \A q \in Procs : Fired(q)'
      BY <1>0, <1>s, <1>3 DEF ClearLocal, ClearActive, Without, RowTyped, PollTyped, FiberTyped, Fired, Unrun, Ruled, Live, Done, Places
    <2> QED
      BY <2>1, <2>2, <2>3 DEF Recorded
  <1>4. CASE ResolveStored(p)
    <2>1. Ruled'
      BY <1>0, <1>s, <1>4 DEF ResolveStored, RowTyped, PollTyped, Ruled, Superseding, Unfired, Places
    <2>2. Unrun'
      BY <1>0, <1>s, <1>4 DEF ResolveStored, RowTyped, FiberTyped, Unrun, Ruled, Fired, Live, Done
    <2>3. \A q \in Procs : Fired(q)'
      BY <1>0, <1>s, <1>4 DEF ResolveStored, RowTyped, PollTyped, FiberTyped, Fired, Unrun, Ruled, Live, Done, Places
    <2> QED
      BY <2>1, <2>2, <2>3 DEF Recorded
  <1>5. CASE ClearStored(p)
    <2>1. Ruled'
      BY <1>0, <1>s, <1>5 DEF ClearStored, ClearActive, RowTyped, PollTyped, Ruled, Superseding, Unfired, Places
    <2>2. Unrun'
      BY <1>0, <1>s, <1>5 DEF ClearStored, ClearActive, RowTyped, FiberTyped, Unrun, Ruled, Fired, Live, Done
    <2>3. \A q \in Procs : Fired(q)'
      BY <1>0, <1>s, <1>5 DEF ClearStored, ClearActive, RowTyped, PollTyped, FiberTyped, Fired, Unrun, Ruled, Live, Done, Places
    <2> QED
      BY <2>1, <2>2, <2>3 DEF Recorded
  <1>6. CASE TakePending(p)
    <2>1. Ruled'
      BY <1>0, <1>s, <1>6 DEF TakePending, RowTyped, PollTyped, Ruled, Superseding, Unfired, Places
    <2>2. Unrun'
      BY <1>0, <1>s, <1>6 DEF TakePending, RowTyped, FiberTyped, Unrun, Ruled, Fired, Live, Done
    <2>3. \A q \in Procs : Fired(q)'
      BY <1>0, <1>s, <1>6 DEF TakePending, RowTyped, PollTyped, FiberTyped, Fired, Unrun, Ruled, Live, Done, Places
    <2> QED
      BY <2>1, <2>2, <2>3 DEF Recorded
  <1>7. CASE Due(p)
    <2>1. Ruled'
      BY <1>0, <1>s, <1>7, DueEffect DEF PollTyped, Ruled, Superseding
    <2>2. Unrun'
      BY <1>0, <1>s, <1>7, DueEffect DEF Unrun
    <2>3. \A q \in Procs : Fired(q)'
      BY <1>0, <1>s, <1>7, DueEffect DEF PollTyped, Fired, Live, Done
    <2> QED
      BY <2>1, <2>2, <2>3 DEF Recorded
  <1>8. CASE RecordUnfired(p)
    <2>1. Ruled'
      BY <1>0, <1>s, <1>8 DEF RecordUnfired, RecordResult, RowTyped, PollTyped, Ruled, Superseding, Unfired, Places
    <2>2. Unrun'
      BY <1>0, <1>s, <1>8 DEF RecordUnfired, RecordResult, RowTyped, FiberTyped, Unrun, Ruled, Fired, Live, Done
    <2>3. \A q \in Procs : Fired(q)'
      BY <1>0, <1>s, <1>8 DEF RecordUnfired, RecordResult, RowTyped, PollTyped, FiberTyped, Fired, Unrun, Ruled, Live, Done, Places
    <2> QED
      BY <2>1, <2>2, <2>3 DEF Recorded
  <1>9. CASE Interrupt(p)
    <2>1. Ruled'
      BY <1>0, <1>s, <1>9 DEF Interrupt, RowTyped, PollTyped, Ruled, Superseding, Unfired, Places
    <2>2. Unrun'
      BY <1>0, <1>s, <1>9, InterruptEffect DEF RowTyped, FiberTyped, Unrun, Ruled, Fired, Live, Done, InterruptsFiber, Reaches, Becomes
    <2>3. \A q \in Procs : Fired(q)'
      <3>1. /\ pc' = [pc EXCEPT ![p] = "cancel"] /\ UNCHANGED <<fires, occ, faults>>
            /\ UNCHANGED <<run, fiber>> \/ \E o \in Occs : InterruptsFiber(p, o)
        BY <1>0, <1>9, InterruptEffect
      <3>2. \A q \in Procs, x \in Occs :
              /\ fiber'[q][x] \in {fiber[q][x], "none"}
              /\ run[x] # "none" => run'[x] # "none"
              /\ Done(x) => Done(x)'
        BY <1>s, <3>1 DEF InterruptsFiber, Reaches, Becomes, FiberTyped, Done
      <3> QED
        BY <1>0, <1>s, <3>1, <3>2 DEF Fired, Live, PollTyped
    <2> QED
      BY <2>1, <2>2, <2>3 DEF Recorded
  <1>10. CASE Cancel(p)
    <2>1. Ruled'
      BY <1>0, <1>s, <1>10 DEF Cancel, RowTyped, PollTyped, Ruled, Superseding, Unfired, Places
    <2>2. Unrun'
      BY <1>0, <1>s, <1>10 DEF Cancel, RowTyped, FiberTyped, Unrun, Ruled, Fired, Live, Done
    <2>3. \A q \in Procs : Fired(q)'
      BY <1>0, <1>s, <1>10 DEF Cancel, RowTyped, PollTyped, FiberTyped, Fired, Unrun, Ruled, Live, Done, Places
    <2> QED
      BY <2>1, <2>2, <2>3 DEF Recorded
  <1>11. CASE Superseded(p)
    <2>1. Ruled'
      BY <1>0, <1>s, <1>11 DEF Superseded, RecordResult, Launch, RowTyped, PollTyped, Ruled, Superseding, Unfired, Places
    <2>2. Unrun'
      BY <1>0, <1>s, <1>11 DEF Superseded, RecordResult, Launch, RowTyped, FiberTyped, Unrun, Ruled, Fired, Live, Done
    <2>3. \A q \in Procs : Fired(q)'
      <3>1. \A x \in Occs : fires'[x] \in {fires[x], "superseded"}
        BY <1>0, <1>s, <1>11, SupersededEffect DEF RowTyped
      <3>2. /\ pc[p] = "superseded" /\ occ[p] \in Occs /\ Becomes(p, occ[p], "starting")
            /\ \A r \in Procs : /\ pc'[r] = IF r = p THEN pc'[p] ELSE pc[r]
                                /\ occ'[r] = IF r = p THEN None ELSE occ[r]
            /\ pc'[p] \in {"idle", "each"}
        BY <1>0, <1>s, <1>11, SupersededEffect DEF PollTyped
      <3>3. UNCHANGED <<run, faults, setting>>
        BY <1>0, <1>11, SupersededEffect
      <3> SUFFICES ASSUME NEW q \in Procs PROVE Fired(q)'
        OBVIOUS
      <3>11. ASSUME NEW x \in Occs
            PROVE  /\ fiber'[q][x] # "none" => fires'[x] \notin {"unclaimed", "skipped"}
                   /\ fiber'[q][x] \in {"started", "watching", "blind", "unrecorded"} => run'[x] # "none"
                   /\ fiber'[q][x] = "completing" => run'[x] \in {"ended", "cancelled"}
                   /\ fiber'[q][x] \in {"failing", "blind", "unrecorded"} => faults' # 0
        BY <1>0, <1>s, <3>1, <3>2, <3>3, Occurrences DEF Becomes, RowTyped, PollTyped, FiberTyped, Fired, Ruled, Live, Done, Places, Superseding, Unfired
      <3>12. occ'[q] # None => fires'[occ'[q]] # "unclaimed"
        BY <1>0, <1>s, <3>1, <3>2, <3>3 DEF Becomes, RowTyped, PollTyped, FiberTyped, Fired, Ruled, Live, Done, Places, Superseding, Unfired
      <3>13. pc'[q] = "skip" => fires'[occ'[q]] = "skipped"
        BY <1>0, <1>s, <3>1, <3>2, <3>3 DEF Becomes, RowTyped, PollTyped, FiberTyped, Fired, Ruled, Live, Done, Places, Superseding, Unfired
      <3> QED
        BY <3>11, <3>12, <3>13 DEF Fired, Live, Done
    <2> QED
      BY <2>1, <2>2, <2>3 DEF Recorded
  <1>12. CASE Claim(p)
    <2> DEFINE o == Chosen(p)
    <2>0. o \in Occs /\ (ClaimLost(p) \/ ClaimFires(p, o) \/ ClaimSupersedes(p, o) \/ ClaimYields(p, o))
      BY <1>0, <1>s, <1>12, TypeParts, ClaimCases DEF Shape
    <2> HIDE DEF o
    <2> USE DEF Claims, Rest, After
    <2>1. CASE ClaimLost(p)
      <3>1. Ruled'
        BY <1>0, <1>s, <2>0, <2>1 DEF ClaimLost, RowTyped, PollTyped, Ruled, Superseding, Unfired, Places
      <3>2. Unrun'
        BY <1>0, <1>s, <2>0, <2>1 DEF ClaimLost, RowTyped, FiberTyped, Unrun, Ruled, Fired, Live, Done
      <3>3. \A q \in Procs : Fired(q)'
        BY <1>0, <1>s, <2>0, <2>1 DEF ClaimLost, RowTyped, PollTyped, FiberTyped, Fired, Unrun, Ruled, Live, Done, Places
      <3> QED
        BY <3>1, <3>2, <3>3 DEF Recorded
    <2>2. CASE ClaimFires(p, o)
      <3>1. Ruled'
        BY <1>0, <1>s, <2>0, <2>2 DEF ClaimFires, Reserves, Launch, RowTyped, PollTyped, Ruled, Superseding, Unfired, Places
      <3>2. Unrun'
        BY <1>0, <1>s, <2>0, <2>2 DEF ClaimFires, Reserves, Launch, RowTyped, FiberTyped, Unrun, Ruled, Fired, Live, Done
      <3>3. \A q \in Procs : Fired(q)'
        <4>1. Becomes(p, o, "starting")
          BY <1>0, <2>0, <2>2, FiberAt DEF ClaimFires, Launch
        <4> QED
          <5> SUFFICES ASSUME NEW q \in Procs PROVE Fired(q)'
            OBVIOUS
          <5>11. ASSUME NEW x \in Occs
                PROVE  /\ fiber'[q][x] # "none" => fires'[x] \notin {"unclaimed", "skipped"}
                       /\ fiber'[q][x] \in {"started", "watching", "blind", "unrecorded"} => run'[x] # "none"
                       /\ fiber'[q][x] = "completing" => run'[x] \in {"ended", "cancelled"}
                       /\ fiber'[q][x] \in {"failing", "blind", "unrecorded"} => faults' # 0
            BY <1>0, <1>s, <2>0, <2>2, <4>1 DEF ClaimFires, Reserves, Claimable, Resumable, Becomes, RowTyped, PollTyped, FiberTyped, Fired, Ruled, Live, Done, Places, Superseding, Unfired
          <5>12. occ'[q] # None => fires'[occ'[q]] # "unclaimed"
            BY <1>0, <1>s, <2>0, <2>2, <4>1 DEF ClaimFires, Reserves, Claimable, Resumable, Becomes, RowTyped, PollTyped, FiberTyped, Fired, Ruled, Live, Done, Places, Superseding, Unfired
          <5>13. pc'[q] = "skip" => fires'[occ'[q]] = "skipped"
            BY <1>0, <1>s, <2>0, <2>2, <4>1 DEF ClaimFires, Reserves, Claimable, Resumable, Becomes, RowTyped, PollTyped, FiberTyped, Fired, Ruled, Live, Done, Places, Superseding, Unfired
          <5> QED
            BY <5>11, <5>12, <5>13 DEF Fired, Live, Done
      <3> QED
        BY <3>1, <3>2, <3>3 DEF Recorded
    <2>3. CASE ClaimSupersedes(p, o)
      <3>1. Ruled'
        BY <1>0, <1>s, <2>0, <2>3 DEF ClaimSupersedes, Reserves, Victim, RowTyped, PollTyped, Ruled, Superseding, Unfired, Places
      <3>2. Unrun'
        BY <1>0, <1>s, <2>0, <2>3 DEF ClaimSupersedes, Reserves, Victim, RowTyped, FiberTyped, Unrun, Ruled, Fired, Live, Done
      <3>3. \A q \in Procs : Fired(q)'
        BY <1>0, <1>s, <2>0, <2>3 DEF ClaimSupersedes, Reserves, Victim, RowTyped, PollTyped, FiberTyped, Fired, Unrun, Ruled, Live, Done, Places
      <3> QED
        BY <3>1, <3>2, <3>3 DEF Recorded
    <2>4. CASE ClaimYields(p, o)
      <3>1. Ruled'
        BY <1>0, <1>s, <2>0, <2>4 DEF ClaimYields, RowTyped, PollTyped, Ruled, Superseding, Unfired, Places
      <3>2. Unrun'
        BY <1>0, <1>s, <2>0, <2>4 DEF ClaimYields, RowTyped, FiberTyped, Unrun, Ruled, Fired, Live, Done, Claimable, Resumable, Expired, Holder
      <3>3. \A q \in Procs : Fired(q)'
        <4> SUFFICES ASSUME NEW q \in Procs PROVE Fired(q)'
          OBVIOUS
        <4>11. ASSUME NEW x \in Occs
              PROVE  /\ fiber'[q][x] # "none" => fires'[x] \notin {"unclaimed", "skipped"}
                     /\ fiber'[q][x] \in {"started", "watching", "blind", "unrecorded"} => run'[x] # "none"
                     /\ fiber'[q][x] = "completing" => run'[x] \in {"ended", "cancelled"}
                     /\ fiber'[q][x] \in {"failing", "blind", "unrecorded"} => faults' # 0
          BY <1>0, <1>s, <2>0, <2>4 DEF ClaimYields, Claimable, Resumable, Expired, Holder, Unrun, Becomes, RowTyped, PollTyped, FiberTyped, Fired, Ruled, Live, Done, Places, Superseding, Unfired
        <4>12. occ'[q] # None => fires'[occ'[q]] # "unclaimed"
          BY <1>0, <1>s, <2>0, <2>4 DEF ClaimYields, Claimable, Resumable, Expired, Holder, Unrun, Becomes, RowTyped, PollTyped, FiberTyped, Fired, Ruled, Live, Done, Places, Superseding, Unfired
        <4>13. pc'[q] = "skip" => fires'[occ'[q]] = "skipped"
          BY <1>0, <1>s, <2>0, <2>4 DEF ClaimYields, Claimable, Resumable, Expired, Holder, Unrun, Becomes, RowTyped, PollTyped, FiberTyped, Fired, Ruled, Live, Done, Places, Superseding, Unfired
        <4> QED
          BY <4>11, <4>12, <4>13 DEF Fired, Live, Done
      <3> QED
        BY <3>1, <3>2, <3>3 DEF Recorded
    <2> QED
      BY <2>0, <2>1, <2>2, <2>3, <2>4
  <1> QED
    BY <1>1, <1>2, <1>3, <1>4, <1>5, <1>6, <1>7, <1>8, <1>9, <1>10, <1>11, <1>12 DEF PollStep

(* Those of a fiber are of an occurrence that was claimed.                 *)
LEMMA FiberRecorded ==
  ASSUME Shape, Shape', Recorded, NEW p \in Procs, NEW o \in Occs, Start(p, o) \/ Launched(p, o) \/ Watch(p, o) \/ Settle(p, o) \/ RecordingFails(p, o)
  PROVE  Recorded'
  <1> USE DEF Goto, Set, row, memory, MaxFaults, Overlap
  <1>0. Shape /\ Shape' /\ Ruled /\ Unrun /\ \A q \in Procs : Fired(q)
    BY DEF Recorded
  <1>s. RowTyped /\ PollTyped /\ EntryTyped /\ FiberTyped /\ \A q \in Procs : Places(q)
    BY DEF Shape
  <1>1. CASE Start(p, o)
    <2>1. Ruled'
      BY <1>0, <1>s, <1>1 DEF Start, RowTyped, PollTyped, Ruled, Superseding, Unfired, Places
    <2>2. Unrun'
      BY <1>0, <1>s, <1>1 DEF Start, RowTyped, FiberTyped, Unrun, Ruled, Fired, Live, Done
    <2>3. \A q \in Procs : Fired(q)'
      <3>1. Becomes(p, o, "started") \/ (Becomes(p, o, "failing") /\ faults' # 0)
        BY <1>0, <1>s, <1>1, FiberAt DEF Start, FiberTyped
      <3> QED
        <4> SUFFICES ASSUME NEW q \in Procs PROVE Fired(q)'
          OBVIOUS
        <4>11. ASSUME NEW x \in Occs
              PROVE  /\ fiber'[q][x] # "none" => fires'[x] \notin {"unclaimed", "skipped"}
                     /\ fiber'[q][x] \in {"started", "watching", "blind", "unrecorded"} => run'[x] # "none"
                     /\ fiber'[q][x] = "completing" => run'[x] \in {"ended", "cancelled"}
                     /\ fiber'[q][x] \in {"failing", "blind", "unrecorded"} => faults' # 0
          BY <1>0, <1>s, <1>1, <3>1 DEF Start, Becomes, RowTyped, PollTyped, FiberTyped, Fired, Ruled, Live, Done, Places, Superseding, Unfired
        <4>12. occ'[q] # None => fires'[occ'[q]] # "unclaimed"
          BY <1>0, <1>s, <1>1, <3>1 DEF Start, Becomes, RowTyped, PollTyped, FiberTyped, Fired, Ruled, Live, Done, Places, Superseding, Unfired
        <4>13. pc'[q] = "skip" => fires'[occ'[q]] = "skipped"
          BY <1>0, <1>s, <1>1, <3>1 DEF Start, Becomes, RowTyped, PollTyped, FiberTyped, Fired, Ruled, Live, Done, Places, Superseding, Unfired
        <4> QED
          BY <4>11, <4>12, <4>13 DEF Fired, Live, Done
    <2> QED
      BY <2>1, <2>2, <2>3 DEF Recorded
  <1>2. CASE Launched(p, o)
    <2>1. Ruled'
      BY <1>0, <1>s, <1>2 DEF Launched, RecordResult, RowTyped, PollTyped, Ruled, Superseding, Unfired, Places
    <2>2. Unrun'
      BY <1>0, <1>s, <1>2 DEF Launched, RecordResult, RowTyped, FiberTyped, Unrun, Ruled, Fired, Live, Done
    <2>3. \A q \in Procs : Fired(q)'
      BY <1>0, <1>s, <1>2 DEF Launched, RecordResult, RowTyped, PollTyped, FiberTyped, Fired, Unrun, Ruled, Live, Done, Places
    <2> QED
      BY <2>1, <2>2, <2>3 DEF Recorded
  <1>3. CASE Watch(p, o)
    <2>1. Ruled'
      BY <1>0, <1>s, <1>3 DEF Watch, RowTyped, PollTyped, Ruled, Superseding, Unfired, Places
    <2>2. Unrun'
      BY <1>0, <1>s, <1>3 DEF Watch, RowTyped, FiberTyped, Unrun, Ruled, Fired, Live, Done
    <2>3. \A q \in Procs : Fired(q)'
      <3>1. Becomes(p, o, "completing") \/ (Becomes(p, o, "blind") /\ faults' # 0)
        BY <1>0, <1>s, <1>3, FiberAt DEF Watch, FiberTyped
      <3> QED
        <4> SUFFICES ASSUME NEW q \in Procs PROVE Fired(q)'
          OBVIOUS
        <4>11. ASSUME NEW x \in Occs
              PROVE  /\ fiber'[q][x] # "none" => fires'[x] \notin {"unclaimed", "skipped"}
                     /\ fiber'[q][x] \in {"started", "watching", "blind", "unrecorded"} => run'[x] # "none"
                     /\ fiber'[q][x] = "completing" => run'[x] \in {"ended", "cancelled"}
                     /\ fiber'[q][x] \in {"failing", "blind", "unrecorded"} => faults' # 0
          BY <1>0, <1>s, <1>3, <3>1 DEF Watch, Becomes, RowTyped, PollTyped, FiberTyped, Fired, Ruled, Live, Done, Places, Superseding, Unfired
        <4>12. occ'[q] # None => fires'[occ'[q]] # "unclaimed"
          BY <1>0, <1>s, <1>3, <3>1 DEF Watch, Becomes, RowTyped, PollTyped, FiberTyped, Fired, Ruled, Live, Done, Places, Superseding, Unfired
        <4>13. pc'[q] = "skip" => fires'[occ'[q]] = "skipped"
          BY <1>0, <1>s, <1>3, <3>1 DEF Watch, Becomes, RowTyped, PollTyped, FiberTyped, Fired, Ruled, Live, Done, Places, Superseding, Unfired
        <4> QED
          BY <4>11, <4>12, <4>13 DEF Fired, Live, Done
    <2> QED
      BY <2>1, <2>2, <2>3 DEF Recorded
  <1>4. CASE Settle(p, o)
    <2>1. Ruled'
      BY <1>0, <1>s, <1>4 DEF Settle, RecordResult, Without, RowTyped, PollTyped, Ruled, Superseding, Unfired, Places
    <2>2. Unrun'
      BY <1>0, <1>s, <1>4 DEF Settle, RecordResult, Without, RowTyped, FiberTyped, Unrun, Ruled, Fired, Live, Done
    <2>3. \A q \in Procs : Fired(q)'
      <3> SUFFICES ASSUME NEW q \in Procs PROVE Fired(q)'
        OBVIOUS
      <3>0. /\ Becomes(p, o, "none") /\ UNCHANGED <<run, occ, faults>>
            /\ \E r \in {"completed", "failed"} : fires' = [fires EXCEPT ![o] = r]
        BY <1>4, SettleEffect
      <3>1. \A x \in Occs : /\ fires'[x] = fires[x] \/ fires'[x] \in {"completed", "failed"}
                            /\ fiber'[q][x] # "none" => fiber'[q][x] = fiber[q][x]
        BY <1>s, <3>0 DEF Becomes, RowTyped
      <3>11. ASSUME NEW x \in Occs
            PROVE  /\ fiber'[q][x] # "none" => fires'[x] \notin {"unclaimed", "skipped"}
                   /\ fiber'[q][x] \in {"started", "watching", "blind", "unrecorded"} => run'[x] # "none"
                   /\ fiber'[q][x] = "completing" => run'[x] \in {"ended", "cancelled"}
                   /\ fiber'[q][x] \in {"failing", "blind", "unrecorded"} => faults' # 0
        BY <1>0, <3>0, <3>1 DEF Fired, Live, Done
      <3>12. occ'[q] # None => fires'[occ'[q]] # "unclaimed"
        <4>1. occ[q] # None => occ[q] \in Occs /\ fires[occ[q]] # "unclaimed"
          BY <1>0, <1>s DEF Fired, PollTyped
        <4> QED
          BY <4>1, <3>0, <3>1
      <3>13. pc'[q] = "skip" => fires'[occ'[q]] = "skipped"
        <4>1. pc'[q] = pc[q] /\ fiber[p][o] # "none"
          BY <1>4, SettleEffect
        <4>2. pc[q] = "skip" => occ[q] \in Occs /\ fires[occ[q]] = "skipped"
          BY <1>0, <1>s DEF Fired, Places, Unfired
        <4>3. fires[o] # "skipped"
          BY <1>0, <4>1 DEF Fired, Live
        <4> QED
          BY <1>s, <3>0, <4>1, <4>2, <4>3 DEF RowTyped
      <3> QED
        BY <3>11, <3>12, <3>13 DEF Fired, Live, Done
    <2> QED
      BY <2>1, <2>2, <2>3 DEF Recorded
  <1>5. CASE RecordingFails(p, o)
    <2>0. PICK v \in {"unrecorded", "blind", "none"} :
             /\ Becomes(p, o, v)
             /\ v = "unrecorded" => fiber[p][o] = "started"
             /\ v = "blind" => fiber[p][o] = "completing"
      BY <1>5, FiberAt DEF RecordingFails
    <2>a. faults' # 0 /\ fiber[p][o] # "none" /\ UNCHANGED <<setting, fires, run, pc, occ, prior, pending>>
      BY <1>0, <1>s, <1>5 DEF RecordingFails, FiberTyped
    <2>1. Ruled' /\ Unrun'
      BY <1>0, <2>a DEF Ruled, Unrun, Superseding, Unfired
    <2>3. \A q \in Procs : Fired(q)'
      <3> SUFFICES ASSUME NEW q \in Procs PROVE Fired(q)'
        OBVIOUS
      <3>1. ASSUME NEW x \in Occs
            PROVE  /\ fiber'[q][x] # "none" => fires[x] \notin {"unclaimed", "skipped"}
                   /\ fiber'[q][x] \in {"started", "watching", "blind", "unrecorded"} => run[x] # "none"
                   /\ fiber'[q][x] = "completing" => Done(x)
        <4>1. CASE q = p /\ x = o
          <5>1. fiber'[q][x] = v /\ fires[o] \notin {"unclaimed", "skipped"}
            BY <1>0, <2>0, <2>a, <4>1 DEF Becomes, Fired, Live
          <5>2. /\ v = "unrecorded" => run[o] # "none"
                /\ v = "blind" => Done(o)
            BY <1>0, <2>0 DEF Fired
          <5> QED
            BY <2>0, <4>1, <5>1, <5>2 DEF Done
        <4>2. CASE ~(q = p /\ x = o)
          <5>1. fiber'[q][x] = fiber[q][x]
            BY <2>0, <4>2 DEF Becomes
          <5> QED
            BY <1>0, <5>1 DEF Fired, Live
        <4> QED
          BY <4>1, <4>2
      <3> QED
        BY <1>0, <2>a, <3>1 DEF Fired, Live, Done
    <2> QED
      BY <2>1, <2>3 DEF Recorded
  <1> QED
    BY <1>1, <1>2, <1>3, <1>4, <1>5

(* Failures and the runner change no fire.                                 *)
LEMMA EnvRecorded ==
  ASSUME Shape, Shape', Recorded, NEW p \in Procs, NEW o \in Occs, RunEnds(o) \/ Tick \/ Crash(p) \/ Close(p) \/ PollFails(p)
  PROVE  Recorded'
  <1> USE DEF Goto, Set, row, memory, MaxFaults, Overlap
  <1>0. Shape /\ Shape' /\ Ruled /\ Unrun /\ \A q \in Procs : Fired(q)
    BY DEF Recorded
  <1>s. RowTyped /\ PollTyped /\ EntryTyped /\ FiberTyped /\ \A q \in Procs : Places(q)
    BY DEF Shape
  <1>1. CASE RunEnds(o)
    <2>1. Ruled'
      BY <1>0, <1>s, <1>1 DEF RunEnds, RowTyped, PollTyped, Ruled, Superseding, Unfired, Places
    <2>2. Unrun'
      BY <1>0, <1>s, <1>1 DEF RunEnds, RowTyped, FiberTyped, Unrun, Ruled, Fired, Live, Done
    <2>3. \A q \in Procs : Fired(q)'
      BY <1>0, <1>s, <1>1 DEF RunEnds, RowTyped, PollTyped, FiberTyped, Fired, Unrun, Ruled, Live, Done, Places
    <2> QED
      BY <2>1, <2>2, <2>3 DEF Recorded
  <1>2. CASE Tick
    <2>1. Ruled'
      BY <1>0, <1>s, <1>2 DEF Tick, RowTyped, PollTyped, Ruled, Superseding, Unfired, Places
    <2>2. Unrun'
      BY <1>0, <1>s, <1>2 DEF Tick, RowTyped, FiberTyped, Unrun, Ruled, Fired, Live, Done
    <2>3. \A q \in Procs : Fired(q)'
      BY <1>0, <1>s, <1>2 DEF Tick, RowTyped, PollTyped, FiberTyped, Fired, Unrun, Ruled, Live, Done, Places
    <2> QED
      BY <2>1, <2>2, <2>3 DEF Recorded
  <1>3. CASE Crash(p)
    <2>1. Ruled'
      BY <1>0, <1>s, <1>3 DEF Crash, Restart, RowTyped, PollTyped, Ruled, Superseding, Unfired, Places
    <2>2. Unrun'
      BY <1>0, <1>s, <1>3 DEF Crash, Restart, RowTyped, FiberTyped, Unrun, Ruled, Fired, Live, Done
    <2>3. \A q \in Procs : Fired(q)'
      BY <1>0, <1>s, <1>3 DEF Crash, Restart, RowTyped, PollTyped, FiberTyped, Fired, Unrun, Ruled, Live, Done, Places
    <2> QED
      BY <2>1, <2>2, <2>3 DEF Recorded
  <1>4. CASE Close(p)
    <2>1. Ruled'
      BY <1>0, <1>s, <1>4 DEF Close, Restart, Interrupted, RowTyped, PollTyped, Ruled, Superseding, Unfired, Places
    <2>2. Unrun'
      BY <1>0, <1>s, <1>4 DEF Close, Restart, Interrupted, RowTyped, FiberTyped, Unrun, Ruled, Fired, Live, Done
    <2>3. \A q \in Procs : Fired(q)'
      BY <1>0, <1>s, <1>4 DEF Close, Restart, Interrupted, RowTyped, PollTyped, FiberTyped, Fired, Unrun, Ruled, Live, Done, Places
    <2> QED
      BY <2>1, <2>2, <2>3 DEF Recorded
  <1>5. CASE PollFails(p)
    <2>1. Ruled'
      BY <1>0, <1>s, <1>5 DEF PollFails, RowTyped, PollTyped, Ruled, Superseding, Unfired, Places
    <2>2. Unrun'
      BY <1>0, <1>s, <1>5 DEF PollFails, RowTyped, FiberTyped, Unrun, Ruled, Fired, Live, Done
    <2>3. \A q \in Procs : Fired(q)'
      BY <1>0, <1>s, <1>5 DEF PollFails, RowTyped, PollTyped, FiberTyped, Fired, Unrun, Ruled, Live, Done, Places
    <2> QED
      BY <2>1, <2>2, <2>3 DEF Recorded
  <1> QED
    BY <1>1, <1>2, <1>3, <1>4, <1>5

(* Nothing is recorded at first.                                           *)
LEMMA InitRecorded == Init => Recorded
  BY DEF Init, Recorded, Ruled, Unrun, Fired, Live, Superseding

(* And every step keeps the records.                                       *)
LEMMA NextRecorded == Shape /\ Recorded /\ [Next]_vars => Recorded'
  <1> SUFFICES ASSUME Shape, Recorded, [Next]_vars PROVE Recorded'
    OBVIOUS
  <1>0. Shape'
    BY NextShape
  <1>1. CASE UNCHANGED vars
    BY <1>1 DEF vars, row, memory, Recorded, Ruled, Unrun, Fired, Live, Done, Overlap
  <1>2. CASE Next
    <2>1. ASSUME NEW p \in Procs, PollStep(p) \/ FiberStep(p) \/ PollFails(p) \/ Crash(p) \/ Close(p)
          PROVE  Recorded'
      BY <1>0, <2>1, PollRecorded, FiberRecorded, EnvRecorded, Occurrences DEF FiberStep
    <2>2. ASSUME Tick \/ \E o \in Occs : RunEnds(o) PROVE Recorded'
      BY <1>0, <2>2, EnvRecorded, Occurrences, TriggersAssumption
    <2> QED
      BY <1>2, <2>1, <2>2 DEF Next
  <1> QED
    BY <1>1, <1>2

-----------------------------------------------------------------------------
(* A buffered occurrence is kept *)

(* What has to be kept, or has its run already, is kept by a step; what is *)
(* newly buffered is kept after it.                                        *)
Carries ==
    /\ \A o \in Occs : (fires[o] = "buffered" \/ run[o] # "none") /\ Kept(o) => Kept(o)'
    /\ \A o \in Occs : fires'[o] = "buffered" => fires[o] = "buffered" \/ Kept(o)'
    /\ \A p \in Procs : pc'[p] \in {"buffer", "rebuffer"} =>
          \/ fires'[occ'[p]] = "buffered" /\ Kept(occ[p])'
          \/ /\ pc[p] \in {"buffer", "rebuffer"} /\ occ'[p] = occ[p]
             /\ fires[occ[p]] = "buffered" => fires'[occ[p]] = "buffered" \/ run'[occ[p]] # "none"
             /\ run[occ[p]] # "none" => run'[occ[p]] # "none"
LEMMA Carried ==
  ASSUME Shape, Shape', Buffers, setting' = setting, MaxFaults = 0 => Carries
  PROVE  Buffers'
  <1> SUFFICES ASSUME MaxFaults = 0 PROVE Buffers'
    BY DEF Buffers, MaxFaults
  <1>0. Carries /\ \A p \in Procs : pc[p] \in {"buffer", "rebuffer"} => occ[p] \in Occs
    BY DEF Shape, Places, Unfired
  <1>1. \A o \in Occs : fires'[o] = "buffered" => Kept(o)'
    BY <1>0 DEF Carries, Buffers
  <1>2. ASSUME NEW p \in Procs, pc'[p] \in {"buffer", "rebuffer"}
        PROVE  (fires'[occ'[p]] = "buffered" \/ run'[occ'[p]] # "none") /\ Kept(occ[p])'
    BY <1>0, <1>2 DEF Carries, Buffers
  <1> QED
    BY <1>1, <1>2 DEF Buffers

(* Who keeps an occurrence keeps it, or hands it on.                       *)
LEMMA KeptStays ==
  ASSUME NEW o \in Occs, Kept(o),
         pending = o => Kept(o)',
         run[o] # "none" => run'[o] # "none",
         \A q \in Procs : (pc[q] = "resume" /\ occ[q] = o) \/ Live(q, o) => Kept(o)',
         \A x \in Occs : fires[x] # "unclaimed" => fires'[x] # "unclaimed"
  PROVE  Kept(o)'
  BY DEF Kept

(* A step that leaves fires, runs and fibers alone.                        *)
LEMMA IdleCarries ==
  ASSUME UNCHANGED <<fires, pending, run, fiber, occ>>,
         \A q \in Procs : pc'[q] = pc[q] \/ (pc[q] # "resume" /\ pc'[q] \notin {"buffer", "rebuffer"})
  PROVE  Carries
  <1>1. ASSUME NEW o \in Occs, Kept(o) PROVE Kept(o)'
    BY <1>1 DEF Kept, Live
  <1> QED
    BY <1>1 DEF Carries

(* A poll hands what is pending to its claim, and the claim to its fiber.  *)
LEMMA PollBuffers ==
  ASSUME Shape, Shape', Recorded, Buffers, MaxFaults = 0, Overlap = "buffer-one", NEW p \in Procs, PollStep(p)
  PROVE  Carries
  <1> USE DEF Goto, Set, row, memory
  <1>0. RowTyped /\ PollTyped /\ FiberTyped /\ Places(p) /\ Ruled /\ \A q \in Procs : Fired(q)
    BY DEF Shape, Recorded
  <1>1. CASE Poll(p) \/ ResolveLocal(p) \/ ClearLocal(p) \/ ResolveStored(p) \/ ClearStored(p)
    <2>1. /\ UNCHANGED <<fires, pending, run, fiber, occ>>
          /\ \A q \in Procs : pc'[q] = pc[q] \/ (pc[q] # "resume" /\ pc'[q] \notin {"buffer", "rebuffer"})
      BY <1>0, <1>1 DEF Poll, ResolveLocal, ClearLocal, ResolveStored, ClearStored, ClearActive, PollTyped
    <2> QED
      BY <2>1, IdleCarries
  <1>2. CASE Due(p)
    <2>1. /\ UNCHANGED <<fires, pending, run, fiber, occ>>
          /\ \A q \in Procs : pc'[q] = pc[q] \/ (pc[q] # "resume" /\ pc'[q] \notin {"buffer", "rebuffer"})
      BY <1>0, <1>2, DueEffect DEF PollTyped
    <2> QED
      BY <2>1, IdleCarries
  <1>3. CASE TakePending(p)
    <2>1. /\ UNCHANGED <<fires, run, fiber>> /\ pc[p] = "pending"
          /\ \A q \in Procs \ {p} : pc'[q] = pc[q] /\ occ'[q] = occ[q]
          /\ occ'[p] = pending /\ pc'[p] = IF pending = None THEN "due" ELSE "resume"
      BY <1>0, <1>3 DEF TakePending, PollTyped
    <2>2. ASSUME NEW o \in Occs, Kept(o) PROVE Kept(o)'
      <3>1. pending = o => Kept(o)'
        BY <2>1, Occurrences DEF Kept
      <3>2. \A q \in Procs : (pc[q] = "resume" /\ occ[q] = o) \/ Live(q, o) => Kept(o)'
        BY <2>1 DEF Kept, Live
      <3> QED
        BY <2>1, <2>2, <3>1, <3>2, KeptStays
    <2> QED
      BY <2>1, <2>2 DEF Carries
  <1>4. CASE RecordUnfired(p)
    <2>0. /\ fires' = [fires EXCEPT ![occ[p]] = IF pc[p] = "skip" THEN "skipped" ELSE "buffered"]
          /\ pc[p] \in {"skip", "buffer", "rebuffer"} /\ occ[p] \in Occs
          /\ UNCHANGED <<pending, run, fiber>> /\ pc'[p] \in {"due", "idle", "each"}
          /\ \A q \in Procs \ {p} : pc'[q] = pc[q] /\ occ'[q] = occ[q]
      BY <1>0, <1>4, UnfiredEffect DEF PollTyped, Unfired
    <2>1. ASSUME NEW o \in Occs, Kept(o) PROVE Kept(o)'
      <3>1. \A x \in Occs : fires[x] # "unclaimed" => fires'[x] # "unclaimed"
        BY <1>0, <2>0 DEF RowTyped
      <3>2. \A q \in Procs : (pc[q] = "resume" /\ occ[q] = o) \/ Live(q, o) => Kept(o)'
        BY <2>0 DEF Kept, Live
      <3>3. pending = o => Kept(o)'
        BY <2>0 DEF Kept
      <3> QED
        BY <2>0, <2>1, <3>1, <3>2, <3>3, KeptStays
    <2>2. pc[p] \in {"buffer", "rebuffer"} => Kept(occ[p])
      BY <1>0 DEF Buffers
    <2>3. \A o \in Occs : fires'[o] = "buffered" => fires[o] = "buffered" \/ Kept(o)'
      BY <1>0, <2>0, <2>1, <2>2 DEF RowTyped
    <2>4. \A q \in Procs \ {p} : pc[q] \in {"buffer", "rebuffer"} => pc[p] # "skip"
      BY <1>0 DEF Ruled
    <2>5. ASSUME NEW q \in Procs, pc'[q] \in {"buffer", "rebuffer"}
          PROVE  /\ pc[q] \in {"buffer", "rebuffer"} /\ occ'[q] = occ[q]
                 /\ fires[occ[q]] = "buffered" => fires'[occ[q]] = "buffered" \/ run'[occ[q]] # "none"
                 /\ run[occ[q]] # "none" => run'[occ[q]] # "none"
      <3>1. q # p /\ pc[q] \in {"buffer", "rebuffer"} /\ occ'[q] = occ[q] /\ pc[p] # "skip"
        BY <2>0, <2>4, <2>5
      <3>2. occ[q] \in Occs
        BY <3>1 DEF Shape, Places, Unfired
      <3> QED
        BY <1>0, <2>0, <3>1, <3>2 DEF RowTyped
    <2> QED
      BY <2>1, <2>3, <2>5 DEF Carries
  <1>5. CASE Interrupt(p) \/ Cancel(p) \/ Superseded(p)
    BY <1>0, <1>5 DEF Interrupt, Cancel, Superseded, Superseding, Ruled
  <1>6. CASE Claim(p)
    <2>0. PICK o \in Occs :
             /\ o = Chosen(p)
             /\ ClaimLost(p) \/ ClaimFires(p, o) \/ ClaimSupersedes(p, o) \/ ClaimYields(p, o)
      BY <1>6, TypeParts, ClaimCases DEF Shape
    <2>r. /\ \A q \in Procs : (pc[q] = "resume" => occ[q] \in Occs)
          /\ pc[p] = "resume" => o = occ[p]
      BY <2>0 DEF Shape, Places, Chosen
    <2>c. ~ClaimSupersedes(p, o)
      BY DEF ClaimSupersedes
    <2>1. CASE ClaimLost(p)
      <3>1. /\ UNCHANGED <<fires, pending, run, fiber>> /\ pc'[p] \in {"due", "idle", "each"}
            /\ \A q \in Procs \ {p} : pc'[q] = pc[q] /\ occ'[q] = occ[q]
        BY <1>0, <2>1 DEF ClaimLost, Claims, After, PollTyped
      <3>2. pc[p] = "resume" => fires[o] # "buffered"
        BY <2>0, <2>1 DEF ClaimLost, Claimable, Resumable
      <3>3. ASSUME NEW x \in Occs, fires[x] = "buffered", Kept(x) PROVE Kept(x)'
        BY <2>r, <3>1, <3>2, <3>3 DEF Kept, Live
      <3>4. ASSUME NEW x \in Occs, run[x] # "none" PROVE Kept(x)'
        BY <3>1, <3>4 DEF Kept
      <3> QED
        BY <3>1, <3>3, <3>4 DEF Carries
    <2>2. CASE ClaimFires(p, o)
      <3>1. /\ UNCHANGED <<pending, run>> /\ pc'[p] \in {"due", "idle", "each"}
            /\ \A q \in Procs \ {p} : pc'[q] = pc[q] /\ occ'[q] = occ[q]
            /\ fires' = [fires EXCEPT ![o] = IF @ = "unclaimed" THEN "claimed" ELSE @]
        BY <1>0, <2>2 DEF ClaimFires, Reserves, Claims, After, PollTyped
      <3>2. Becomes(p, o, "starting")
        BY <2>0, <2>2, FiberAt DEF ClaimFires, Launch
      <3>3. \A x \in Occs : /\ fires[x] # "unclaimed" => fires'[x] = fires[x]
                            /\ fires'[x] = "buffered" => fires[x] = "buffered"
        BY <1>0, <2>0, <3>1 DEF RowTyped
      <3>4. ASSUME NEW x \in Occs, Kept(x) PROVE Kept(x)'
        <4>1. \A q \in Procs : (pc[q] = "resume" /\ occ[q] = x) \/ Live(q, x) => Kept(x)'
          BY <2>0, <2>r, <3>1, <3>2 DEF Kept, Live, Becomes
        <4>2. pending = x => Kept(x)'
          BY <3>1 DEF Kept
        <4> QED
          BY <3>1, <3>3, <3>4, <4>1, <4>2, KeptStays
      <3>5. \A q \in Procs : pc[q] \in {"buffer", "rebuffer"} => occ[q] \in Occs
        BY DEF Shape, Places, Unfired
      <3> QED
        BY <3>1, <3>3, <3>4, <3>5 DEF Carries
    <2>3. CASE ClaimYields(p, o)
      <3>1. /\ UNCHANGED <<run, fiber>> /\ pc'[p] \in {"rebuffer", "buffer"} /\ occ'[p] = o
            /\ \A q \in Procs \ {p} : pc'[q] = pc[q] /\ occ'[q] = occ[q]
            /\ fires' = [fires EXCEPT ![o] = "buffered"]
            /\ pending' = IF pending = None \/ pending < o THEN o ELSE pending
        BY <1>0, <2>3 DEF ClaimYields, Claims, PollTyped
      <3>2. \A x \in Occs : /\ fires[x] # "unclaimed" => fires'[x] # "unclaimed"
                            /\ fires[x] = "buffered" => fires'[x] = "buffered"
                            /\ x # o => fires'[x] = fires[x]
                            /\ fires'[o] = "buffered"
        BY <1>0, <2>0, <3>1 DEF RowTyped
      <3>3. \A x \in Occs : pending # None /\ pending' > x => Kept(x)'
        BY <1>0, <2>0, <3>1, <3>2 DEF Kept, RowTyped, Ruled
      <3>4. Kept(o)'
        <4>1. CASE pending' = o
          BY <4>1 DEF Kept
        <4>2. CASE pending' # o
          <5>1. pending # None /\ pending \in Occs /\ pending' = pending /\ pending > o
            BY <1>0, <2>0, <3>1, <4>2, Occurrences DEF RowTyped
          <5> QED
            BY <2>0, <3>3, <5>1
        <4> QED
          BY <4>1, <4>2
      <3>5. ASSUME NEW x \in Occs, Kept(x) PROVE Kept(x)'
        <4>1. \A q \in Procs : (pc[q] = "resume" /\ occ[q] = x) \/ Live(q, x) => Kept(x)'
          BY <2>0, <2>r, <3>1, <3>4 DEF Kept, Live
        <4>2. ASSUME pending = x PROVE Kept(x)'
          <5>1. CASE pending' = x
            BY <5>1 DEF Kept
          <5>2. CASE pending' # x
            <6>1. pending # None /\ pending' > x
              BY <2>0, <3>1, <4>2, <5>2, Occurrences
            <6> QED
              BY <3>3, <6>1
          <5> QED
            BY <5>1, <5>2
        <4> QED
          BY <3>1, <3>2, <3>5, <4>1, <4>2, KeptStays
      <3>6. \A q \in Procs : pc[q] \in {"buffer", "rebuffer"} => occ[q] \in Occs
        BY DEF Shape, Places, Unfired
      <3>7. ASSUME NEW q \in Procs, pc'[q] \in {"buffer", "rebuffer"}
            PROVE  \/ fires'[occ'[q]] = "buffered" /\ Kept(occ[q])'
                   \/ /\ pc[q] \in {"buffer", "rebuffer"} /\ occ'[q] = occ[q]
                      /\ fires[occ[q]] = "buffered" => fires'[occ[q]] = "buffered" \/ run'[occ[q]] # "none"
                      /\ run[occ[q]] # "none" => run'[occ[q]] # "none"
        <4>1. CASE q = p
          <5>1. occ'[q] = o
            BY <3>1, <4>1
          <5> QED
            BY <2>0, <3>2, <3>4, <5>1 DEF Kept
        <4>2. CASE q # p
          BY <3>1, <3>2, <3>6, <3>7, <4>2
        <4> QED
          BY <4>1, <4>2
      <3> QED
        BY <3>2, <3>4, <3>5, <3>7 DEF Carries
    <2> QED
      BY <2>0, <2>c, <2>1, <2>2, <2>3
  <1> QED
    BY <1>1, <1>2, <1>3, <1>4, <1>5, <1>6 DEF PollStep

(* A fiber that holds a buffered occurrence starts its run.                *)
LEMMA FiberBuffers ==
  ASSUME Shape, Shape', Recorded, Recorded', Buffers, MaxFaults = 0, NEW p \in Procs, NEW o \in Occs,
         Start(p, o) \/ Launched(p, o) \/ Watch(p, o) \/ Settle(p, o) \/ RecordingFails(p, o)
  PROVE  Carries
  <1>0. RowTyped /\ PollTyped /\ FiberTyped /\ \A q \in Procs : Fired(q)
    BY DEF Shape, Recorded
  <1>1. faults = 0 /\ ~(faults < MaxFaults)
    BY <1>0 DEF FiberTyped
  <1>2. /\ UNCHANGED <<pending, pc, occ>>
        /\ \A x \in Occs : /\ fires[x] # "unclaimed" => fires'[x] # "unclaimed"
                           /\ run[x] # "none" => run'[x] # "none"
                           /\ fires'[x] = "buffered" => fires[x] = "buffered"
                           /\ fires[x] = "buffered" => fires'[x] = "buffered" \/ run'[x] # "none"
                           /\ \A q \in Procs : Live(q, x) => Live(q, x)' \/ run'[x] # "none"
    <2>1. CASE Start(p, o)
      <3>1. Becomes(p, o, "started")
        BY <1>1, <2>1, FiberAt DEF Start
      <3> QED
        BY <1>0, <1>1, <2>1, <3>1 DEF Start, Becomes, Live, FiberTyped, row
    <2>2. CASE Launched(p, o)
      <3>1. Becomes(p, o, "watching") /\ fires' = [fires EXCEPT ![o] = "launched"] /\ pending' = pending
        BY <2>2, FiberAt DEF Launched, RecordResult
      <3>2. run[o] # "none"
        BY <1>0, <2>2 DEF Launched, Fired
      <3> QED
        BY <1>0, <2>2, <3>1, <3>2 DEF Launched, Becomes, Live, RowTyped, memory
    <2>3. CASE Watch(p, o)
      <3>1. Becomes(p, o, "completing")
        BY <1>1, <2>3, FiberAt DEF Watch
      <3> QED
        BY <1>0, <1>1, <2>3, <3>1 DEF Watch, Becomes, Live, row, memory
    <2>4. CASE Settle(p, o)
      <3>1. run[o] # "none" /\ fiber[p][o] = "completing"
        BY <1>0, <1>1, <2>4, SettleEffect DEF Fired, Done
      <3>2. fires' = [fires EXCEPT ![o] = "completed"] /\ Becomes(p, o, "none")
        BY <2>4, <3>1, SettleEffect
      <3>3. UNCHANGED <<pending, pc, occ, run>>
        BY <2>4, SettleEffect
      <3> QED
        BY <1>0, <3>1, <3>2, <3>3 DEF Becomes, Live, RowTyped
    <2>5. ~RecordingFails(p, o)
      BY <1>1 DEF RecordingFails
    <2> QED
      BY <2>1, <2>2, <2>3, <2>4, <2>5
  <1>3. ASSUME NEW x \in Occs, Kept(x) PROVE Kept(x)'
    BY <1>2, <1>3 DEF Kept
  <1>4. \A q \in Procs : pc[q] \in {"buffer", "rebuffer"} => occ[q] \in Occs
    BY DEF Shape, Places, Unfired
  <1> QED
    BY <1>2, <1>3, <1>4 DEF Carries

(* Nothing else takes it away, unless a scheduler fails.                   *)
LEMMA EnvBuffers ==
  ASSUME Shape, MaxFaults = 0, NEW p \in Procs, NEW o \in Occs,
         RunEnds(o) \/ Tick \/ Crash(p) \/ Close(p) \/ PollFails(p)
  PROVE  Carries
  <1>0. ~(faults < MaxFaults)
    BY DEF Shape, FiberTyped
  <1>1. CASE Tick
    <2>1. UNCHANGED <<fires, pending, run, fiber, occ, pc>>
      BY <1>1 DEF Tick, row, memory
    <2> QED
      BY <2>1, IdleCarries
  <1>2. CASE RunEnds(o)
    <2>1. UNCHANGED <<fires, pending, fiber, occ, pc>> /\ \A x \in Occs : run[x] # "none" => run'[x] # "none"
      BY <1>2 DEF RunEnds, row, memory, Shape, FiberTyped
    <2>2. ASSUME NEW x \in Occs, Kept(x) PROVE Kept(x)'
      BY <2>1, <2>2 DEF Kept, Live
    <2>3. \A q \in Procs : pc[q] \in {"buffer", "rebuffer"} => occ[q] \in Occs
      BY DEF Shape, Places, Unfired
    <2> QED
      BY <2>1, <2>2, <2>3 DEF Carries
  <1> QED
    BY <1>0, <1>1, <1>2 DEF Crash, Close, PollFails, Restart

(* Every step keeps what is buffered.                                      *)
LEMMA NextBuffers == Shape /\ Recorded /\ Buffers /\ [Next]_vars => Buffers'
  <1> SUFFICES ASSUME Shape, Recorded, Buffers, [Next]_vars PROVE Buffers'
    OBVIOUS
  <1>0. Shape' /\ Recorded'
    BY NextShape, NextRecorded
  <1>1. CASE UNCHANGED vars
    BY <1>1 DEF vars, row, memory, Buffers, Kept, Live, MaxFaults
  <1>2. CASE Next
    <2>0. UNCHANGED setting
      BY <1>2, SettingFixed
    <2>1. CASE Overlap # "buffer-one"
      BY <1>0, <2>0, <2>1 DEF Recorded, Ruled, Buffers, Overlap
    <2>2. CASE Overlap = "buffer-one" /\ MaxFaults = 0
      <3>1. ASSUME NEW p \in Procs, PollStep(p) \/ FiberStep(p) \/ PollFails(p) \/ Crash(p) \/ Close(p)
            PROVE  Carries
        BY <1>0, <2>2, <3>1, PollBuffers, FiberBuffers, EnvBuffers, Occurrences DEF FiberStep
      <3>2. ASSUME Tick \/ \E o \in Occs : RunEnds(o) PROVE Carries
        BY <2>2, <3>2, EnvBuffers, Occurrences, TriggersAssumption
      <3>3. Carries
        BY <1>2, <3>1, <3>2 DEF Next
      <3> QED
        BY <1>0, <2>0, <3>3, Carried
    <2>3. CASE MaxFaults # 0
      BY <2>0, <2>3 DEF Buffers, MaxFaults
    <2> QED
      BY <2>1, <2>2, <2>3
  <1> QED
    BY <1>1, <1>2

(* At first nothing is buffered.                                           *)
LEMMA InitBuffers == Init => Buffers
  BY DEF Init, Buffers

-----------------------------------------------------------------------------
(* A lone scheduler that neither fails nor supersedes *)

(* Who is not composed does nothing, and in one setting only one is.       *)
Lone(p) == setting.procs = {p}
LEMMA OnlyOne ==
  ASSUME Shape, Alone
  PROVE  \E p \in Procs : Lone(p)
  <1>1. setting.procs \subseteq Procs
    BY TriggersAssumption DEF Shape, FiberTyped
  <1>2. IsFiniteSet(setting.procs)
    BY <1>1, TriggersAssumption, FS_Subset
  <1>3. \E p : setting.procs = {p}
    BY <1>2, FS_Singleton DEF Alone
  <1> QED
    BY <1>1, <1>3 DEF Lone

(* So every step is its own, or the environment's.                         *)
LoneStep(p) ==
    \/ PollStep(p) \/ PollFails(p) \/ Crash(p) \/ Close(p)
    \/ \E o \in Occs : Start(p, o) \/ Launched(p, o) \/ Watch(p, o) \/ Settle(p, o) \/ RecordingFails(p, o) \/ RunEnds(o)
    \/ Tick
LEMMA LoneSteps ==
  ASSUME Shape, NEW p \in Procs, Lone(p), Next
  PROVE  LoneStep(p)
  <1>1. ASSUME NEW q \in Procs, q # p
        PROVE  q \notin setting.procs /\ pc[q] = "idle" /\ \A o \in Occs : fiber[q][o] = "none"
    BY <1>1 DEF Shape, Places, Lone, Live
  <1>2. ASSUME NEW q \in Procs, q # p, PollStep(q) PROVE FALSE
    BY <1>1, <1>2 DEF PollStep, Poll, ResolveLocal, ClearLocal, ResolveStored, ClearStored, TakePending, Due,
                      Claim, RecordUnfired, Interrupt, Cancel, Superseded
  <1>3. ASSUME NEW q \in Procs, q # p, PollFails(q) \/ Crash(q) \/ Close(q) PROVE FALSE
    BY <1>1, <1>3 DEF PollFails, Crash, Close, Restart
  <1>4. ASSUME NEW q \in Procs, q # p, FiberStep(q) PROVE FALSE
    BY <1>1, <1>4 DEF FiberStep, Start, Launched, Watch, Settle, RecordingFails
  <1> QED
    BY <1>2, <1>3, <1>4 DEF Next, FiberStep, LoneStep

(* The entry of a fiber is one.                                            *)
LEMMA EntryHeld ==
  ASSUME NEW p \in Procs, NEW o \in Occs, Entered(p, o)
  PROVE  local[p] \in Entry /\ local[p] # None /\ local[p].occ = o /\ local[p].fiber
  <1>1. PICK i \in Ids : local[p] = [occ |-> o, fiber |-> TRUE, id |-> i]
    BY Identities DEF Entered
  <1>2. [occ |-> o, fiber |-> TRUE, id |-> i] \in Entry
    BY DEF Entry
  <1>3. local[p].occ = o /\ local[p].fiber
    BY <1>1
  <1>4. None \notin Entry
    BY TriggersAssumption
  <1> QED
    BY <1>1, <1>2, <1>3, <1>4

(* An entry that changes its id keeps the rest.                            *)
LEMMA RunEntry ==
  ASSUME NEW e \in Entry, NEW i, NEW g, g = [e EXCEPT !.id = i], e.fiber = TRUE
  PROVE  g = [occ |-> e.occ, fiber |-> TRUE, id |-> i]
  <1>1. g \in [occ : {e.occ}, id : {i}, fiber : {TRUE}]
    BY DEF Entry
  <1> QED
    BY <1>1

(* It has one fiber at most; a step that touches neither keeps it.         *)
LEMMA SoleFiber ==
  ASSUME NEW p \in Procs, Sole(p), NEW o \in Occs, NEW x \in Occs, Live(p, o), Live(p, x)
  PROVE  x = o
  <1>1. Entered(p, o) /\ Entered(p, x)
    BY DEF Sole
  <1> QED
    BY <1>1 DEF Entered
LEMMA SoleStays ==
  ASSUME NEW p \in Procs, Sole(p), UNCHANGED <<active, since, now, began, run, fiber, local>>,
         pc'[p] \notin {"clear", "clearStored", "rebuffer"},
         \A o \in Occs : Live(p, o) =>
            pc'[p] \notin {"stored", "pending", "resume"} /\ (pc'[p] \in Unfired => occ'[p] # o)
  PROVE  Sole(p)'
  BY DEF Sole, Live, Entered, InTime

(* While its fiber lives the row is held, by a lease that is not over.     *)
LEMMA SoleHeld ==
  ASSUME Shape, NEW p \in Procs, Sole(p), NEW o \in Occs, Live(p, o)
  PROVE  active # None /\ ~Expired
  <1>1. \/ fiber[p][o] \in Starting /\ active = Reservation(o) /\ InTime(o)
        \/ active = Run(o)
    BY DEF Sole, Shape, FiberTyped, Live, Starting, Watched
  <1>2. active = Run(o) => active # None /\ ~Expired
    BY Identities DEF Expired
  <1>3. ASSUME active = Reservation(o), InTime(o) PROVE active # None /\ ~Expired
    <2>1. active # None
      BY <1>3, Identities
    <2>2. now \in Nat /\ Lease \in Nat
      BY Occurrences, TriggersAssumption DEF Shape, RowTyped
    <2>3. PICK b : b = began[o]
      OBVIOUS
    <2>4. b \in Occs /\ since \in Occs /\ since >= b /\ now < b + Lease
      BY <1>3, <2>3 DEF Shape, RowTyped, InTime
    <2>5. b \in Nat /\ since \in Nat
      BY <2>4, Occurrences
    <2>6. ~(since <= now - Lease)
      BY <2>2, <2>4, <2>5
    <2> QED
      BY <2>1, <2>6 DEF Expired
  <1> QED
    BY <1>1, <1>2, <1>3

(* Its poll claims while the row is free, and yields while it is held.     *)
LEMMA SolePoll ==
  ASSUME Shape, Shape', Recorded, NEW p \in Procs, Sole(p), MaxFaults = 0, Overlap # "supersede", PollStep(p)
  PROVE  Sole(p)'
  <1> USE DEF Goto, Set, row, memory
  <1>0. RowTyped /\ PollTyped /\ EntryTyped /\ FiberTyped /\ Places(p) /\ Fired(p) /\ Ruled
    BY DEF Shape, Recorded
  <1>d. p \in DOMAIN pc /\ p \in DOMAIN occ /\ p \in DOMAIN local
    BY <1>0 DEF PollTyped, EntryTyped
  <1>n. pc[p] \in {"stored", "pending", "resume"} =>
          (\A o \in Occs : ~Live(p, o)) /\ active = None /\ local[p] = None
    BY DEF Sole
  <1>1. CASE Poll(p)
    <2>1. pc'[p] = "resolve" /\ UNCHANGED <<active, since, now, began, run, fiber, local>>
      BY <1>d, <1>1 DEF Poll
    <2> QED
      BY <2>1, SoleStays DEF Unfired
  <1>2. CASE ResolveLocal(p)
    <2>1. UNCHANGED <<active, since, now, began, run, fiber, local>>
      BY <1>2 DEF ResolveLocal
    <2>2. CASE local[p] = None
      <3>1. \A o \in Occs : ~Live(p, o)
        BY <2>2, EntryHeld DEF Sole
      <3>2. pc'[p] = "stored"
        BY <1>d, <1>2, <2>2 DEF ResolveLocal
      <3> QED
        BY <2>1, <3>1, <3>2, SoleStays
    <2>3. CASE local[p] # None
      <3>1. PICK o \in Occs : Live(p, o)
        BY <2>3 DEF Sole
      <3>2. Entered(p, o)
        BY <3>1 DEF Sole
      <3>3. LiveFiber(p, local[p])
        BY <3>1, <3>2, Occurrences DEF Entered, LiveFiber
      <3>4. pc'[p] = "due"
        BY <1>d, <1>2, <2>3, <3>3 DEF ResolveLocal
      <3> QED
        BY <2>1, <3>4, SoleStays DEF Unfired
    <2> QED
      BY <2>2, <2>3
  <1>3. CASE ClearLocal(p) \/ ClearStored(p)
    BY <1>3 DEF ClearLocal, ClearStored, Sole
  <1>4. CASE ResolveStored(p)
    <2>1. (\A o \in Occs : ~Live(p, o)) /\ active = None /\ local[p] = None
      BY <1>n, <1>4 DEF ResolveStored
    <2>2. Holder = None
      BY <2>1 DEF Holder
    <2>3. pc'[p] = "pending" /\ active' = None /\ UNCHANGED <<now, began, run, fiber, local>>
      BY <1>d, <1>4, <2>2 DEF ResolveStored
    <2> QED
      BY <2>1, <2>3 DEF Sole, Live
  <1>5. CASE TakePending(p)
    <2>1. pc'[p] \in {"due", "resume"} /\ UNCHANGED <<active, since, now, began, run, fiber, local>>
      BY <1>d, <1>5 DEF TakePending
    <2>2. \A o \in Occs : ~Live(p, o)
      BY <1>n, <1>5 DEF TakePending
    <2> QED
      BY <2>1, <2>2, SoleStays
  <1>6. CASE Due(p)
    <2>1. pc'[p] \in {"idle", "each"} /\ UNCHANGED <<active, since, now, began, run, fiber, local>>
      BY <1>6, DueEffect
    <2> QED
      BY <2>1, SoleStays DEF Unfired
  <1>7. CASE RecordUnfired(p)
    <2>1. /\ occ[p] \in Occs /\ pc[p] \in Unfired /\ pc'[p] \in {"due", "idle", "each"}
          /\ \/ active # Reservation(occ[p]) /\ active' = active /\ since' = since
             \/ active = Reservation(occ[p]) /\ active' = None /\ since' = None
          /\ UNCHANGED <<now, began, run, fiber, local>>
      BY <1>7, UnfiredEffect
    <2>2. active # Reservation(occ[p])
      <3>1. CASE \A o \in Occs : ~Live(p, o)
        BY <2>1, <3>1, Identities DEF Sole
      <3>2. ASSUME NEW o \in Occs, Live(p, o) PROVE active # Reservation(occ[p])
        <4>1. occ[p] # o /\ (active = Reservation(o) \/ active = Run(o))
          BY <1>0, <2>1, <3>2 DEF Sole, Starting, Watched, FiberTyped, Live
        <4> QED
          BY <2>1, <4>1, Identities
      <3> QED
        BY <3>1, <3>2
    <2> QED
      BY <2>1, <2>2, SoleStays DEF Unfired
  <1>8. CASE Interrupt(p) \/ Cancel(p) \/ Superseded(p)
    BY <1>0, <1>8 DEF Interrupt, Cancel, Superseded, Ruled, Superseding
  <1>9. CASE Claim(p)
    <2>1. PICK o \in Occs : ClaimLost(p) \/ ClaimFires(p, o) \/ ClaimYields(p, o)
      BY <1>0, <1>9, TypeParts, ClaimCases DEF ClaimSupersedes
    <2>2. CASE ClaimLost(p)
      <3>1. pc'[p] \in {"due", "idle", "each"} /\ UNCHANGED <<active, since, now, began, run, fiber, local>>
        BY <1>d, <2>2 DEF ClaimLost, Claims, After
      <3> QED
        BY <3>1, SoleStays DEF Unfired
    <2>3. CASE ClaimFires(p, o)
      <3>1. \A x \in Occs : ~Live(p, x)
        BY <2>3, SoleHeld DEF ClaimFires, Holder
      <3>2. \A x \in Occs : run[x] # "active"
        BY <3>1 DEF Sole, Live
      <3>3. /\ pc'[p] \in {"due", "idle", "each"} /\ active' = Reservation(o) /\ since' = now /\ began'[o] = now
            /\ UNCHANGED <<now, run>> /\ local'[p] = [occ |-> o, id |-> Reservation(o), fiber |-> TRUE]
        BY <1>0, <1>d, <2>3 DEF ClaimFires, Reserves, Claims, Launch, After, RowTyped
      <3>4. Becomes(p, o, "starting")
        BY <2>3, FiberAt DEF ClaimFires, Launch
      <3>5. \A x \in Occs : Live(p, x)' => x = o
        BY <3>1, <3>4 DEF Becomes, Live
      <3>6. fiber'[p][o] = "starting"
        BY <3>4 DEF Becomes
      <3>7. InTime(o)'
        BY <1>0, <3>3, Occurrences, TriggersAssumption DEF InTime, RowTyped
      <3>8. Entered(p, o)'
        BY <3>3, <3>6 DEF Entered
      <3> QED
        BY <3>2, <3>3, <3>5, <3>6, <3>7, <3>8 DEF Sole, Starting, Watched, Unfired, Live
    <2>4. CASE ClaimYields(p, o)
      <3>1. PICK x \in Occs : Live(p, x)
        BY <2>4 DEF ClaimYields, Sole
      <3>2. pc[p] = "each" /\ active # None /\ ~Expired
        BY <2>4, <3>1 DEF ClaimYields, Claims, Sole
      <3>3. fires[o] \in {"unclaimed"}
        BY <2>4, <3>2 DEF ClaimYields, Claimable, Resumable
      <3>4. \A y \in Occs : Live(p, y) => y # o
        BY <1>0, <3>3 DEF Fired
      <3>5. pc'[p] \in {"skip", "buffer"} /\ occ'[p] = o /\ UNCHANGED <<active, since, now, began, run, fiber, local>>
        BY <1>d, <2>4, <3>2 DEF ClaimYields, Claims
      <3> QED
        BY <3>4, <3>5, SoleStays
    <2> QED
      BY <2>1, <2>2, <2>3, <2>4
  <1> QED
    BY <1>1, <1>2, <1>3, <1>4, <1>5, <1>6, <1>7, <1>8, <1>9 DEF PollStep

(* Its fiber hands the row from the reservation to the run, and frees it.  *)
LEMMA SoleLaunch ==
  ASSUME Shape, Shape', Recorded, NEW p \in Procs, NEW o \in Occs, Sole(p), MaxFaults = 0,
         Start(p, o) \/ Launched(p, o) \/ Watch(p, o) \/ Settle(p, o) \/ RecordingFails(p, o)
  PROVE  Sole(p)'
  <1>0. RowTyped /\ PollTyped /\ EntryTyped /\ FiberTyped /\ Places(p) /\ Fired(p) /\ faults = 0
    BY DEF Shape, Recorded, FiberTyped
  <1>1. fiber[p][o] # "none"
    BY DEF Start, Launched, Watch, Settle, RecordingFails
  <1>2. Entered(p, o) /\ \A x \in Occs : Live(p, x) => x = o
    BY <1>1, SoleFiber DEF Sole, Live
  <1>3. /\ pc[p] \notin {"stored", "pending", "resume", "clear", "clearStored", "rebuffer"}
        /\ pc[p] \in Unfired => occ[p] # o
    BY <1>1 DEF Sole, Live
  <1>4. \A x \in Occs : run[x] = "active" => x = o
    BY <1>2 DEF Sole, Live
  <1>5. CASE Start(p, o)
    <2>1. /\ fiber[p][o] = "starting" /\ Becomes(p, o, "started")
          /\ UNCHANGED <<now, active, since, began, pc, occ>>
      BY <1>0, <1>5, FiberAt DEF Start, row
    <2>2. local[p] = [occ |-> o, fiber |-> TRUE, id |-> Reservation(o)]
      BY <1>2, <2>1 DEF Entered
    <2>3. \A x \in Occs : run'[x] = "active" => run[x] = "active" \/ x = o
      BY <1>0, <1>5 DEF Start, FiberTyped
    <2>4. local'[p] = [occ |-> o, fiber |-> TRUE, id |-> Run(o)]
      <3>1. local[p] # None /\ local[p].occ = o
        BY <1>2, EntryHeld
      <3>2. local' = [local EXCEPT ![p].id = Run(o)]
        BY <1>0, <1>5, <3>1 DEF Start
      <3>3. p \in DOMAIN local
        BY <1>0 DEF EntryTyped
      <3>4. local'[p] = [local[p] EXCEPT !.id = Run(o)]
        BY <3>2, <3>3
      <3>5. local[p] \in Entry /\ local[p].fiber = TRUE
        BY <1>2, <2>2, EntryHeld
      <3> QED
        BY <3>1, <3>4, <3>5, RunEntry, Zenon
    <2>5. active = Reservation(o) /\ InTime(o)
      BY <1>1, <2>1 DEF Sole, Starting, Live
    <2> QED
      BY <1>2, <1>3, <1>4, <2>1, <2>3, <2>4, <2>5 DEF Sole, Becomes, Live, Entered, InTime, Starting, Watched
  <1>6. CASE Launched(p, o)
    <2>1. /\ fiber[p][o] = "started" /\ Becomes(p, o, "watching") /\ active' = Run(o)
          /\ UNCHANGED <<now, began, pc, occ, run, local>>
      BY <1>6, FiberAt DEF Launched, RecordResult, memory
    <2>2. local[p] = [occ |-> o, fiber |-> TRUE, id |-> Run(o)]
      BY <1>2, <2>1 DEF Entered
    <2> QED
      BY <1>2, <1>3, <1>4, <2>1, <2>2 DEF Sole, Becomes, Live, Entered, Starting, Watched
  <1>7. CASE Watch(p, o)
    <2>1. /\ fiber[p][o] = "watching" /\ Becomes(p, o, "completing") /\ run[o] # "active"
          /\ UNCHANGED <<now, active, began, pc, occ, run, local>>
      BY <1>0, <1>7, FiberAt DEF Watch, memory, row
    <2>2. local[p] = [occ |-> o, fiber |-> TRUE, id |-> Run(o)] /\ active = Run(o)
      BY <1>1, <1>2, <2>1 DEF Entered, Sole, Watched, Live
    <2> QED
      BY <1>2, <1>3, <1>4, <2>1, <2>2 DEF Sole, Becomes, Live, Entered, Starting, Watched
  <1>8. CASE Settle(p, o)
    <2>1. fiber[p][o] = "completing" /\ run[o] # "active"
      BY <1>0, <1>8, SettleEffect DEF Fired, Done
    <2>2. active = Run(o)
      BY <1>1, <2>1 DEF Sole, Watched, Live
    <2>3. /\ Becomes(p, o, "none") /\ active' = None /\ local' = [local EXCEPT ![p] = Without(local[p], o)]
          /\ UNCHANGED <<pc, occ, run>>
      BY <1>8, <2>1, <2>2, SettleEffect
    <2>4. local'[p] = None
      BY <1>0, <1>2, <2>3 DEF Entered, Without, EntryTyped
    <2> QED
      BY <1>2, <1>3, <1>4, <2>1, <2>3, <2>4 DEF Sole, Becomes, Live
  <1>9. ~RecordingFails(p, o)
    BY <1>0 DEF RecordingFails
  <1> QED
    BY <1>5, <1>6, <1>7, <1>8, <1>9

(* Time does not pass a lease under a start, and nothing else interferes.  *)
LEMMA SoleEnv ==
  ASSUME Shape, NEW p \in Procs, NEW o \in Occs, Sole(p), MaxFaults = 0,
         RunEnds(o) \/ Tick \/ PollFails(p) \/ Crash(p) \/ Close(p)
  PROVE  Sole(p)'
  <1>0. ~(faults < MaxFaults)
    BY DEF Shape, FiberTyped
  <1>1. CASE RunEnds(o)
    <2>1. UNCHANGED <<active, since, now, began, fiber, local, pc, occ>>
      BY <1>1 DEF RunEnds, row, memory
    <2>2. \A x \in Occs : run'[x] = "active" => run[x] = "active"
      BY <1>1 DEF RunEnds, Shape, FiberTyped
    <2> QED
      BY <2>1, <2>2 DEF Sole, Live, Entered, InTime
  <1>2. CASE Tick
    <2>1. UNCHANGED <<active, since, began, run, fiber, local, pc, occ>> /\ now' = now + 1
      BY <1>2 DEF Tick, row, memory
    <2>2. ASSUME NEW x \in Occs, fiber[p][x] \in Starting, InTime(x) PROVE InTime(x)'
      <3>1. now + 1 < began[x] + Lease
        BY <1>2, <2>2 DEF Tick, Launching, Starting
      <3>2. now \in Nat /\ (began[x] # None => began[x] \in Nat)
        BY Occurrences DEF Shape, RowTyped
      <3> QED
        BY <2>1, <2>2, <3>1, <3>2 DEF InTime
    <2> QED
      BY <2>1, <2>2 DEF Sole, Live, Entered
  <1> QED
    BY <1>0, <1>1, <1>2 DEF PollFails, Crash, Close, Restart

(* It starts with a free row, and keeps it free between its fibers.        *)
LEMMA InitSolo == ASSUME Init, NEW p \in Procs PROVE Sole(p)
  BY DEF Init, Sole, Live, Unfired

LEMMA NextSolo ==
  ASSUME Shape, Recorded, NEW p \in Procs, Lone(p), Solo(p), [Next]_vars
  PROVE  Solo(p)'
  <1>0. Shape' /\ UNCHANGED setting
    BY NextShape, SettingFixed DEF vars
  <1>1. CASE ~(MaxFaults = 0 /\ Overlap # "supersede")
    BY <1>0, <1>1 DEF Solo, MaxFaults, Overlap
  <1>2. CASE UNCHANGED vars
    BY <1>2 DEF vars, row, memory, Solo, Sole, Live, Entered, InTime, MaxFaults, Overlap
  <1>3. CASE Next /\ MaxFaults = 0 /\ Overlap # "supersede"
    <2>1. LoneStep(p) /\ Sole(p)
      BY <1>3, LoneSteps DEF Solo
    <2>2. CASE PollStep(p)
      BY <1>0, <1>3, <2>1, <2>2, SolePoll DEF Solo
    <2>3. ASSUME NEW o \in Occs, Start(p, o) \/ Launched(p, o) \/ Watch(p, o) \/ Settle(p, o) \/ RecordingFails(p, o) PROVE Solo(p)'
      BY <1>0, <1>3, <2>1, <2>3, SoleLaunch DEF Solo
    <2>4. ASSUME NEW o \in Occs, RunEnds(o) \/ Tick \/ PollFails(p) \/ Crash(p) \/ Close(p) PROVE Solo(p)'
      BY <1>3, <2>1, <2>4, SoleEnv DEF Solo
    <2> QED
      BY <2>1, <2>2, <2>3, <2>4, Occurrences DEF LoneStep
  <1> QED
    BY <1>1, <1>2, <1>3

(* Then one run is active at most.                                         *)
LEMMA SoleOverlap ==
  ASSUME NEW p \in Procs, Sole(p)
  PROVE  Cardinality(Active) <= 1
  <1>1. \A x, y \in Active : x = y
    BY SoleFiber DEF Active, Sole, Live
  <1>2. CASE Active = {}
    BY <1>2, FS_EmptySet
  <1>3. CASE Active # {}
    <2>1. PICK o : Active = {o}
      BY <1>1, <1>3
    <2>2. Cardinality({o}) = 1
      BY FS_Singleton
    <2> QED
      BY <2>1, <2>2
  <1> QED
    BY <1>2, <1>3

-----------------------------------------------------------------------------
(* A lone scheduler that supersedes, with one fault at most *)

(* A run that is over stays over.                                          *)
RunsOn == \A o \in Occs : Done(o) => Done(o)'

(* A start under way holds the row, by a lease that is not over, and is    *)
(* the only one.                                                           *)
LEMMA StartHeld ==
  ASSUME Shape, NEW p \in Procs, Launches(p), NEW o \in Occs, fiber[p][o] \in Starting
  PROVE  /\ Entered(p, o) /\ InTime(o) /\ active # None /\ active.kind = "reservation" /\ ~Expired
         /\ local[p] # None /\ local[p].occ = o /\ local[p].fiber
         /\ pc[p] \notin {"clear", "stored", "clearStored", "pending"}
  <1>1. Entered(p, o) /\ InTime(o) /\ active # None /\ active.kind = "reservation"
    BY DEF Launches
  <1>2. local[p] # None /\ local[p].occ = o /\ local[p].fiber
    BY <1>1, EntryHeld
  <1>3. pc[p] \notin {"clear", "stored", "clearStored", "pending"}
    BY <1>2 DEF Launches
  <1>4. ~Expired
    <2>1. PICK b : b = began[o]
      OBVIOUS
    <2>2. b \in Occs /\ since \in Occs /\ since >= b /\ now < b + Lease
      BY <1>1, <2>1 DEF Shape, RowTyped, InTime
    <2>3. b \in Nat /\ since \in Nat /\ now \in Nat /\ Lease \in Nat
      BY <2>2, Occurrences, TriggersAssumption DEF Shape, RowTyped
    <2> QED
      BY <2>2, <2>3 DEF Expired
  <1> QED
    BY <1>1, <1>2, <1>3, <1>4

(* A claim that reserves the row is in time.                               *)
LEMMA ReservesInTime ==
  ASSUME Shape, NEW o \in Occs, since' = now, now' = now, began' = [began EXCEPT ![o] = now]
  PROVE  /\ InTime(o)'
         /\ \A x \in Occs : InTime(x) => InTime(x)'
  <1>1. now \in Nat /\ now # None /\ Lease \in Nat \ {0} /\ began \in [Occs -> Occs \cup {None}]
    BY Occurrences, TriggersAssumption DEF Shape, RowTyped
  <1>2. InTime(o)'
    BY <1>1 DEF InTime
  <1>3. ASSUME NEW x \in Occs, x # o, InTime(x) PROVE InTime(x)'
    BY <1>1, <1>3 DEF InTime
  <1> QED
    BY <1>2, <1>3

(* Its poll, up to the claim.                                              *)
LEMMA TidyResolve ==
  ASSUME Shape, Shape', Recorded, NEW p \in Procs, Tidy(p), Overlap = "supersede",
         Poll(p) \/ ResolveLocal(p) \/ ClearLocal(p) \/ ResolveStored(p) \/ ClearStored(p)
  PROVE  Tidy(p)'
  <1> USE DEF Goto, Set, row, memory
  <1>0. RowTyped /\ PollTyped /\ EntryTyped /\ FiberTyped /\ Places(p) /\ Fired(p) /\ Ruled
    BY DEF Shape, Recorded
  <1>t. Rows(p) /\ Launches(p) /\ Takes(p) /\ Watches(p) /\ Settled
    BY DEF Tidy
  <1>d. p \in DOMAIN pc /\ p \in DOMAIN known /\ p \in DOMAIN local /\ p \in DOMAIN prior
    BY <1>0 DEF PollTyped, EntryTyped
  <1>1. CASE Poll(p)
    <2>1. /\ pc[p] = "idle" /\ pc'[p] = "resolve" /\ known'[p] = last
          /\ UNCHANGED <<now, fires, active, since, last, run, local, prior, occ, fiber, began, faults>>
      BY <1>d, <1>1 DEF Poll
    <2>2. Rows(p)'
      BY <1>t, <2>1 DEF Rows, NamesRun, Fine, Done, Superseding
    <2>3. Launches(p)' /\ Takes(p)'
      BY <1>t, <2>1 DEF Launches, Takes, Live, Entered, InTime, Done, Superseding
    <2>4. Watches(p)' /\ Settled'
      BY <1>t, <2>1 DEF Watches, Settled, Entered, Done
    <2> QED
      BY <2>2, <2>3, <2>4 DEF Tidy
  <1>2. CASE ResolveLocal(p)
    <2>1. /\ pc[p] = "resolve"
          /\ UNCHANGED <<now, fires, active, since, last, run, local, known, occ, fiber, began, faults>>
      BY <1>2 DEF ResolveLocal
    <2>2. \/ local[p] = None /\ pc'[p] = "stored" /\ prior'[p] = prior[p]
          \/ pc'[p] = "due" /\ prior'[p] = prior[p]
          \/ /\ pc'[p] = "clear" /\ local[p] # None /\ prior'[p] = local[p]
             /\ ~LiveFiber(p, local[p])
      BY <1>d, <1>2 DEF ResolveLocal
    <2>3. local[p] # None /\ ~LiveFiber(p, local[p]) => ~local[p].fiber
      BY <1>t DEF Launches, LiveFiber
    <2>4. Rows(p)'
      BY <1>t, <2>1, <2>2 DEF Rows, NamesRun, Fine, Done, Superseding
    <2>5. Launches(p)'
      BY <1>t, <2>1, <2>2, <2>3 DEF Launches, Live, Entered, InTime
    <2>6. Takes(p)' /\ Watches(p)' /\ Settled'
      BY <1>t, <2>1, <2>2 DEF Takes, Watches, Settled, Entered, Done, Superseding
    <2> QED
      BY <2>4, <2>5, <2>6 DEF Tidy
  <1>3. CASE ClearLocal(p)
    <2>1. /\ pc[p] = "clear" /\ pc'[p] = "stored" /\ prior'[p] = None /\ prior[p] \in Entry
          /\ local'[p] = Without(local[p], prior[p].occ) /\ active' \in {active, None}
          /\ UNCHANGED <<now, fires, last, run, known, occ, fiber, began, faults>>
      BY <1>0, <1>d, <1>3 DEF ClearLocal, ClearActive, Places, EntryTyped
    <2>2. local'[p] = None /\ (local[p] # None => ~local[p].fiber)
      BY <1>t, <2>1 DEF Launches, Without
    <2>3. \A o \in Occs : fiber[p][o] \notin Starting
      BY <1>t, <2>1, StartHeld
    <2>4. \A o \in Occs : ~Entered(p, o)
      BY <2>2, EntryHeld
    <2>5. Rows(p)'
      BY <1>t, <2>1, <2>2 DEF Rows, NamesRun, Fine, Done, Superseding
    <2>6. Launches(p)' /\ Takes(p)'
      BY <2>1, <2>2, <2>3 DEF Launches, Takes, Superseding
    <2>7. Watches(p)' /\ Settled'
      BY <1>t, <2>1, <2>4 DEF Watches, Settled, Done
    <2> QED
      BY <2>5, <2>6, <2>7 DEF Tidy
  <1>4. CASE ResolveStored(p)
    <2>1. /\ pc[p] = "stored" /\ local[p] = None
          /\ UNCHANGED <<now, fires, last, run, known, occ, fiber, began, faults>>
      BY <1>t, <1>4 DEF ResolveStored, Launches
    <2>2. \A o \in Occs : fiber[p][o] \notin Starting /\ ~Entered(p, o)
      BY <1>t, <2>1, StartHeld, EntryHeld
    <2>3. active # None /\ active.kind = "run" => NamesRun(active, known[p])
      <3>1. ASSUME active # None, active.kind = "run",
                   local[p] = [occ |-> active.occ, fiber |-> TRUE, id |-> active]
            PROVE  FALSE
        <4>1. [occ |-> active.occ, fiber |-> TRUE, id |-> active] \in Entry
          BY <1>0, <3>1, Identities DEF RowTyped, Entry
        <4> QED
          BY <2>1, <3>1, <4>1, Identities
      <3> QED
        BY <1>t, <2>1, <3>1 DEF Rows, Superseding
    <2>4. active # None => NamesRun(active, known[p])
      BY <1>0, <2>3, Identities DEF NamesRun, RowTyped
    <2> DEFINE e == [occ |-> known[p], id |-> active, fiber |-> FALSE]
    <2>5. /\ e.occ = known[p] /\ e.id = active /\ ~e.fiber
          /\ \/ active' = None /\ pc'[p] = "pending" /\ local'[p] = None /\ prior'[p] = prior[p]
             \/ active' = active /\ active # None /\ pc'[p] = "due" /\ local'[p] = e /\ prior'[p] = prior[p]
             \/ active' = active /\ active # None /\ pc'[p] = "clearStored" /\ local'[p] = None /\ prior'[p] = e
      BY <1>d, <1>4, <2>1 DEF ResolveStored, Holder
    <2> HIDE DEF e
    <2>6. Rows(p)'
      BY <1>t, <2>1, <2>4, <2>5 DEF Rows, NamesRun, Fine, Done, Superseding
    <2>7. Launches(p)' /\ Takes(p)'
      BY <2>1, <2>2, <2>5 DEF Launches, Takes, Superseding
    <2>8. Watches(p)' /\ Settled'
      BY <1>t, <2>1, <2>2 DEF Watches, Settled, Done
    <2> QED
      BY <2>6, <2>7, <2>8 DEF Tidy
  <1>5. CASE ClearStored(p)
    <2>1. /\ pc[p] = "clearStored" /\ pc'[p] = "pending" /\ prior'[p] = None /\ local[p] = None
          /\ active' \in {active, None}
          /\ UNCHANGED <<now, fires, last, run, known, occ, local, fiber, began, faults>>
      BY <1>d, <1>t, <1>5 DEF ClearStored, ClearActive, Launches
    <2>2. \A o \in Occs : fiber[p][o] \notin Starting /\ ~Entered(p, o)
      BY <1>t, <2>1, StartHeld, EntryHeld
    <2>3. Rows(p)'
      BY <1>t, <2>1 DEF Rows, NamesRun, Fine, Done, Superseding
    <2>4. Launches(p)' /\ Takes(p)'
      BY <2>1, <2>2 DEF Launches, Takes, Superseding
    <2>5. Watches(p)' /\ Settled'
      BY <1>t, <2>1, <2>2 DEF Watches, Settled, Done
    <2> QED
      BY <2>3, <2>4, <2>5 DEF Tidy
  <1> QED
    BY <1>1, <1>2, <1>3, <1>4, <1>5

(* What the rows say stands while runs only end.                           *)
LEMMA RowsStay ==
  ASSUME Shape, NEW p \in Procs, Rows(p), RunsOn, UNCHANGED <<active, last, known>>,
         local'[p] \in {local[p], None}, prior'[p] \in {prior[p], None},
         \/ pc'[p] \in Superseding \cup {"idle"}
         \/ pc[p] \notin Superseding \cup {"idle"} /\ local'[p] = local[p]
  PROVE  Rows(p)'
  <1>1. /\ last \in Occs \cup {None} /\ known[p] \in Occs \cup {None}
        /\ local[p] # None => local[p].occ \in Occs \cup {None}
        /\ prior[p] # None => prior[p].occ \in Occs \cup {None}
    BY Identities DEF Shape, RowTyped, PollTyped, EntryTyped
  <1>2. active # None => NamesRun(active, last)'
    BY <1>1 DEF Rows, NamesRun, Fine, RunsOn
  <1>3. local'[p] # None => NamesRun(local[p].id, local[p].occ)'
    BY <1>1 DEF Rows, NamesRun, Fine, RunsOn
  <1>4. prior'[p] # None => NamesRun(prior[p].id, prior[p].occ)'
    BY <1>1 DEF Rows, NamesRun, Fine, RunsOn
  <1>5. NamesRun(active, known[p]) => NamesRun(active, known[p])'
    BY <1>1 DEF NamesRun, Fine, RunsOn
  <1> QED
    BY <1>2, <1>3, <1>4, <1>5 DEF Rows

(* Its claims: the entry it supersedes is what the row or the map says.    *)
LEMMA TidyClaim ==
  ASSUME Shape, Shape', Recorded, NEW p \in Procs, Tidy(p), Overlap = "supersede",
         TakePending(p) \/ Due(p) \/ Claim(p) \/ RecordUnfired(p)
  PROVE  Tidy(p)'
  <1> USE DEF Goto, Set, row, memory
  <1>0. RowTyped /\ PollTyped /\ EntryTyped /\ FiberTyped /\ Places(p) /\ Fired(p) /\ Ruled
    BY DEF Shape, Recorded
  <1>t. Rows(p) /\ Launches(p) /\ Takes(p) /\ Watches(p) /\ Settled
    BY DEF Tidy
  <1>d. p \in DOMAIN pc /\ p \in DOMAIN occ /\ p \in DOMAIN local /\ p \in DOMAIN prior
    BY <1>0 DEF PollTyped, EntryTyped
  <1>1. ASSUME pc[p] \in {"pending", "due", "each"}, pc'[p] \in {"due", "each", "idle"},
               UNCHANGED <<now, fires, active, since, last, run, local, known, prior, fiber, began, faults>>
        PROVE  Tidy(p)'
    <2>1. Rows(p)'
      BY <1>t, <1>1 DEF Rows, NamesRun, Fine, Done, Superseding
    <2>2. Launches(p)' /\ Takes(p)'
      BY <1>t, <1>1 DEF Launches, Takes, Live, Entered, InTime, Superseding
    <2>3. Watches(p)' /\ Settled'
      BY <1>t, <1>1 DEF Watches, Settled, Entered, Done
    <2> QED
      BY <2>1, <2>2, <2>3 DEF Tidy
  <1>2. CASE TakePending(p)
    <2>1. pending = None
      BY <1>0 DEF Ruled
    <2> QED
      BY <1>d, <1>1, <1>2, <2>1 DEF TakePending
  <1>3. CASE Due(p)
    BY <1>1, <1>3, DueEffect
  <1>4. CASE RecordUnfired(p)
    BY <1>0, <1>4 DEF RecordUnfired, Ruled
  <1>5. CASE Claim(p)
    <2>0. pc[p] = "each"
      BY <1>0, <1>5 DEF Claim, Ruled
    <2>1. PICK o \in Occs : ClaimLost(p) \/ ClaimFires(p, o) \/ ClaimSupersedes(p, o)
      BY <1>0, <1>5, TypeParts, ClaimCases DEF ClaimYields
    <2>2. CASE ClaimLost(p)
      BY <1>d, <1>1, <2>0, <2>2 DEF ClaimLost, Claims, After
    <2>3. CASE ClaimFires(p, o)
      <3>1. \A x \in Occs : fiber[p][x] \notin Starting
        BY <1>t, <2>3, StartHeld DEF ClaimFires, Holder
      <3>2. \A x \in Occs : active # Run(x)
        BY <2>3, Identities DEF ClaimFires, Holder, Expired
      <3>3. /\ pc'[p] \in {"idle", "each"} /\ active' = Reservation(o) /\ since' = now
            /\ began' = [began EXCEPT ![o] = now]
            /\ UNCHANGED <<now, run, last, prior, known, faults>>
            /\ local'[p] = [occ |-> o, id |-> Reservation(o), fiber |-> TRUE]
            /\ fires' = [fires EXCEPT ![o] = IF @ = "unclaimed" THEN "claimed" ELSE @]
        BY <1>0, <1>d, <2>0, <2>3 DEF ClaimFires, Reserves, Claims, Launch, After
      <3>4. Becomes(p, o, "starting")
        BY <2>3, FiberAt DEF ClaimFires, Launch
      <3>f. fiber'[p][o] = "starting"
        BY <3>4 DEF Becomes
      <3>5. InTime(o)' /\ Entered(p, o)'
        BY <3>3, <3>f, ReservesInTime DEF Entered
      <3>6. /\ active' # None /\ active'.kind = "reservation" /\ \A k \in Occs : Reservation(o) # Run(k)
            /\ local'[p].id = Reservation(o) /\ local'[p].occ = o /\ o # None
        BY <3>3, Identities, Occurrences
      <3>7. Rows(p)'
        BY <1>t, <3>3, <3>6 DEF Rows, NamesRun, Fine, Done
      <3>8. \A x \in Occs : fiber'[p][x] \in Starting => x = o
        BY <3>1, <3>4 DEF Becomes
      <3>9. Launches(p)' /\ Takes(p)'
        BY <3>3, <3>f, <3>5, <3>6, <3>8 DEF Launches, Takes, Superseding, Live
      <3>10. Watches(p)'
        <4>1. \A x \in Occs : fiber'[p][x] \in Watched => fiber[p][x] \in Watched
          BY <3>4 DEF Becomes, Watched
        <4>2. \A x \in Occs : fiber'[p][x] = "blind" => fiber[p][x] = "blind"
          BY <3>4 DEF Becomes
        <4> QED
          BY <1>t, <2>0, <3>2, <3>3, <4>1, <4>2 DEF Watches
      <3>11. Settled'
        BY <1>0, <1>t, <3>3 DEF Settled, Done, RowTyped
      <3> QED
        BY <3>7, <3>9, <3>10, <3>11 DEF Tidy
    <2>4. CASE ClaimSupersedes(p, o)
      <3>1. /\ pc'[p] = "interrupt" /\ active' = Reservation(o) /\ since' = now /\ occ'[p] = o
            /\ began' = [began EXCEPT ![o] = now] /\ prior'[p] = Victim(p)
            /\ UNCHANGED <<now, run, last, local, fiber, known, faults>>
            /\ fires' = [fires EXCEPT ![o] = IF @ = "unclaimed" THEN "claimed" ELSE @]
            /\ active # None /\ active \in Ids
        BY <1>0, <1>d, <2>4 DEF ClaimSupersedes, Reserves, Claims, RowTyped
      <3>2. InTime(o)' /\ \A x \in Occs : InTime(x) => InTime(x)'
        BY <3>1, ReservesInTime
      <3>3. active' # None /\ active'.kind = "reservation" /\ \A k \in Occs : Reservation(o) # Run(k)
        BY <3>1, Identities
      <3>4. Victim(p).id = active /\ NamesRun(active, Victim(p).occ)
        <4>1. CASE local[p] # None /\ local[p].id = active
          BY <1>t, <4>1 DEF Victim, Rows
        <4>2. CASE ~(local[p] # None /\ local[p].id = active)
          <5>1. Victim(p).id = active /\ Victim(p).occ = known[p]
            BY <4>2 DEF Victim
          <5>2. active.kind # "run" => NamesRun(active, known[p])
            BY Identities DEF NamesRun
          <5>3. ASSUME active.kind = "run" PROVE NamesRun(active, known[p])
            <6>1. [occ |-> active.occ, fiber |-> TRUE, id |-> active] \in Entry
              BY <3>1, Identities DEF Entry
            <6>2. local[p] # [occ |-> active.occ, fiber |-> TRUE, id |-> active]
              BY <4>2, <6>1, Identities
            <6> QED
              BY <1>t, <2>0, <3>1, <5>3, <6>2 DEF Rows, Superseding
          <5> QED
            BY <5>1, <5>2, <5>3
        <4> QED
          BY <4>1, <4>2
      <3>5. Rows(p)'
        BY <1>t, <3>1, <3>3, <3>4 DEF Rows, NamesRun, Fine, Done
      <3>6. Launches(p)'
        BY <1>t, <3>1, <3>2, <3>3 DEF Launches, Live, Entered
      <3>7. Takes(p)'
        BY <1>t, <3>1, <3>2, <3>4 DEF Takes, Launches
      <3>8. Watches(p)'
        <4>1. ASSUME NEW x \in Occs, Entered(p, x), fiber[p][x] \in Watched, active = Run(x)
              PROVE  Victim(p) = local[p]
          <5>0. local[p] = [occ |-> x, fiber |-> TRUE, id |-> Run(x)]
            BY <4>1 DEF Entered, Watched
          <5>1. local[p].id = Run(x)
            BY <5>0
          <5>2. local[p] # None
            BY <4>1, EntryHeld
          <5> QED
            BY <4>1, <5>1, <5>2 DEF Victim
        <4> QED
          BY <1>t, <2>0, <3>1, <4>1 DEF Watches, Entered
      <3>9. Settled'
        BY <1>0, <1>t, <3>1 DEF Settled, Done, RowTyped
      <3> QED
        BY <3>5, <3>6, <3>7, <3>8, <3>9 DEF Tidy
    <2> QED
      BY <2>1, <2>2, <2>3, <2>4
  <1> QED
    BY <1>2, <1>3, <1>4, <1>5

(* Its superseding: the run of the entry is over before it is recorded.    *)
LEMMA TidySupersede ==
  ASSUME Shape, Shape', NEW p \in Procs, Tidy(p), Interrupt(p) \/ Cancel(p) \/ Superseded(p)
  PROVE  Tidy(p)'
  <1>0. RowTyped /\ PollTyped /\ EntryTyped /\ FiberTyped /\ Places(p)
    BY DEF Shape
  <1>t. Rows(p) /\ Launches(p) /\ Takes(p) /\ Watches(p) /\ Settled
    BY DEF Tidy
  <1>d. p \in DOMAIN pc /\ p \in DOMAIN occ /\ p \in DOMAIN local /\ p \in DOMAIN prior
    BY <1>0 DEF PollTyped, EntryTyped
  <1>1. CASE Interrupt(p)
    <2>1. /\ pc[p] = "interrupt" /\ pc'[p] = "cancel"
          /\ UNCHANGED <<now, fires, active, since, last, known, occ, prior, began, faults>>
      BY <1>d, <1>1, InterruptEffect DEF row
    <2>2. CASE ~LiveFiber(p, prior[p]) /\ UNCHANGED <<run, fiber, local>>
      <3>1. Rows(p)' /\ Launches(p)'
        BY <1>t, <2>1, <2>2 DEF Rows, Launches, NamesRun, Fine, Done, Live, Entered, InTime, Superseding
      <3>2. Takes(p)'
        BY <1>t, <2>1, <2>2 DEF Takes, InTime, Superseding
      <3>3. ASSUME NEW o \in Occs, fiber[p][o] \in Watched, Entered(p, o), prior[p] = local[p] PROVE FALSE
        <4>1. local[p].occ = o /\ local[p].fiber /\ o # None
          BY <3>3, EntryHeld, Occurrences
        <4> QED
          BY <2>2, <3>3, <4>1 DEF LiveFiber, Live, Watched
      <3>4. Watches(p)' /\ Settled'
        BY <1>t, <2>1, <2>2, <3>3 DEF Watches, Settled, Entered, Done
      <3> QED
        BY <3>1, <3>2, <3>4 DEF Tidy
    <2>3. ASSUME NEW o \in Occs, InterruptsFiber(p, o) PROVE Tidy(p)'
      <3>1. /\ prior[p].fiber /\ prior[p].occ = o /\ Becomes(p, o, "none")
            /\ local'[p] = Without(local[p], o)
        BY <1>d, <2>3 DEF InterruptsFiber
      <3>2. RunsOn
        BY <1>0, <2>3 DEF InterruptsFiber, Reaches, RunsOn, Done, FiberTyped
      <3>3. local'[p] = None \/ (local'[p] = local[p] /\ local[p].occ # o)
        BY <3>1 DEF Without
      <3>4. \A x \in Occs : fiber'[p][x] # "none" => x # o /\ fiber'[p][x] = fiber[p][x]
        BY <3>1 DEF Becomes
      <3>5. \A x \in Occs : x # o /\ Entered(p, x) => local'[p] = local[p]
        BY <3>1, EntryHeld DEF Without
      <3>6. Rows(p)'
        BY <1>t, <2>1, <3>2, <3>3, RowsStay DEF Superseding
      <3>7. Launches(p)'
        <4>1. ASSUME local'[p] # None, local'[p].fiber
              PROVE  (local[p].occ # None /\ Live(p, local[p].occ))'
          <5>1. local'[p] = local[p] /\ local[p].occ # o /\ local[p].occ # None /\ Live(p, local[p].occ)
            BY <1>t, <3>3, <4>1 DEF Launches
          <5>2. PICK x \in Occs : x = local[p].occ
            BY <1>0, <3>3, <4>1, <5>1, Identities DEF EntryTyped
          <5>3. x # o /\ fiber'[p][x] # "none" /\ local'[p].occ = x
            BY <3>1, <5>1, <5>2 DEF Becomes, Live
          <5> QED
            BY <5>3, Occurrences DEF Live
        <4>2. ASSUME NEW x \in Occs, fiber'[p][x] \in Starting
              PROVE  /\ Entered(p, x)' /\ InTime(x)'
                     /\ active' # None /\ active'.kind = "reservation"
          <5>1. x # o /\ fiber'[p][x] = fiber[p][x]
            BY <3>4, <4>2 DEF Starting
          <5>2. Entered(p, x) /\ InTime(x) /\ active # None /\ active.kind = "reservation"
            BY <1>t, <4>2, <5>1 DEF Launches
          <5>3. local'[p] = local[p]
            BY <3>5, <5>1, <5>2
          <5> QED
            BY <2>1, <5>1, <5>2, <5>3 DEF Entered, InTime
        <4>3. pc'[p] \notin {"clear", "stored", "clearStored", "pending"}
          BY <2>1
        <4> QED
          BY <4>1, <4>2, <4>3 DEF Launches
      <3>8. Takes(p)'
        BY <1>t, <2>1, <3>4 DEF Takes, InTime, Superseding, Starting
      <3>9. Watches(p)'
        <4>1. ASSUME NEW x \in Occs, fiber'[p][x] \in Watched, faults' = 0 \/ \E y \in Occs : fiber'[p][y] = "blind"
              PROVE  Entered(p, x)' /\ active' = Run(x)
          <5>1. x # o /\ fiber'[p][x] = fiber[p][x]
            BY <3>4, <4>1 DEF Watched
          <5>2. Entered(p, x) /\ (active = Run(x) \/ prior[p] = local[p])
            BY <1>t, <2>1, <3>4, <4>1, <5>1 DEF Watches
          <5>3. local'[p] = local[p] /\ local[p].occ = x
            BY <3>5, <5>1, <5>2, EntryHeld
          <5> QED
            BY <2>1, <3>1, <5>1, <5>2, <5>3 DEF Entered
        <4> QED
          BY <4>1 DEF Watches
      <3>10. Settled'
        BY <1>t, <2>1, <3>2 DEF Settled, RunsOn
      <3> QED
        BY <3>6, <3>7, <3>8, <3>9, <3>10 DEF Tidy
    <2> QED
      BY <1>1, <2>2, <2>3, InterruptEffect
  <1>2. CASE Cancel(p)
    <2>1. /\ pc[p] = "cancel" /\ prior[p] \in Entry /\ prior[p].id \in Ids /\ prior[p].id.occ \in Occs
          /\ UNCHANGED <<now, fires, active, since, last, known, local, fiber, began, faults>>
      BY <1>0, <1>2, Identities DEF Cancel, row, Places, Superseding, EntryTyped
    <2>2. RunsOn
      BY <1>0, <1>2, <2>1 DEF Cancel, RunsOn, Done, FiberTyped
    <2>3. \/ /\ pc'[p] = "superseded" /\ UNCHANGED <<occ, prior>>
             /\ prior[p].id.kind = "run" /\ Done(prior[p].id.occ)'
          \/ pc'[p] = "idle" /\ prior'[p] = None
      <3>1. CASE prior[p].id.kind = "run" /\ run[prior[p].id.occ] # "none"
        BY <1>0, <1>d, <1>2, <2>1, <3>1 DEF Cancel, Goto, Done, FiberTyped
      <3>2. CASE ~(prior[p].id.kind = "run" /\ run[prior[p].id.occ] # "none")
        BY <1>d, <1>2, <3>2 DEF Cancel, Goto, Set
      <3> QED
        BY <3>1, <3>2
    <2>4. Rows(p)'
      BY <1>t, <2>1, <2>2, <2>3, RowsStay DEF Superseding
    <2>5. Launches(p)'
      BY <1>t, <2>1, <2>3 DEF Launches, Live, Entered, InTime
    <2>6. Takes(p)'
      BY <1>t, <2>1, <2>3 DEF Takes, InTime, Superseding
    <2>7. Watches(p)' /\ Settled'
      BY <1>t, <2>1, <2>2 DEF Watches, Settled, Entered, RunsOn
    <2> QED
      BY <2>4, <2>5, <2>6, <2>7 DEF Tidy
  <1>3. CASE Superseded(p)
    <2>1. /\ pc[p] = "superseded" /\ occ[p] \in Occs /\ prior[p] \in Entry
          /\ pc'[p] \in {"idle", "each"} /\ prior'[p] = None
          /\ local'[p] = [occ |-> occ[p], id |-> Reservation(occ[p]), fiber |-> TRUE]
          /\ Becomes(p, occ[p], "starting")
          /\ UNCHANGED <<now, run, known, began, faults>>
      BY <1>d, <1>3, SupersededEffect
    <2>2. PICK o \in Occs : o = occ[p]
      BY <2>1
    <2>3. PICK k \in Occs : prior[p].id = Run(k) /\ Done(k) /\ prior[p].id.kind = "run"
      BY <1>t, <2>1, Identities DEF Takes
    <2>4. active = Reservation(o) /\ InTime(o) /\ \A x \in Occs : fiber[p][x] \notin Starting
      BY <1>t, <2>1, <2>2, <2>3 DEF Takes, Superseding
    <2>5. /\ active # None /\ active.kind = "reservation" /\ \A x \in Occs : active # Run(x)
          /\ o # None /\ active # prior[p].id
      BY <2>3, <2>4, Identities, Occurrences
    <2>6. /\ UNCHANGED <<active, since>>
          /\ \/ fires' = fires
             \/ prior[p].occ \in Occs /\ fires' = [fires EXCEPT ![prior[p].occ] = "superseded"]
      BY <1>3, <2>5, SupersededEffect
    <2>7. fiber'[p][o] = "starting" /\ \A x \in Occs : x # o => fiber'[p][x] = fiber[p][x]
      BY <2>1, <2>2 DEF Becomes
    <2>8. Entered(p, o)' /\ InTime(o)' /\ local'[p].id = active /\ local'[p].occ = o
      BY <2>1, <2>2, <2>4, <2>6, <2>7 DEF Entered, InTime
    <2>9. Rows(p)'
      BY <2>1, <2>5, <2>6, <2>8 DEF Rows, NamesRun
    <2>10. Launches(p)' /\ Takes(p)'
      BY <2>1, <2>4, <2>5, <2>6, <2>7, <2>8 DEF Launches, Takes, Superseding, Live
    <2>11. Watches(p)'
      BY <1>t, <2>1, <2>5, <2>7 DEF Watches, Watched
    <2>12. Settled'
      <3>1. prior[p].occ \in Occs => Done(prior[p].occ)
        BY <1>t, <2>1, <2>3, Occurrences, Identities DEF Rows, NamesRun, Fine
      <3> QED
        BY <1>0, <1>t, <2>1, <2>6, <3>1 DEF Settled, Done, RowTyped
    <2> QED
      BY <2>9, <2>10, <2>11, <2>12 DEF Tidy
  <1> QED
    BY <1>1, <1>2, <1>3

(* Its fibers: a start is the only one, and one that watches blindly has   *)
(* the row, or has lost it to a poll that is about to interrupt it.        *)
LEMMA TidyLaunch ==
  ASSUME Shape, Shape', Recorded, NEW p \in Procs, NEW o \in Occs, Tidy(p), MaxFaults <= 1,
         Start(p, o) \/ Launched(p, o) \/ Watch(p, o) \/ Settle(p, o) \/ RecordingFails(p, o)
  PROVE  Tidy(p)'
  <1>0. RowTyped /\ PollTyped /\ EntryTyped /\ FiberTyped /\ Places(p) /\ Fired(p)
    BY DEF Shape, Recorded
  <1>t. Rows(p) /\ Launches(p) /\ Takes(p) /\ Watches(p) /\ Settled
    BY DEF Tidy
  <1>d. p \in DOMAIN local /\ o # None /\ Run(o) # None
    BY <1>0, Occurrences, Identities DEF EntryTyped
  <1>1. ASSUME fiber[p][o] \in Starting
        PROVE  /\ Entered(p, o) /\ InTime(o) /\ active # None /\ active.kind = "reservation"
               /\ local[p] \in Entry /\ local[p] # None /\ local[p].occ = o /\ local[p].fiber
               /\ pc[p] \notin {"clear", "stored", "clearStored", "pending"}
               /\ pc[p] \in Superseding => prior[p].id.kind # "run"
               /\ pc[p] # "superseded"
               /\ \A x \in Occs : Entered(p, x) => x = o
               /\ \A x \in Occs : active # Run(x)
    <2>1. /\ Entered(p, o) /\ InTime(o) /\ active # None /\ active.kind = "reservation"
          /\ local[p] # None /\ local[p].occ = o /\ local[p].fiber
          /\ pc[p] \notin {"clear", "stored", "clearStored", "pending"}
      BY <1>t, <1>1, StartHeld
    <2>2. \A x \in Occs : Entered(p, x) => x = o
      BY <2>1, EntryHeld
    <2>3. (pc[p] \in Superseding => prior[p].id.kind # "run") /\ pc[p] # "superseded"
      BY <1>t, <1>1 DEF Takes, Superseding
    <2>4. local[p] \in Entry /\ \A x \in Occs : active # Run(x)
      BY <2>1, EntryHeld, Identities
    <2> QED
      BY <2>1, <2>2, <2>3, <2>4
  <1>2. CASE Start(p, o)
    <2>1. /\ fiber[p][o] = "starting" /\ fiber[p][o] \in Starting
          /\ UNCHANGED <<now, fires, active, since, last, pc, known, occ, prior, began>>
      BY <1>2 DEF Start, row, Starting
    <2>2. \E v \in {"started", "failing"} : Becomes(p, o, v)
      BY <1>2, FiberAt DEF Start
    <2>3. RunsOn
      BY <1>0, <1>2 DEF Start, RunsOn, Done, FiberTyped
    <2>4. /\ local'[p] # None /\ local'[p].occ = o /\ NamesRun(local[p].id, local[p].occ)' /\ Entered(p, o)'
      <3>1. local[p] = [occ |-> o, fiber |-> TRUE, id |-> Reservation(o)]
        BY <1>1, <2>1 DEF Entered
      <3>2. CASE fiber'[p][o] = "started"
        <4>1. local' = [local EXCEPT ![p].id = Run(o)]
          BY <1>0, <1>1, <1>2, <2>1, <3>2 DEF Start, FiberTyped
        <4>2. local'[p] = [local[p] EXCEPT !.id = Run(o)] /\ local[p].fiber = TRUE
          BY <1>d, <3>1, <4>1
        <4>0. local[p] \in Entry /\ local[p].occ = o
          BY <1>1, <2>1
        <4>3. local'[p] = [occ |-> o, fiber |-> TRUE, id |-> Run(o)]
          BY <4>0, <4>2, RunEntry
        <4>4. Entered(p, o)'
          BY <3>2, <4>3 DEF Entered
        <4>5. [occ |-> o, fiber |-> TRUE, id |-> Run(o)] \in Entry
          BY Identities DEF Entry
        <4>6. \A k \in Occs : Run(o) = Run(k) => k = o
          BY Identities
        <4>7. local'[p].id = Run(o) /\ local'[p].occ = o
          BY <4>3
        <4>8. local'[p] # None
          <5>1. None \notin Entry
            BY TriggersAssumption
          <5> QED
            BY <4>3, <4>5, <5>1
        <4> QED
          BY <4>4, <4>6, <4>7, <4>8 DEF NamesRun, Fine
      <3>3. CASE fiber'[p][o] = "failing"
        <4>1. local' = local
          BY <1>0, <1>2, <3>3 DEF Start, FiberTyped
        <4> QED
          BY <1>1, <2>1, <3>1, <3>3, <4>1, Identities DEF Entered, NamesRun
      <3> QED
        BY <2>2, <3>2, <3>3 DEF Becomes
    <2>5. fiber'[p][o] \in Starting /\ \A x \in Occs : x # o => fiber'[p][x] = fiber[p][x]
      BY <2>2 DEF Becomes, Starting
    <2>6. \A x \in Occs : x # o => fiber[p][x] \notin Starting
      BY <1>t, <1>1, <2>1 DEF Launches
    <2>7. Rows(p)'
      <3>1. prior[p] # None => NamesRun(prior[p].id, prior[p].occ)'
        <4>1. prior[p] # None => prior[p].occ \in Occs \cup {None}
          BY <1>0, Identities DEF EntryTyped
        <4> QED
          BY <1>t, <2>1, <2>3, <4>1 DEF Rows, NamesRun, Fine, RunsOn
      <3> QED
        BY <1>1, <2>1, <2>4, <3>1 DEF Rows, NamesRun
    <2>8. Launches(p)'
      BY <1>1, <1>d, <2>1, <2>4, <2>5, <2>6 DEF Launches, Live, InTime, Starting
    <2>9. Takes(p)'
      BY <1>1, <2>1 DEF Takes
    <2>10. Watches(p)'
      <3>1. \A x \in Occs : fiber'[p][x] \in Watched => fiber[p][x] \in Watched
        BY <2>5 DEF Watched, Starting
      <3>2. faults' = 0 => faults = 0
        BY <1>0, <1>2 DEF Start, FiberTyped
      <3>3. (\E x \in Occs : fiber'[p][x] = "blind") => (\E x \in Occs : fiber[p][x] = "blind")
        BY <2>5 DEF Starting
      <3>4. ASSUME NEW x \in Occs, fiber[p][x] \in Watched, Entered(p, x) PROVE FALSE
        BY <1>1, <2>1, <3>4 DEF Watched
      <3> QED
        BY <1>t, <3>1, <3>2, <3>3, <3>4 DEF Watches
    <2>11. Settled'
      BY <1>t, <2>1, <2>3 DEF Settled, RunsOn
    <2> QED
      BY <2>7, <2>8, <2>9, <2>10, <2>11 DEF Tidy
  <1>3. CASE Launched(p, o)
    <2>1. /\ fiber[p][o] = "started" /\ fiber[p][o] \in Starting
          /\ fires' = [fires EXCEPT ![o] = "launched"] /\ last' = o /\ active' = Run(o)
          /\ UNCHANGED <<now, run, pc, local, known, occ, prior, began, faults>>
      BY <1>3 DEF Launched, RecordResult, memory, Starting
    <2>2. Becomes(p, o, "watching")
      BY <1>3, FiberAt DEF Launched
    <2>3. fiber'[p][o] = "watching" /\ \A x \in Occs : x # o => fiber'[p][x] = fiber[p][x]
      BY <2>2 DEF Becomes
    <2>4. local[p] = [occ |-> o, fiber |-> TRUE, id |-> Run(o)] /\ Run(o).occ = o
      BY <1>1, <2>1, Identities DEF Entered
    <2>5. \A x \in Occs : fiber'[p][x] \notin Starting
      BY <1>t, <1>1, <2>1, <2>3 DEF Launches, Starting
    <2>6. Rows(p)'
      <3>1. NamesRun(active, last)'
        <4>1. \A k \in Occs : Run(o) = Run(k) => k = o
          BY Identities
        <4> QED
          BY <2>1, <4>1 DEF NamesRun, Fine
      <3>2. local'[p] = [occ |-> active'.occ, fiber |-> TRUE, id |-> active']
        BY <2>1, <2>4
      <3> QED
        BY <1>t, <2>1, <3>1, <3>2 DEF Rows, NamesRun, Fine, Done
    <2>7. Launches(p)'
      BY <1>1, <1>d, <2>1, <2>3, <2>5 DEF Launches, Live
    <2>8. Takes(p)'
      BY <1>1, <2>1 DEF Takes
    <2>9. Watches(p)'
      <3>1. ASSUME NEW x \in Occs, fiber'[p][x] \in Watched,
                   faults' = 0 \/ \E y \in Occs : fiber'[p][y] = "blind"
            PROVE  x = o
        <4>1. \A y \in Occs : fiber'[p][y] = "blind" => fiber[p][y] = "blind"
          BY <2>3
        <4>2. x # o => Entered(p, x)
          BY <1>t, <2>1, <2>3, <3>1, <4>1 DEF Watches
        <4> QED
          BY <1>1, <2>1, <4>2
      <3>2. Entered(p, o)'
        BY <2>1, <2>3, <2>4 DEF Entered
      <3> QED
        BY <2>1, <3>1, <3>2 DEF Watches
    <2>10. Settled'
      BY <1>0, <1>t, <2>1 DEF Settled, Done, RowTyped
    <2> QED
      BY <2>6, <2>7, <2>8, <2>9, <2>10 DEF Tidy
  <1>4. CASE Watch(p, o) \/ (RecordingFails(p, o) /\ fiber[p][o] = "completing")
    <2>1. /\ fiber[p][o] \in {"watching", "completing"}
          /\ UNCHANGED <<now, fires, active, since, last, run, pc, local, known, occ, prior, began>>
      BY <1>4 DEF Watch, RecordingFails, memory, row
    <2>2. PICK v \in {"completing", "blind"} : /\ Becomes(p, o, v)
                                               /\ v = "completing" => faults' = faults
                                               /\ v = "blind" => faults < MaxFaults
      BY <1>4, FiberAt DEF Watch, RecordingFails
    <2>3. fiber'[p][o] = v /\ \A x \in Occs : x # o => fiber'[p][x] = fiber[p][x]
      BY <2>2 DEF Becomes
    <2>4. RunsOn
      BY <2>1 DEF RunsOn, Done
    <2>5. Rows(p)'
      BY <1>t, <2>1, <2>4 DEF Rows, NamesRun, Fine, Done
    <2>6. \A x \in Occs : /\ fiber'[p][x] \in Starting => fiber[p][x] \in Starting /\ x # o
                          /\ Live(p, x) => Live(p, x)'
                          /\ fiber'[p][x] \in Watched => fiber[p][x] \in Watched
                          /\ Entered(p, x) /\ Live(p, x) => Entered(p, x)'
      <3>1. ASSUME NEW x \in Occs, x # o
            PROVE  fiber'[p][x] = fiber[p][x] /\ (Entered(p, x) => Entered(p, x)') /\ (Live(p, x) => Live(p, x)')
        BY <2>1, <2>3, <3>1 DEF Live, Entered
      <3>2. fiber'[p][o] \in Watched /\ fiber[p][o] \in Watched /\ fiber'[p][o] \notin Starting /\ Live(p, o)'
        BY <2>1, <2>3 DEF Starting, Live, Watched
      <3>3. Entered(p, o) => Entered(p, o)'
        BY <2>1, <2>3 DEF Entered
      <3> QED
        BY <3>1, <3>2, <3>3
    <2>7. Launches(p)'
      <3>1. local[p] # None /\ local[p].occ # None => local[p].occ \in Occs
        BY <1>0, Identities DEF EntryTyped
      <3>2. (local[p] # None /\ local[p].fiber => local[p].occ # None /\ Live(p, local[p].occ))'
        BY <1>t, <2>1, <2>6, <3>1 DEF Launches, Live
      <3> QED
        BY <1>t, <2>1, <2>6, <3>2 DEF Launches, InTime, Live, Starting
    <2>8. Takes(p)' /\ Settled'
      BY <1>t, <2>1, <2>6 DEF Takes, InTime, Settled, Done
    <2>9. Watches(p)'
      <3>1. faults' = 0 \/ (\E x \in Occs : fiber'[p][x] = "blind") =>
              faults = 0 \/ (\E x \in Occs : fiber[p][x] = "blind")
        <4>1. v = "blind" => faults = 0
          BY <1>0, <2>2, TriggersAssumption DEF FiberTyped, MaxFaults
        <4> QED
          BY <2>2, <2>3, <4>1
      <3> QED
        BY <1>t, <2>1, <2>6, <3>1 DEF Watches, Live, Watched
    <2> QED
      BY <2>5, <2>7, <2>8, <2>9 DEF Tidy
  <1>5. CASE Settle(p, o)
    <2>1. /\ fiber[p][o] \in {"completing", "blind", "failing", "unrecorded"}
          /\ \E r \in {"completed", "failed"} : fires' = [fires EXCEPT ![o] = r]
          /\ last' = o /\ local'[p] = Without(local[p], o)
          /\ UNCHANGED <<now, run, pc, known, occ, prior, began, faults>>
      BY <1>d, <1>5, SettleEffect
    <2>2. \/ active # Run(o) /\ active' = active /\ since' = since /\ fiber[p][o] # "failing"
          \/ active = Run(o) /\ active' = None
          \/ fiber[p][o] = "failing" /\ active' = None
      BY <1>5, SettleEffect
    <2>b. Becomes(p, o, "none")
      BY <1>5, SettleEffect
    <2>3. \A x \in Occs : fiber'[p][x] # "none" => x # o /\ fiber'[p][x] = fiber[p][x]
      BY <2>b DEF Becomes
    <2>n. \A x \in Occs : x # o => fiber'[p][x] = fiber[p][x]
      BY <2>b DEF Becomes
    <2>4. local'[p] = None \/ (local'[p] = local[p] /\ local[p].occ # o)
      BY <2>1 DEF Without
    <2>5. \A x \in Occs : x # o /\ Entered(p, x) => local'[p] = local[p]
      BY <2>1, EntryHeld DEF Without
    <2>6. fiber[p][o] \in {"failing", "unrecorded"} => fiber[p][o] \in Starting
      BY DEF Starting
    <2>7. ASSUME active' = active, active # None, active # Run(o) PROVE NamesRun(active, o)
      <3>1. CASE fiber[p][o] = "completing"
        BY <1>0, <3>1 DEF Fired, NamesRun, Fine
      <3>2. CASE fiber[p][o] = "blind"
        <4>1. Entered(p, o) /\ pc[p] = "interrupt" /\ prior[p] = local[p]
          BY <1>t, <2>7, <3>2 DEF Watches, Watched
        <4>2. local[p] = [occ |-> o, fiber |-> TRUE, id |-> Run(o)]
          BY <3>2, <4>1 DEF Entered
        <4>3. prior[p].id = Run(o)
          BY <4>1, <4>2
        <4>4. active = Reservation(occ[p]) /\ occ[p] \in Occs
          BY <1>0, <1>t, <4>1, <4>3, Identities DEF Takes, Superseding, Places
        <4> QED
          BY <4>4, Identities DEF NamesRun
      <3>3. CASE fiber[p][o] \in {"failing", "unrecorded"}
        BY <1>1, <2>6, <3>3, Identities DEF NamesRun
      <3> QED
        BY <2>1, <3>1, <3>2, <3>3
    <2>8. Rows(p)'
      <3>1. active' # None => NamesRun(active, last)'
        BY <2>1, <2>2, <2>7 DEF NamesRun, Fine, Done
      <3>2. ASSUME active' # None, active'.kind = "run", pc[p] \notin Superseding \cup {"idle"}
            PROVE  NamesRun(active, known[p]) \/ local'[p] = [occ |-> active.occ, fiber |-> TRUE, id |-> active]
        <4>1. active' = active /\ active # Run(o)
          BY <2>2, <3>2
        <4>2. active.occ # o
          BY <1>0, <3>2, <4>1, Identities DEF RowTyped
        <4>3. ASSUME local[p] = [occ |-> active.occ, fiber |-> TRUE, id |-> active] PROVE local'[p] = local[p]
          <5>1. local[p].occ = active.occ
            BY <4>3
          <5> QED
            BY <2>1, <4>2, <5>1 DEF Without
        <4> QED
          BY <1>t, <3>2, <4>1, <4>3 DEF Rows
      <3> QED
        BY <1>t, <2>1, <2>2, <2>4, <3>1, <3>2 DEF Rows, NamesRun, Fine, Done
    <2>9. Launches(p)'
      <3>1. ASSUME local'[p] # None, local'[p].fiber
            PROVE  (local[p].occ # None /\ Live(p, local[p].occ))'
        <4>1. local'[p] = local[p] /\ local[p].occ # o /\ local[p].occ # None /\ Live(p, local[p].occ)
          BY <1>t, <2>4, <3>1 DEF Launches
        <4>2. PICK x \in Occs : x = local[p].occ
          BY <1>0, <2>4, <3>1, <4>1, Identities DEF EntryTyped
        <4>3. x # o /\ fiber'[p][x] # "none" /\ local'[p].occ = x
          BY <2>n, <4>1, <4>2 DEF Live
        <4> QED
          BY <4>3, Occurrences DEF Live
      <3>2. ASSUME NEW x \in Occs, fiber'[p][x] \in Starting
            PROVE  Entered(p, x)' /\ InTime(x)' /\ active' # None /\ active'.kind = "reservation"
        <4>1. x # o /\ fiber'[p][x] = fiber[p][x]
          BY <2>3, <3>2 DEF Starting
        <4>2. Entered(p, x) /\ InTime(x) /\ active # None /\ active.kind = "reservation"
          BY <1>t, <3>2, <4>1 DEF Launches
        <4>3. active' = active /\ since' = since /\ local'[p] = local[p]
          BY <1>1, <2>2, <2>5, <2>6, <4>1, <4>2, Identities
        <4> QED
          BY <2>1, <4>1, <4>2, <4>3 DEF Entered, InTime
      <3>3. /\ pc'[p] = "clear" => local'[p] \in {None, prior'[p]} /\ ~prior'[p].fiber
            /\ pc'[p] \in {"stored", "clearStored", "pending"} => local'[p] = None
        BY <1>t, <2>1, <2>4 DEF Launches
      <3> QED
        BY <3>1, <3>2, <3>3 DEF Launches
    <2>10. Takes(p)'
      <3>1. ASSUME pc[p] \in Superseding, prior[p].id.kind = "run" PROVE active' = active /\ since' = since
        <4>1. active = Reservation(occ[p]) /\ occ[p] \in Occs /\ fiber[p][o] \notin Starting
          BY <1>0, <1>t, <3>1 DEF Takes, Places
        <4> QED
          BY <2>2, <2>6, <4>1, Identities
      <3>2. \A x \in Occs : fiber'[p][x] \in Starting => fiber[p][x] \in Starting
        BY <2>3 DEF Starting
      <3> QED
        BY <1>t, <2>1, <3>1, <3>2 DEF Takes, InTime, Done
    <2>11. Watches(p)'
      <3>1. ASSUME NEW x \in Occs, fiber'[p][x] \in Watched,
                   faults' = 0 \/ \E y \in Occs : fiber'[p][y] = "blind"
            PROVE  Entered(p, x)' /\ (active' = Run(x) \/ (pc'[p] = "interrupt" /\ prior'[p] = local'[p]))
        <4>1. x # o /\ fiber'[p][x] = fiber[p][x]
          BY <2>3, <3>1 DEF Watched
        <4>2. Entered(p, x) /\ (active = Run(x) \/ (pc[p] = "interrupt" /\ prior[p] = local[p]))
          BY <1>t, <2>1, <2>3, <3>1, <4>1 DEF Watches
        <4>3. local'[p] = local[p] /\ fiber[p][o] # "failing"
          BY <1>1, <2>5, <2>6, <4>1, <4>2
        <4>4. active = Run(x) => active' = active
          BY <2>2, <4>1, <4>3, Identities
        <4> QED
          BY <2>1, <4>1, <4>2, <4>3, <4>4 DEF Entered
      <3> QED
        BY <3>1 DEF Watches
    <2>12. Settled'
      BY <1>0, <1>t, <2>1 DEF Settled, Done, RowTyped
    <2> QED
      BY <2>8, <2>9, <2>10, <2>11, <2>12 DEF Tidy
  <1>6. CASE RecordingFails(p, o) /\ fiber[p][o] = "started"
    <2>1. /\ Becomes(p, o, "unrecorded") /\ fiber[p][o] \in Starting
          /\ UNCHANGED <<now, fires, active, since, last, run, pc, local, known, occ, prior, began>>
      BY <1>6, FiberAt DEF RecordingFails, row, Starting
    <2>2. faults = 0 /\ faults' # 0
      BY <1>0, <1>6, TriggersAssumption DEF RecordingFails, FiberTyped, MaxFaults
    <2>3. \A x \in Occs : x # o => fiber'[p][x] = fiber[p][x]
      BY <2>1 DEF Becomes
    <2>4. fiber'[p][o] = "unrecorded"
      BY <2>1 DEF Becomes
    <2>5. \A x \in Occs : fiber[p][x] # "blind"
      BY <1>0, <2>2 DEF Fired
    <2>6. Rows(p)'
      BY <1>t, <2>1 DEF Rows, NamesRun, Fine, Done
    <2>7. Launches(p)'
      <3>1. \A x \in Occs : fiber'[p][x] \in Starting => fiber[p][x] \in Starting
        BY <2>1, <2>3
      <3>2. \A x \in Occs : Live(p, x) => Live(p, x)'
        BY <2>3, <2>4 DEF Live
      <3>3. Entered(p, o)'
        BY <1>1, <1>6, <2>1, <2>4 DEF Entered
      <3>4. \A x \in Occs : fiber[p][x] \in Starting => x = o
        BY <1>t, <1>1, <2>1 DEF Launches
      <3>5. local[p] # None /\ local[p].occ # None => local[p].occ \in Occs
        BY <1>0, Identities DEF EntryTyped
      <3>6. (local[p] # None /\ local[p].fiber => local[p].occ # None /\ Live(p, local[p].occ))'
        BY <1>t, <2>1, <3>2, <3>5 DEF Launches, Live
      <3> QED
        BY <1>t, <1>1, <2>1, <3>1, <3>3, <3>4, <3>6 DEF Launches, InTime
    <2>8. Takes(p)' /\ Settled'
      BY <1>t, <1>1, <2>1 DEF Takes, InTime, Settled, Done
    <2>9. Watches(p)'
      BY <2>2, <2>3, <2>4, <2>5 DEF Watches
    <2> QED
      BY <2>6, <2>7, <2>8, <2>9 DEF Tidy
  <1>7. ASSUME RecordingFails(p, o), fiber[p][o] \in {"blind", "failing", "unrecorded"} PROVE FALSE
    <2>1. faults < MaxFaults /\ faults \in Nat
      BY <1>0, <1>7, TriggersAssumption DEF RecordingFails, FiberTyped, MaxFaults
    <2>2. faults # 0
      BY <1>0, <1>7 DEF Fired
    <2> QED
      BY <2>1, <2>2, <1>0, TriggersAssumption DEF FiberTyped, MaxFaults
  <1> QED
    BY <1>2, <1>3, <1>4, <1>5, <1>6, <1>7 DEF RecordingFails

(* A failed poll, a crash and a close leave no fiber that watches blindly. *)
LEMMA TidyEnv ==
  ASSUME Shape, Shape', Recorded, NEW p \in Procs, NEW o \in Occs, Tidy(p), MaxFaults <= 1,
         RunEnds(o) \/ Tick \/ PollFails(p) \/ Crash(p) \/ Close(p)
  PROVE  Tidy(p)'
  <1>0. RowTyped /\ PollTyped /\ EntryTyped /\ FiberTyped /\ Places(p) /\ Fired(p)
    BY DEF Shape, Recorded
  <1>t. Rows(p) /\ Launches(p) /\ Takes(p) /\ Watches(p) /\ Settled
    BY DEF Tidy
  <1>d. p \in DOMAIN pc /\ p \in DOMAIN local /\ p \in DOMAIN prior /\ p \in DOMAIN fiber
    BY <1>0 DEF PollTyped, EntryTyped, FiberTyped
  <1>f. ASSUME faults < MaxFaults, faults' = faults + 1
        PROVE  faults' # 0 /\ \A x \in Occs : fiber[p][x] # "blind"
    <2>1. faults = 0
      BY <1>0, <1>f, TriggersAssumption DEF FiberTyped, MaxFaults
    <2> QED
      BY <1>0, <1>f, <2>1 DEF Fired
  <1>1. CASE RunEnds(o)
    <2>1. UNCHANGED <<now, fires, active, since, last, pc, local, known, occ, prior, fiber, began, faults>>
      BY <1>1 DEF RunEnds, row, memory
    <2>2. RunsOn
      BY <1>0, <1>1 DEF RunEnds, RunsOn, Done, FiberTyped
    <2>3. Rows(p)'
      BY <1>t, <2>1, <2>2, RowsStay
    <2>4. Launches(p)' /\ Watches(p)'
      BY <1>t, <2>1 DEF Launches, Watches, Live, Entered, InTime
    <2>5. Takes(p)'
      <3>1. pc[p] = "superseded" => prior[p].id.occ \in Occs
        BY <1>0, Identities DEF Places, Superseding, EntryTyped
      <3> QED
        BY <1>t, <2>1, <2>2, <3>1 DEF Takes, InTime, RunsOn
    <2>6. Settled'
      BY <1>t, <2>1, <2>2 DEF Settled, RunsOn
    <2> QED
      BY <2>3, <2>4, <2>5, <2>6 DEF Tidy
  <1>2. CASE Tick
    <2>1. /\ UNCHANGED <<fires, active, since, last, run, pc, local, known, occ, prior, fiber, began, faults>>
          /\ now' = now + 1
      BY <1>2 DEF Tick, row, memory
    <2>2. ASSUME NEW x \in Occs, Launching(p, x), InTime(x) PROVE InTime(x)'
      <3>1. now + 1 < began[x] + Lease
        BY <1>2, <2>2 DEF Tick
      <3>2. now \in Nat /\ (began[x] # None => began[x] \in Nat)
        BY <1>0, Occurrences DEF RowTyped
      <3> QED
        BY <2>1, <2>2, <3>1, <3>2 DEF InTime
    <2>3. \A x \in Occs : fiber[p][x] \in Starting => Launching(p, x)
      BY DEF Launching, Starting
    <2>4. pc[p] \in Superseding => occ[p] \in Occs /\ Launching(p, occ[p])
      BY <1>0 DEF Launching, Superseding, Places
    <2>5. Rows(p)'
      BY <1>t, <2>1 DEF Rows, NamesRun, Fine, Done
    <2>6. Launches(p)'
      BY <1>t, <2>1, <2>2, <2>3 DEF Launches, Live, Entered
    <2>7. Takes(p)'
      <3>1. pc[p] \in Superseding /\ InTime(occ[p]) => InTime(occ[p])'
        BY <2>1, <2>2, <2>4
      <3> QED
        BY <1>t, <2>1, <3>1 DEF Takes, Done
    <2>8. Watches(p)' /\ Settled'
      BY <1>t, <2>1 DEF Watches, Settled, Entered, Done
    <2> QED
      BY <2>5, <2>6, <2>7, <2>8 DEF Tidy
  <1>3. CASE PollFails(p)
    <2>1. /\ pc'[p] = "idle" /\ prior'[p] = None /\ faults < MaxFaults /\ faults' = faults + 1
          /\ UNCHANGED <<now, fires, active, since, last, run, local, known, fiber, began>>
      BY <1>d, <1>3 DEF PollFails, Goto, Set, row
    <2>2. Rows(p)'
      BY <1>t, <2>1 DEF Rows, NamesRun, Fine, Done
    <2>3. Launches(p)' /\ Takes(p)'
      BY <1>t, <2>1 DEF Launches, Takes, Live, Entered, InTime, Superseding
    <2>4. Watches(p)' /\ Settled'
      BY <1>f, <1>t, <2>1 DEF Watches, Settled, Done
    <2> QED
      BY <2>2, <2>3, <2>4 DEF Tidy
  <1>4. CASE Crash(p) \/ Close(p)
    <2>1. /\ pc'[p] = "idle" /\ prior'[p] = None /\ local'[p] = None
          /\ \A x \in Occs : fiber'[p][x] = "none"
          /\ UNCHANGED <<now, fires, active, since, last, began>>
      BY <1>d, <1>4 DEF Crash, Close, Restart, Goto, Set, row
    <2>2. RunsOn
      <3>1. CASE Crash(p)
        BY <3>1 DEF Crash, RunsOn, Done
      <3>2. CASE Close(p)
        <4>1. PICK reached \in BOOLEAN :
                run' = [x \in Occs |-> IF Live(p, x) THEN Interrupted(p, x, reached) ELSE run[x]]
          BY <3>2 DEF Close
        <4>2. ASSUME NEW x \in Occs, Done(x) PROVE Interrupted(p, x, reached) = run[x]
          BY <4>2 DEF Interrupted, Done
        <4> QED
          BY <4>1, <4>2 DEF RunsOn, Done
      <3> QED
        BY <1>4, <3>1, <3>2
    <2>3. Rows(p)'
      <3>1. last \in Occs \cup {None}
        BY <1>0 DEF RowTyped
      <3> QED
        BY <1>t, <2>1, <2>2, <3>1 DEF Rows, NamesRun, Fine, RunsOn
    <2>4. Launches(p)' /\ Takes(p)' /\ Watches(p)'
      BY <2>1 DEF Launches, Takes, Watches, Superseding, Starting, Watched
    <2>5. Settled'
      BY <1>t, <2>1, <2>2 DEF Settled, RunsOn
    <2> QED
      BY <2>3, <2>4, <2>5 DEF Tidy
  <1> QED
    BY <1>1, <1>2, <1>3, <1>4

(* It starts with nothing superseded, and supersedes only what is over.    *)
LEMMA InitTidy == ASSUME Init, NEW p \in Procs PROVE Tidy(p)
  BY DEF Init, Tidy, Rows, Launches, Takes, Watches, Settled, Superseding, Starting, Watched

LEMMA NextSupersedes ==
  ASSUME Shape, Recorded, NEW p \in Procs, Lone(p), Supersedes(p), [Next]_vars
  PROVE  Supersedes(p)'
  <1>0. Shape' /\ UNCHANGED setting
    BY NextShape, SettingFixed DEF vars
  <1>1. CASE ~(MaxFaults <= 1 /\ Overlap = "supersede")
    BY <1>0, <1>1 DEF Supersedes, MaxFaults, Overlap
  <1>2. CASE UNCHANGED vars
    <2>1. UNCHANGED <<setting, now, fires, active, since, last, run, pc, local, known, occ, prior, fiber, began, faults>>
      BY <1>2 DEF vars, row, memory
    <2>2. Rows(p) => Rows(p)'
      BY <2>1 DEF Rows, NamesRun, Fine, Done
    <2>3. (Launches(p) => Launches(p)') /\ (Takes(p) => Takes(p)')
      BY <2>1 DEF Launches, Takes, Live, Entered, InTime, Done
    <2>4. (Watches(p) => Watches(p)') /\ (Settled => Settled')
      BY <2>1 DEF Watches, Settled, Entered, Done
    <2> QED
      BY <2>1, <2>2, <2>3, <2>4 DEF Supersedes, Tidy, MaxFaults, Overlap
  <1>3. CASE Next /\ MaxFaults <= 1 /\ Overlap = "supersede"
    <2>1. LoneStep(p) /\ Tidy(p)
      BY <1>3, LoneSteps DEF Supersedes
    <2>2. CASE PollStep(p)
      BY <1>0, <1>3, <2>1, <2>2, TidyResolve, TidyClaim, TidySupersede DEF Supersedes, PollStep
    <2>3. ASSUME NEW o \in Occs, Start(p, o) \/ Launched(p, o) \/ Watch(p, o) \/ Settle(p, o) \/ RecordingFails(p, o) PROVE Supersedes(p)'
      BY <1>0, <1>3, <2>1, <2>3, TidyLaunch DEF Supersedes
    <2>4. ASSUME NEW o \in Occs, RunEnds(o) \/ Tick \/ PollFails(p) \/ Crash(p) \/ Close(p) PROVE Supersedes(p)'
      BY <1>0, <1>3, <2>1, <2>4, TidyEnv DEF Supersedes
    <2> QED
      BY <2>1, <2>2, <2>3, <2>4, Occurrences DEF LoneStep
  <1> QED
    BY <1>1, <1>2, <1>3

-----------------------------------------------------------------------------
(* The theorems *)

(* The inductive invariant is the parts that the steps keep.               *)
LEMMA InvariantParts ==
  IInv <=> Shape /\ Recorded /\ Buffers /\ (Alone => \A p \in setting.procs : Solo(p) /\ Supersedes(p))
  BY TypeParts DEF IInv, Shape, Recorded

LEMMA InitInvariant == Init => IInv
  <1> SUFFICES ASSUME Init PROVE IInv
    OBVIOUS
  <1>1. Shape /\ Recorded /\ Buffers
    BY InitShape, InitRecorded, InitBuffers
  <1>2. setting.procs \subseteq Procs
    BY <1>1, TriggersAssumption DEF Shape, FiberTyped
  <1> QED
    BY <1>1, <1>2, InitSolo, InitTidy, InvariantParts DEF Solo, Supersedes

LEMMA NextInvariant == IInv /\ [Next]_vars => IInv'
  <1> SUFFICES ASSUME IInv, [Next]_vars PROVE IInv'
    OBVIOUS
  <1>1. Shape /\ Recorded /\ Buffers
    BY InvariantParts
  <1>2. Shape' /\ Recorded' /\ Buffers'
    BY <1>1, NextShape, NextRecorded, NextBuffers
  <1>3. UNCHANGED setting
    BY SettingFixed DEF vars
  <1>4. ASSUME Alone PROVE \A p \in setting.procs : Solo(p)' /\ Supersedes(p)'
    <2>1. PICK p \in Procs : Lone(p)
      BY <1>1, <1>4, OnlyOne
    <2>2. Solo(p) /\ Supersedes(p)
      BY <1>4, <2>1, InvariantParts DEF Lone
    <2>3. Solo(p)' /\ Supersedes(p)'
      BY <1>1, <2>1, <2>2, NextSolo, NextSupersedes
    <2> QED
      BY <2>1, <2>3 DEF Lone
  <1>5. (Alone => \A p \in setting.procs : Solo(p) /\ Supersedes(p))'
    BY <1>3, <1>4 DEF Alone
  <1>6. (TypeOK <=> RowTyped /\ PollTyped /\ EntryTyped /\ FiberTyped)'
    BY DEF TypeOK, RowTyped, PollTyped, EntryTyped, FiberTyped
  <1> QED
    BY <1>2, <1>5, <1>6 DEF IInv, Shape, Recorded

(* The row, the schedulers, their fibers and the runner agree in every     *)
(* state as the inductive invariant says: the policy that is applied, who  *)
(* holds the row, who has what is buffered, which run is over.             *)
THEOREM TriggersInvariance == Spec => []IInv
  BY InitInvariant, NextInvariant, PTL DEF Spec

(* The row and the schedulers' memories keep their types.                  *)
THEOREM TriggersTypeCorrect == Spec => []TypeOK
  <1>1. IInv => TypeOK
    BY DEF IInv
  <1> QED
    BY <1>1, TriggersInvariance, PTL

(* A lone scheduler that neither fails nor supersedes has one run in       *)
(* flight at most: it claims a free row only, and the row is free only     *)
(* between its fibers.                                                     *)
THEOREM OneRunAtATime == Spec => []NoOverlap
  <1>1. ASSUME IInv PROVE NoOverlap
    <2>1. SUFFICES ASSUME Alone, MaxFaults = 0, Overlap # "supersede" PROVE Cardinality(Active) <= 1
      BY DEF NoOverlap
    <2>2. PICK p \in Procs : Lone(p)
      BY <1>1, <2>1, OnlyOne, InvariantParts
    <2>3. Sole(p)
      BY <1>1, <2>1, <2>2, InvariantParts DEF Lone, Solo
    <2> QED
      BY <2>3, SoleOverlap
  <1> QED
    BY <1>1, TriggersInvariance, PTL

(* What was skipped never runs, for any number of schedulers and faults;   *)
(* what a lone scheduler superseded is over, with one fault at most.       *)
THEOREM SettledStaysIdle == Spec => []SettledIdle
  <1>1. ASSUME IInv PROVE SettledIdle
    <2>1. SUFFICES ASSUME NEW o \in Occs
                   PROVE  /\ fires[o] = "skipped" => run[o] = "none"
                          /\ fires[o] = "superseded" /\ Alone /\ MaxFaults <= 1 => run[o] # "active"
      BY DEF SettledIdle
    <2>2. fires[o] = "skipped" => run[o] = "none"
      BY <1>1 DEF IInv, Unrun
    <2>3. ASSUME fires[o] = "superseded", Alone, MaxFaults <= 1 PROVE run[o] # "active"
      <3>1. PICK p \in Procs : Lone(p)
        BY <1>1, <2>3, OnlyOne, InvariantParts
      <3>2. Overlap = "supersede"
        BY <1>1, <2>3 DEF IInv, Ruled
      <3>3. Tidy(p)
        BY <1>1, <2>3, <3>1, <3>2, InvariantParts DEF Lone, Supersedes
      <3> QED
        BY <2>3, <3>3 DEF Tidy, Settled, Done
    <2> QED
      BY <2>2, <2>3
  <1> QED
    BY <1>1, TriggersInvariance, PTL

(* The latest buffered occurrence is in the row, in the poll that took it, *)
(* in a fiber, or has run, for any number of schedulers.                   *)
THEOREM BufferedIsKept == Spec => []BufferedKept
  <1>1. IInv => BufferedKept
    BY DEF IInv, Buffers, Kept, BufferedKept
  <1> QED
    BY <1>1, TriggersInvariance, PTL
=============================================================================
