---------------------------- MODULE CacheProofs ----------------------------
(***************************************************************************)
(* The step cache and the store of its artifacts, for every value of their *)
(* constants.                                                              *)
(*                                                                         *)
(* The cache: an entry is right under its key, what the shared tier offers *)
(* can be replayed from it, and an eviction removes only what was judged.  *)
(* The store: a collector that shares its process with every writer        *)
(* removes nothing that is published or recorded, provided that the grace  *)
(* exceeds the time an attempt takes to record its blob plus the time the  *)
(* mark takes.                                                             *)
(***************************************************************************)
EXTENDS StepCache, ArtifactGc, TLAPS

(* Entries pair a run and a result.                                        *)
LEMMA EntryTyped ==
    /\ \A r \in Runs, x \in Results : EntryOf(r, x) \in Entries
    /\ \A e \in Entries : e.result \in Results
  BY DEF Entries, EntryOf

---------------------------------------------------------------------------
(* The types of what is stored, of what a dispatch holds, and of the       *)
(* counters.                                                               *)
StoreTyped ==
    /\ head \in [Machines -> Entries \cup {NoEntry}]
    /\ ledger \in [Machines -> SUBSET Entries]
    /\ artifact \in [Machines -> [Results -> {"absent", "ok", "corrupt"}]]
    /\ inputs \in [Machines -> Inputs]
    /\ remote \in Entries \cup {NoEntry} /\ remoteArtifacts \subseteq Results
    /\ row \in [Runs -> [result : Results \cup {NoResult}, verified : BOOLEAN, quarantined : BOOLEAN]]
    /\ given \in [Runs -> Results \cup {NoResult}]
    /\ condemned \in [Machines -> SUBSET Entries]

Places == Steps \cup {"absent", "done", "failed"}
LocalTyped ==
    /\ pc \in [Runs -> Places]
    /\ cached \in [Runs -> Entries \cup {NoEntry}] /\ snap \in [Runs -> Inputs]
    /\ val \in [Runs -> Results \cup {NoResult}] /\ shareable \in [Runs -> BOOLEAN]

BoundsTyped == edits \in 0..MaxEdits /\ faults \in 0..MaxFaults /\ setting \in Settings

(* The invariant in the parts that the proofs below treat one by one.      *)
LEMMA Parts ==
    IInv <=> StoreTyped /\ LocalTyped /\ BoundsTyped /\ Durable /\ \A r \in Runs : Dispatch(r)
  BY DEF IInv, TypeOK, StoreTyped, LocalTyped, BoundsTyped, Places

(* And the invariant put together again from its parts in the next state.  *)
LEMMA Whole ==
    ASSUME StoreTyped', LocalTyped', BoundsTyped', Durable', \A r \in Runs : Dispatch(r)'
    PROVE IInv'
  BY DEF IInv, TypeOK, StoreTyped, LocalTyped, BoundsTyped, Places

(* A step of run r leaves what its siblings hold alone, and nothing that   *)
(* they rely on is taken away.                                             *)
Alone(r) ==
    /\ \A q \in Runs \ {r} :
          /\ pc'[q] = pc[q] /\ cached'[q] = cached[q] /\ snap'[q] = snap[q]
          /\ val'[q] = val[q] /\ shareable'[q] = shareable[q]
    /\ inputs' = inputs /\ remoteArtifacts \subseteq remoteArtifacts'
    /\ \A m \in Machines : condemned[m] \subseteq condemned'[m]

(* A step that keeps what is stored right, and takes nothing away.          *)
StoreStep ==
    /\ StoreTyped' /\ Durable' /\ (Fault \/ NoFault)
    /\ inputs' = inputs /\ remoteArtifacts \subseteq remoteArtifacts'
    /\ \A m \in Machines : condemned[m] \subseteq condemned'[m]

(* Run r goes to another step, holding e, s, x and b there.                 *)
Move(r, to, e, s, x, b) ==
    /\ pc' = [pc EXCEPT ![r] = to]
    /\ cached' = [cached EXCEPT ![r] = e] /\ snap' = [snap EXCEPT ![r] = s]
    /\ val' = [val EXCEPT ![r] = x] /\ shareable' = [shareable EXCEPT ![r] = b]

Fits(r, to, e, s, x, b) ==
    /\ to \in Steps /\ e \in Entries \cup {NoEntry} /\ s \in Inputs
    /\ x \in Results \cup {NoResult} /\ b \in BOOLEAN
    /\ Right(e) /\ (to \in Looked => e \in Entries)
    /\ to \in {"stale", "corrupt"} => e \in condemned'[On[r]]
    /\ to \in Computed => x \in Results
    /\ to = "settle" => x.read = s \/ inputs[On[r]] # s
    /\ to \in {"artifacts", "record", "entry"} => x.read = "declared"
    /\ b => to \in {"record", "entry", "conflict"} /\ x \in remoteArtifacts'
    /\ to = "entry" => b

(* A step of run r disturbs nothing that its siblings are known to hold.    *)
LEMMA Siblings ==
    ASSUME IInv, NEW r \in Runs, Alone(r)
    PROVE \A q \in Runs \ {r} : Dispatch(q)'
<1> SUFFICES ASSUME NEW q \in Runs \ {r} PROVE Dispatch(q)'
  OBVIOUS
<1>1. Dispatch(q) /\ On[q] \in Machines
  BY StepCacheAssumption DEF IInv, StepCacheAssumption
<1> QED
  BY <1>1 DEF Alone, Dispatch, Right

(* A dispatch that ends holds nothing.                                     *)
LEMMA Ends ==
    ASSUME IInv, NEW r \in Runs, NEW to \in {"lookup", "done", "failed"},
           pc' = [pc EXCEPT ![r] = to], Forget(r), StoreStep
    PROVE IInv'
<1> USE StepCacheAssumption DEF StepCacheAssumption, StoreStep, Move, Fits
<1>t. LocalTyped /\ BoundsTyped
  BY Parts
<1>1. LocalTyped'
  <2>1. pc' \in [Runs -> Places]
    BY <1>t DEF LocalTyped, Places, Steps
  <2>2. cached' \in [Runs -> Entries \cup {NoEntry}] /\ snap' \in [Runs -> Inputs]
    BY <1>t DEF LocalTyped, Forget, Inputs
  <2>3. val' \in [Runs -> Results \cup {NoResult}]
    BY <1>t DEF LocalTyped, Forget
  <2>4. shareable' \in [Runs -> BOOLEAN]
    BY <1>t, Zenon DEF LocalTyped, Forget
  <2> QED
    BY <2>1, <2>2, <2>3, <2>4 DEF LocalTyped
<1>2. BoundsTyped'
  BY <1>t DEF BoundsTyped, Fault, NoFault, bounds
<1>3. Alone(r)
  BY <1>t DEF LocalTyped, Alone, Forget
<1>4. pc'[r] = to /\ cached'[r] = NoEntry /\ shareable'[r] = FALSE
  BY <1>t DEF LocalTyped, Forget
<1>5. Dispatch(r)'
  BY <1>4 DEF Dispatch, Right, Looked, Computed
<1> QED
  BY <1>1, <1>2, <1>3, <1>5, Siblings, Whole

(* A step that stores nothing keeps what is stored.                        *)
LEMMA SameStore ==
    ASSUME IInv, UNCHANGED <<store, inputs, tiers, row, condemned>>, Fault \/ NoFault,
           given' \in [Runs -> Results \cup {NoResult}]
    PROVE StoreStep
  BY Parts DEF StoreStep, StoreTyped, Durable, RemoteServable, Right, store, tiers

(* A dispatch that goes on to another step.                                *)
LEMMA GoesOn ==
    ASSUME IInv, StoreStep, NEW r \in Runs, NEW to, NEW e, NEW s, NEW x, NEW b,
           Move(r, to, e, s, x, b), Fits(r, to, e, s, x, b)
    PROVE IInv'
<1> USE StepCacheAssumption DEF StepCacheAssumption, StoreStep, Move, Fits
<1>t. LocalTyped /\ BoundsTyped
  BY Parts
<1>1. LocalTyped'
  <2>1. pc' \in [Runs -> Places]
    BY <1>t DEF LocalTyped, Places
  <2>2. cached' \in [Runs -> Entries \cup {NoEntry}] /\ snap' \in [Runs -> Inputs]
    BY <1>t DEF LocalTyped
  <2>3. val' \in [Runs -> Results \cup {NoResult}]
    BY <1>t DEF LocalTyped
  <2>4. shareable' \in [Runs -> BOOLEAN]
    BY <1>t, Zenon DEF LocalTyped
  <2> QED
    BY <2>1, <2>2, <2>3, <2>4 DEF LocalTyped
<1>2. BoundsTyped'
  BY <1>t DEF BoundsTyped, Fault, NoFault, bounds
<1>3. Alone(r)
  BY <1>t DEF LocalTyped, Alone
<1>4. /\ pc'[r] = to /\ cached'[r] = e /\ snap'[r] = s /\ val'[r] = x
  BY <1>t DEF LocalTyped
<1>5. shareable'[r] = b
  BY <1>t, Zenon DEF LocalTyped
<1>6. Dispatch(r)'
  BY <1>4, <1>5 DEF Dispatch
<1> QED
  BY <1>1, <1>2, <1>3, <1>6, Siblings, Whole

(* What a step leaves alone is what it was.                                *)
LEMMA Kept ==
    ASSUME IInv, NEW r \in Runs
    PROVE /\ cached = [cached EXCEPT ![r] = cached[r]] /\ snap = [snap EXCEPT ![r] = snap[r]]
          /\ val = [val EXCEPT ![r] = val[r]] /\ shareable = [shareable EXCEPT ![r] = shareable[r]]
          /\ cached[r] \in Entries \cup {NoEntry} /\ snap[r] \in Inputs
          /\ val[r] \in Results \cup {NoResult} /\ shareable[r] \in BOOLEAN
          /\ On[r] \in Machines
<1>t. LocalTyped
  BY Parts
<1>1. shareable = [shareable EXCEPT ![r] = shareable[r]] /\ shareable[r] \in BOOLEAN
  BY <1>t, Zenon DEF LocalTyped
<1> QED
  BY <1>t, <1>1, StepCacheAssumption DEF LocalTyped, StepCacheAssumption

---------------------------------------------------------------------------
(* The lookup holds a row of the local store.                              *)
LEMMA LookupStep == ASSUME IInv, NEW r \in Runs, Lookup(r) PROVE IInv'
<1>1. PICK to \in {"measure", "remote", "row"} :
         /\ pc[r] = "lookup" /\ pc' = [pc EXCEPT ![r] = to]
         /\ to = "measure" => head[On[r]] # NoEntry
  BY DEF Lookup, Goto
<1>2. Move(r, to, head[On[r]], snap[r], val[r], shareable[r])
  BY <1>1, Kept DEF Move, Lookup, Hold
<1>3. head[On[r]] \in Entries \cup {NoEntry} /\ Right(head[On[r]]) /\ ~shareable[r]
  BY <1>1, Parts, Kept DEF StoreTyped, Durable, Dispatch
<1>4. Fits(r, to, head[On[r]], snap[r], val[r], shareable[r])
  BY <1>1, <1>3, Kept DEF Fits, Steps, Computed, Looked
<1>5. StoreStep
  BY SameStore, Parts DEF StoreTyped, Lookup
<1> QED
  BY <1>2, <1>4, <1>5, GoesOn

(* The shared tier answers, or fails the dispatch.                         *)
LEMMA RemoteGetStep == ASSUME IInv, NEW r \in Runs, RemoteGet(r) PROVE IInv'
<1>0. given \in [Runs -> Results \cup {NoResult}]
  BY Parts DEF StoreTyped
<1>1. CASE Fail(r) /\ Fault
  <2>1. StoreStep
    BY <1>0, <1>1, SameStore DEF RemoteGet, Fail
  <2> QED
    BY <1>1, <2>1, Ends DEF Fail
<1>2. CASE Goto(r, "remote", IF remote = NoEntry THEN "row" ELSE "writeback") /\ Hold(r, remote)
           /\ NoFault /\ UNCHANGED given
  <2>1. PICK to \in {"row", "writeback"} :
           /\ pc[r] = "remote" /\ pc' = [pc EXCEPT ![r] = to]
           /\ to = "writeback" => remote # NoEntry
    BY <1>2 DEF Goto
  <2>2. Move(r, to, remote, snap[r], val[r], shareable[r])
    BY <1>2, <2>1, Kept DEF Move, Hold
  <2>3. remote \in Entries \cup {NoEntry} /\ Right(remote) /\ ~shareable[r]
    BY <2>1, Parts DEF StoreTyped, Durable, Dispatch
  <2>4. Fits(r, to, remote, snap[r], val[r], shareable[r])
    BY <2>1, <2>3, Kept DEF Fits, Steps, Computed, Looked
  <2>5. StoreStep
    BY <1>0, <1>2, SameStore DEF RemoteGet
  <2> QED
    BY <2>2, <2>4, <2>5, GoesOn
<1> QED
  BY <1>1, <1>2 DEF RemoteGet

(* A right entry is put into a local store.                                *)
LEMMA Puts ==
    ASSUME IInv, NEW m \in Machines, NEW e \in Entries, Right(e), PutLocal(m, e),
           UNCHANGED <<inputs, tiers, row, condemned>>, Fault \/ NoFault,
           given' \in [Runs -> Results \cup {NoResult}]
    PROVE StoreStep
<1>t. StoreTyped /\ Durable
  BY Parts
<1>1. ledger' \in [Machines -> SUBSET Entries] /\ \A n \in Machines : ledger'[n] \subseteq ledger[n] \cup {e}
  BY <1>t DEF StoreTyped, PutLocal
<1>2. /\ head' \in [Machines -> Entries \cup {NoEntry}]
      /\ \A n \in Machines : head'[n] \in {head[n], e}
  BY <1>t DEF StoreTyped, PutLocal, PutHead
<1>3. StoreTyped'
  BY <1>t, <1>1, <1>2 DEF StoreTyped, PutLocal, tiers
<1>4. Durable'
  BY <1>t, <1>1, <1>2 DEF Durable, Right, RemoteServable, tiers
<1> QED
  BY <1>3, <1>4 DEF StoreStep, tiers

(* The shared entry becomes a local row.                                   *)
LEMMA WriteBackStep == ASSUME IInv, NEW r \in Runs, WriteBack(r) PROVE IInv'
<1>1. PICK to \in {"measure", "reget"} : pc[r] = "writeback" /\ pc' = [pc EXCEPT ![r] = to]
  BY DEF WriteBack, Goto
<1>2. Right(cached[r]) /\ cached[r] \in Entries /\ ~shareable[r]
  BY <1>1, Parts DEF Dispatch, Looked
<1>3. Move(r, to, cached[r], snap[r], val[r], shareable[r])
  BY <1>1, Kept DEF Move, WriteBack, local
<1>4. Fits(r, to, cached[r], snap[r], val[r], shareable[r])
  BY <1>1, <1>2, Kept DEF Fits, Steps, Computed, Looked
<1>5. StoreStep
  BY <1>2, Puts, Parts, Kept DEF StoreTyped, WriteBack
<1> QED
  BY <1>3, <1>4, <1>5, GoesOn

(* The durable local row is served.                                        *)
LEMMA ReGetStep == ASSUME IInv, NEW r \in Runs, ReGet(r) PROVE IInv'
<1> DEFINE e == IF head[On[r]] = NoEntry THEN cached[r] ELSE head[On[r]]
<1>1. pc[r] = "reget" /\ Move(r, "measure", e, snap[r], val[r], shareable[r])
  BY Kept DEF Move, ReGet, Goto, Hold
<1>2. e \in Entries /\ Right(e) /\ ~shareable[r]
  BY <1>1, Parts, Kept DEF StoreTyped, Durable, Dispatch, Looked
<1>3. Fits(r, "measure", e, snap[r], val[r], shareable[r])
  BY <1>2, Kept DEF Fits, Steps, Computed, Looked
<1>4. StoreStep
  BY SameStore, Parts DEF StoreTyped, ReGet
<1> HIDE DEF e
<1> QED
  BY <1>1, <1>3, <1>4, GoesOn

(* A row is judged poison.                                                 *)
LEMMA Condemns ==
    ASSUME IInv, NEW m \in Machines, NEW e \in Entries,
           condemned' = [condemned EXCEPT ![m] = @ \cup {e}],
           UNCHANGED <<store, inputs, tiers, row, given>>, Fault \/ NoFault
    PROVE StoreStep /\ e \in condemned'[m]
<1>t. StoreTyped /\ Durable
  BY Parts
<1>1. /\ condemned' \in [Machines -> SUBSET Entries] /\ e \in condemned'[m]
      /\ \A n \in Machines : condemned[n] \subseteq condemned'[n]
  BY <1>t DEF StoreTyped
<1>2. StoreTyped'
  BY <1>t, <1>1 DEF StoreTyped, store, tiers
<1>3. Durable'
  BY <1>t DEF Durable, Right, RemoteServable, store, tiers
<1> QED
  BY <1>1, <1>2, <1>3 DEF StoreStep, tiers

(* A measured mismatch condemns the row that is held.                      *)
LEMMA MeasureStep == ASSUME IInv, NEW r \in Runs, Measure(r) PROVE IInv'
<1>0. pc[r] = "measure" /\ UNCHANGED <<store, inputs, tiers, row, local, given>>
  BY DEF Measure, Goto
<1>1. Right(cached[r]) /\ cached[r] \in Entries /\ ~shareable[r]
  BY <1>0, Parts DEF Dispatch, Looked
<1>2. CASE Goto(r, "measure", "stale") /\ condemned' = [condemned EXCEPT ![On[r]] = @ \cup {cached[r]}] /\ NoFault
  <2>1. Move(r, "stale", cached[r], snap[r], val[r], shareable[r])
    BY <1>0, <1>2, Kept DEF Move, Goto, local
  <2>2. StoreStep /\ cached[r] \in condemned'[On[r]]
    BY <1>0, <1>1, <1>2, Condemns, Kept
  <2>3. Fits(r, "stale", cached[r], snap[r], val[r], shareable[r])
    BY <1>1, <2>2, Kept DEF Fits, Steps, Computed, Looked
  <2> QED
    BY <2>1, <2>2, <2>3, GoesOn
<1>3. ASSUME NEW to \in {"replay", "row"}, Goto(r, "measure", to), Fault \/ NoFault, UNCHANGED condemned
      PROVE IInv'
  <2>1. Move(r, to, cached[r], snap[r], val[r], shareable[r])
    BY <1>0, <1>3, Kept DEF Move, Goto, local
  <2>2. StoreStep
    BY <1>0, <1>3, SameStore, Parts DEF StoreTyped
  <2>3. Fits(r, to, cached[r], snap[r], val[r], shareable[r])
    BY <1>1, <1>3, Kept DEF Fits, Steps, Computed, Looked
  <2> QED
    BY <2>1, <2>2, <2>3, GoesOn
<1> QED
  BY <1>2, <1>3 DEF Measure

(* The flow is given a result, and its dispatch ends.                      *)
LEMMA Served ==
    ASSUME IInv, NEW r \in Runs, NEW x \in Results \cup {NoResult}, Serve(r, x)
    PROVE /\ given' \in [Runs -> Results \cup {NoResult}]
          /\ pc' = [pc EXCEPT ![r] = "done"] /\ Forget(r)
  BY Parts DEF Serve, StoreTyped

(* The outputs of a hit are materialized.                                  *)
LEMMA ReplayStep == ASSUME IInv, NEW r \in Runs, Replay(r) PROVE IInv'
<1>0. pc[r] \in {"replay", "retry"} /\ UNCHANGED <<store, inputs, tiers, row>> /\ NoFault
  BY DEF Replay
<1>1. /\ Right(cached[r]) /\ cached[r] \in Entries /\ ~shareable[r]
      /\ cached[r].result \in Results
  BY <1>0, Parts, EntryTyped DEF Dispatch, Looked
<1>2. CASE Serve(r, cached[r].result) /\ UNCHANGED condemned
  <2>1. given' \in [Runs -> Results \cup {NoResult}] /\ pc' = [pc EXCEPT ![r] = "done"] /\ Forget(r)
    BY <1>1, <1>2, Served
  <2>2. StoreStep
    BY <1>0, <1>2, <2>1, SameStore
  <2> QED
    BY <2>1, <2>2, Ends
<1>3. ASSUME NEW to \in {"hydrate", "row"}, Goto(r, pc[r], to), UNCHANGED <<local, given, condemned>>
      PROVE IInv'
  <2>1. Move(r, to, cached[r], snap[r], val[r], shareable[r])
    BY <1>3, Kept DEF Move, Goto, local
  <2>2. StoreStep
    BY <1>0, <1>3, SameStore, Parts DEF StoreTyped
  <2>3. Fits(r, to, cached[r], snap[r], val[r], shareable[r])
    BY <1>1, <1>3, Kept DEF Fits, Steps, Computed, Looked
  <2> QED
    BY <2>1, <2>2, <2>3, GoesOn
<1>4. CASE /\ Goto(r, pc[r], "corrupt")
           /\ condemned' = [condemned EXCEPT ![On[r]] = @ \cup {cached[r]}]
           /\ UNCHANGED <<local, given>>
  <2>1. Move(r, "corrupt", cached[r], snap[r], val[r], shareable[r])
    BY <1>4, Kept DEF Move, Goto, local
  <2>2. StoreStep /\ cached[r] \in condemned'[On[r]]
    BY <1>0, <1>1, <1>4, Condemns, Kept
  <2>3. Fits(r, "corrupt", cached[r], snap[r], val[r], shareable[r])
    BY <1>1, <2>2, Kept DEF Fits, Steps, Computed, Looked
  <2> QED
    BY <2>1, <2>2, <2>3, GoesOn
<1> QED
  BY <1>2, <1>3, <1>4 DEF Replay

(* A missing artifact is fetched.                                          *)
LEMMA HydrateStep == ASSUME IInv, NEW r \in Runs, Hydrate(r) PROVE IInv'
<1>0. /\ pc[r] = "hydrate"
      /\ UNCHANGED <<head, ledger, inputs, tiers, row, local, given, condemned>>
      /\ Fault \/ NoFault
  BY DEF Hydrate
<1>1. PICK to \in {"retry", "row"} : pc' = [pc EXCEPT ![r] = to]
  BY DEF Hydrate, Goto
<1>2. Right(cached[r]) /\ cached[r] \in Entries /\ ~shareable[r] /\ StoreTyped /\ Durable
  BY <1>0, Parts DEF Dispatch, Looked
<1>3. artifact' \in [Machines -> [Results -> {"absent", "ok", "corrupt"}]]
  <2>1. CASE UNCHANGED artifact
    BY <1>2, <2>1 DEF StoreTyped
  <2>2. CASE artifact' = [artifact EXCEPT ![On[r]][cached[r].result] = IF @ = "absent" THEN "ok" ELSE @]
    BY <1>2, <2>2, Kept, EntryTyped DEF StoreTyped
  <2> QED
    BY <2>1, <2>2 DEF Hydrate
<1>4. StoreStep
  <2>1. StoreTyped'
    BY <1>0, <1>2, <1>3 DEF StoreTyped, tiers
  <2>2. Durable'
    BY <1>0, <1>2 DEF Durable, Right, RemoteServable, tiers
  <2> QED
    BY <1>0, <2>1, <2>2 DEF StoreStep, tiers
<1>5. Move(r, to, cached[r], snap[r], val[r], shareable[r])
  BY <1>0, <1>1, Kept DEF Move, local
<1>6. Fits(r, to, cached[r], snap[r], val[r], shareable[r])
  BY <1>1, <1>2, Kept DEF Fits, Steps, Computed, Looked
<1> QED
  BY <1>4, <1>5, <1>6, GoesOn

(* Poison leaves the local store.                                          *)
LEMMA EvictStep == ASSUME IInv, NEW r \in Runs, Evict(r) PROVE IInv'
<1>0. /\ pc[r] \in {"stale", "corrupt"} /\ NoFault /\ given' = given
      /\ UNCHANGED <<ledger, artifact, inputs, tiers, row, condemned>>
  BY DEF Evict, Fail
<1>1. /\ Right(cached[r]) /\ cached[r] \in Entries /\ ~shareable[r] /\ StoreTyped /\ Durable
      /\ On[r] \in Machines
  BY <1>0, Parts, Kept DEF Dispatch, Looked
<1>2. /\ head' \in [Machines -> Entries \cup {NoEntry}]
      /\ \A m \in Machines : head'[m] \in {head[m], NoEntry}
  BY <1>1 DEF StoreTyped, Evict, EvictLocal, EvictHead
<1>3. StoreStep
  <2>1. StoreTyped'
    BY <1>0, <1>1, <1>2 DEF StoreTyped, tiers
  <2>2. Durable'
    BY <1>0, <1>1, <1>2 DEF Durable, Right, RemoteServable, tiers
  <2> QED
    BY <1>0, <2>1, <2>2 DEF StoreStep, tiers
<1>4. CASE Fail(r)
  BY <1>3, <1>4, Ends DEF Fail
<1>5. CASE Goto(r, pc[r], "row") /\ UNCHANGED <<local, given>>
  <2>1. Move(r, "row", cached[r], snap[r], val[r], shareable[r])
    BY <1>5, Kept DEF Move, Goto, local
  <2>2. Fits(r, "row", cached[r], snap[r], val[r], shareable[r])
    BY <1>1, Kept DEF Fits, Steps, Computed, Looked
  <2> QED
    BY <1>3, <2>1, <2>2, GoesOn
<1> QED
  BY <1>4, <1>5 DEF Evict

(* prepare takes its snapshot.                                             *)
LEMMA PrepareStep == ASSUME IInv, NEW r \in Runs, Prepare(r) PROVE IInv'
<1>0. /\ pc[r] = "prepare" /\ (Fault \/ NoFault) /\ given' = given
      /\ UNCHANGED <<store, inputs, tiers, row, condemned>>
  BY DEF Prepare, Goto, Fail
<1>1. Right(cached[r]) /\ ~shareable[r] /\ inputs[On[r]] \in Inputs
  BY <1>0, Parts, Kept DEF Dispatch, StoreTyped
<1>2. StoreStep
  BY <1>0, SameStore, Parts DEF StoreTyped
<1>3. CASE Fail(r)
  BY <1>2, <1>3, Ends DEF Fail
<1>4. CASE /\ Goto(r, "prepare", "body") /\ snap' = [snap EXCEPT ![r] = inputs[On[r]]]
           /\ UNCHANGED <<cached, val, shareable, given>>
  <2>1. Move(r, "body", cached[r], inputs[On[r]], val[r], shareable[r])
    BY <1>4, Kept DEF Move, Goto
  <2>2. Fits(r, "body", cached[r], inputs[On[r]], val[r], shareable[r])
    BY <1>1, Kept DEF Fits, Steps, Computed, Looked
  <2> QED
    BY <1>2, <2>1, <2>2, GoesOn
<1> QED
  BY <1>3, <1>4 DEF Prepare

(* The body reads what the workspace holds now.                            *)
LEMMA BodyStep == ASSUME IInv, NEW r \in Runs, Body(r) PROVE IInv'
<1>0. /\ pc[r] = "body" /\ NoFault /\ pc' = [pc EXCEPT ![r] = "settle"]
      /\ UNCHANGED <<store, inputs, tiers, row, cached, snap, shareable, given, condemned>>
  BY DEF Body, Goto
<1>1. Right(cached[r]) /\ ~shareable[r] /\ inputs[On[r]] \in Inputs
  BY <1>0, Parts, Kept DEF Dispatch, StoreTyped
<1>2. StoreStep
  BY <1>0, SameStore, Parts DEF StoreTyped
<1>3. PICK o \in setting.outs : val' = [val EXCEPT ![r] = [read |-> inputs[On[r]], out |-> o]]
  BY DEF Body
<1>4. o \in Outs
  BY Parts, StepCacheAssumption DEF StepCacheAssumption, BoundsTyped
<1> DEFINE x == [read |-> inputs[On[r]], out |-> o]
<1>5. x \in Results /\ x.read = inputs[On[r]]
  BY <1>1, <1>4 DEF Results
<1>6. Move(r, "settle", cached[r], snap[r], x, shareable[r])
  BY <1>0, <1>3, Kept DEF Move
<1> HIDE DEF x
<1>7. Fits(r, "settle", cached[r], snap[r], x, shareable[r])
  BY <1>1, <1>5, Kept DEF Fits, Steps, Computed, Looked
<1> QED
  BY <1>2, <1>6, <1>7, GoesOn

(* The row of an attempt is replaced by one that is right.                 *)
LEMMA Writes ==
    ASSUME IInv, NEW r \in Runs, NEW v, row' = [row EXCEPT ![r] = v],
           v \in [result : Results, verified : BOOLEAN, quarantined : BOOLEAN],
           v.verified => v.result.read = "declared",
           artifact' \in [Machines -> [Results -> {"absent", "ok", "corrupt"}]],
           given' \in [Runs -> Results \cup {NoResult}],
           UNCHANGED <<head, ledger, inputs, tiers, condemned>>, Fault \/ NoFault
    PROVE StoreStep
<1>t. StoreTyped /\ Durable
  BY Parts
<1>1. v \in [result : Results \cup {NoResult}, verified : BOOLEAN, quarantined : BOOLEAN] /\ v.result \in Results
  OBVIOUS
<1>2. row' \in [Runs -> [result : Results \cup {NoResult}, verified : BOOLEAN, quarantined : BOOLEAN]]
  BY <1>t, <1>1 DEF StoreTyped
<1>3. row'[r] = v /\ \A q \in Runs \ {r} : row'[q] = row[q]
  BY <1>t DEF StoreTyped
<1>4. StoreTyped'
  BY <1>t, <1>2 DEF StoreTyped, tiers
<1>5. Durable'
  BY <1>t, <1>1, <1>3 DEF Durable, Right, RemoteServable, tiers
<1> QED
  BY <1>4, <1>5 DEF StoreStep, tiers

(* A succeeded attempt is replayed.                                        *)
LEMMA ReplayRowStep == ASSUME IInv, NEW r \in Runs, ReplayRow(r) PROVE IInv'
<1>0. pc[r] = "row" /\ NoFault /\ UNCHANGED <<store, inputs, tiers, condemned>>
  BY DEF ReplayRow
<1>t. /\ Right(cached[r]) /\ ~shareable[r] /\ StoreTyped /\ Durable
      /\ row[r] \in [result : Results \cup {NoResult}, verified : BOOLEAN, quarantined : BOOLEAN]
      /\ row[r].result \in Results \cup {NoResult}
  BY <1>0, Parts DEF Dispatch, StoreTyped
<1>1. CASE Goto(r, "row", "prepare") /\ UNCHANGED <<row, local, given>>
  <2>1. Move(r, "prepare", cached[r], snap[r], val[r], shareable[r])
    BY <1>1, Kept DEF Move, Goto, local
  <2>2. Fits(r, "prepare", cached[r], snap[r], val[r], shareable[r])
    BY <1>t, Kept DEF Fits, Steps, Computed, Looked
  <2>3. StoreStep
    BY <1>0, <1>1, <1>t, SameStore DEF StoreTyped
  <2> QED
    BY <2>1, <2>2, <2>3, GoesOn
<1>2. CASE Serve(r, row[r].result) /\ UNCHANGED row
  <2>1. given' \in [Runs -> Results \cup {NoResult}] /\ pc' = [pc EXCEPT ![r] = "done"] /\ Forget(r)
    BY <1>t, <1>2, Served
  <2>2. StoreStep
    BY <1>0, <1>2, <2>1, SameStore
  <2> QED
    BY <2>1, <2>2, Ends
<1>3. CASE /\ row[r] # NoRow /\ Converges(row[r]) /\ Goto(r, "row", "artifacts")
           /\ val' = [val EXCEPT ![r] = row[r].result]
           /\ UNCHANGED <<cached, snap, shareable, row, given>>
  <2>1. row[r].result \in Results /\ row[r].result.read = "declared"
    BY <1>3, <1>t DEF Durable, Converges
  <2>2. Move(r, "artifacts", cached[r], snap[r], row[r].result, shareable[r])
    BY <1>3, Kept DEF Move, Goto
  <2>3. Fits(r, "artifacts", cached[r], snap[r], row[r].result, shareable[r])
    BY <1>t, <2>1, Kept DEF Fits, Steps, Computed, Looked
  <2>4. StoreStep
    BY <1>0, <1>3, <1>t, SameStore DEF StoreTyped
  <2> QED
    BY <2>2, <2>3, <2>4, GoesOn
<1>4. CASE /\ row[r] # NoRow /\ row' = [row EXCEPT ![r].quarantined = TRUE]
           /\ IF Strict THEN Fail(r) ELSE Serve(r, row[r].result)
  <2> DEFINE v == [row[r] EXCEPT !.quarantined = TRUE]
  <2>1. v \in [result : Results, verified : BOOLEAN, quarantined : BOOLEAN]
    BY <1>4, <1>t DEF Durable
  <2>2. v.verified => v.result.read = "declared"
    BY <1>4, <1>t DEF Durable
  <2>3. row' = [row EXCEPT ![r] = v]
    BY <1>4
  <2> HIDE DEF v
  <2>4. PICK to \in {"done", "failed"} :
           /\ given' \in [Runs -> Results \cup {NoResult}]
           /\ pc' = [pc EXCEPT ![r] = to] /\ Forget(r)
    BY <1>4, <1>t, Served DEF Fail, StoreTyped
  <2>5. StoreStep
    BY <1>0, <1>t, <2>1, <2>2, <2>3, <2>4, Writes DEF StoreTyped, store
  <2> QED
    BY <2>4, <2>5, Ends
<1> QED
  BY <1>1, <1>2, <1>3, <1>4 DEF ReplayRow

(* settle measures again: what it lets into the cache read what the key    *)
(* declares.                                                               *)
LEMMA SettleStep == ASSUME IInv, NEW r \in Runs, Settle(r) PROVE IInv'
<1>0. pc[r] = "settle" /\ NoFault /\ UNCHANGED <<head, ledger, inputs, tiers, condemned>>
  BY DEF Settle
<1>t. /\ Right(cached[r]) /\ ~shareable[r] /\ StoreTyped /\ val[r] \in Results
      /\ val[r].read = snap[r] \/ inputs[On[r]] # snap[r]
  BY <1>0, Parts DEF Dispatch, Computed
<1>1. CASE ~Unmoved(r)
  <2>1. Fail(r) /\ UNCHANGED <<artifact, row>>
    BY <1>1 DEF Settle
  <2>2. StoreStep
    BY <1>0, <1>t, <2>1, SameStore DEF StoreTyped, Fail, store
  <2> QED
    BY <2>1, <2>2, Ends DEF Fail
<1>2. CASE Unmoved(r)
  <2> DEFINE v == [result |-> val[r], verified |-> ReadSetVerified(r), quarantined |-> FALSE]
  <2>1. v \in [result : Results, verified : BOOLEAN, quarantined : BOOLEAN]
    BY <1>t DEF ReadSetVerified
  <2>2. v.verified => val[r].read = "declared"
    BY <1>2, <1>t DEF Unmoved, ReadSetVerified
  <2>3. row' = [row EXCEPT ![r] = v] /\ artifact' = [artifact EXCEPT ![On[r]][val[r]] = "ok"]
    BY <1>2 DEF Settle
  <2>4. artifact' \in [Machines -> [Results -> {"absent", "ok", "corrupt"}]]
    BY <1>t, <2>3, Kept DEF StoreTyped
  <2>5. v.result = val[r] /\ (v.verified <=> ReadSetVerified(r))
    OBVIOUS
  <2> HIDE DEF v
  <2>6. CASE ReadSetVerified(r)
    <3>1. Goto(r, "settle", "artifacts") /\ UNCHANGED <<local, given>>
      BY <1>2, <2>6 DEF Settle
    <3>2. Move(r, "artifacts", cached[r], snap[r], val[r], shareable[r])
      BY <3>1, Kept DEF Move, Goto, local
    <3>3. Fits(r, "artifacts", cached[r], snap[r], val[r], shareable[r])
      BY <1>t, <2>2, <2>5, <2>6, Kept DEF Fits, Steps, Computed, Looked
    <3>4. StoreStep
      BY <1>0, <1>t, <2>1, <2>2, <2>3, <2>4, <2>5, <3>1, Writes DEF StoreTyped
    <3> QED
      BY <3>2, <3>3, <3>4, GoesOn
  <2>7. CASE ~ReadSetVerified(r)
    <3>1. Serve(r, val[r])
      BY <1>2, <2>7 DEF Settle
    <3>2. given' \in [Runs -> Results \cup {NoResult}] /\ pc' = [pc EXCEPT ![r] = "done"] /\ Forget(r)
      BY <1>t, <3>1, Served
    <3>3. StoreStep
      BY <1>0, <2>1, <2>2, <2>3, <2>4, <2>5, <3>2, Writes
    <3> QED
      BY <3>2, <3>3, Ends
  <2> QED
    BY <2>6, <2>7
<1> QED
  BY <1>1, <1>2

(* The artifact goes up before the entry.                                  *)
LEMMA PublishArtifactsStep == ASSUME IInv, NEW r \in Runs, PublishArtifacts(r) PROVE IInv'
<1>0. /\ pc[r] = "artifacts" /\ pc' = [pc EXCEPT ![r] = "record"] /\ (Fault \/ NoFault)
      /\ UNCHANGED <<store, inputs, remote, row, cached, snap, val, given, condemned>>
  BY DEF PublishArtifacts, Goto
<1>t. /\ Right(cached[r]) /\ ~shareable[r] /\ StoreTyped /\ Durable
      /\ val[r] \in Results /\ val[r].read = "declared"
  BY <1>0, Parts DEF Dispatch, Computed
<1>1. CASE /\ remoteArtifacts' = remoteArtifacts \cup {val[r]}
           /\ shareable' = [shareable EXCEPT ![r] = TRUE]
  <2>1. StoreTyped'
    BY <1>0, <1>1, <1>t DEF StoreTyped, store
  <2>2. Durable'
    BY <1>0, <1>1, <1>t DEF Durable, Right, RemoteServable, store
  <2>3. StoreStep
    BY <1>0, <1>1, <2>1, <2>2 DEF StoreStep
  <2>4. Move(r, "record", cached[r], snap[r], val[r], TRUE)
    BY <1>0, <1>1, Kept DEF Move
  <2>5. Fits(r, "record", cached[r], snap[r], val[r], TRUE)
    BY <1>1, <1>t, Kept DEF Fits, Steps, Computed, Looked
  <2> QED
    BY <2>3, <2>4, <2>5, GoesOn
<1>2. CASE UNCHANGED <<remoteArtifacts, shareable>>
  <2>1. Move(r, "record", cached[r], snap[r], val[r], shareable[r])
    BY <1>0, <1>2, Kept DEF Move
  <2>2. Fits(r, "record", cached[r], snap[r], val[r], shareable[r])
    BY <1>t, Kept DEF Fits, Steps, Computed, Looked
  <2>3. StoreStep
    BY <1>0, <1>2, <1>t, SameStore DEF StoreTyped, tiers
  <2> QED
    BY <2>1, <2>2, <2>3, GoesOn
<1> QED
  BY <1>1, <1>2 DEF PublishArtifacts

(* The completion becomes a row of the local store.                        *)
LEMMA RecordStep == ASSUME IInv, NEW r \in Runs, Record(r) PROVE IInv'
<1>0. /\ pc[r] = "record" /\ PutLocal(On[r], EntryOf(r, val[r])) /\ NoFault
      /\ UNCHANGED <<inputs, tiers, row, condemned>>
  BY DEF Record
<1>t. /\ Right(cached[r]) /\ StoreTyped /\ val[r] \in Results /\ val[r].read = "declared"
      /\ shareable[r] => val[r] \in remoteArtifacts
  BY <1>0, Parts DEF Dispatch, Computed
<1>1. EntryOf(r, val[r]) \in Entries /\ Right(EntryOf(r, val[r])) /\ On[r] \in Machines
  BY <1>t, EntryTyped, Kept DEF Right, EntryOf
<1>2. ASSUME NEW to \in {"conflict", "entry"}, Goto(r, "record", to), to = "entry" => shareable[r],
             UNCHANGED <<local, given>>
      PROVE IInv'
  <2>1. Move(r, to, cached[r], snap[r], val[r], shareable[r])
    BY <1>2, Kept DEF Move, Goto, local
  <2>2. remoteArtifacts' = remoteArtifacts
    BY <1>0 DEF tiers
  <2>3. Fits(r, to, cached[r], snap[r], val[r], shareable[r])
    BY <1>t, <1>2, <2>2, Kept DEF Fits, Steps, Computed, Looked
  <2>4. StoreStep
    BY <1>0, <1>1, <1>2, <1>t, Puts DEF StoreTyped
  <2> QED
    BY <2>1, <2>3, <2>4, GoesOn
<1>3. CASE Serve(r, val[r])
  <2>1. given' \in [Runs -> Results \cup {NoResult}] /\ pc' = [pc EXCEPT ![r] = "done"] /\ Forget(r)
    BY <1>t, <1>3, Served
  <2>2. StoreStep
    BY <1>0, <1>1, <2>1, Puts
  <2> QED
    BY <2>1, <2>2, Ends
<1> QED
  BY <1>2, <1>3 DEF Record, MayShare

(* The entry follows its artifact.                                         *)
LEMMA PublishEntryStep == ASSUME IInv, NEW r \in Runs, PublishEntry(r) PROVE IInv'
<1>0. /\ pc[r] = "entry" /\ Serve(r, val[r]) /\ (Fault \/ NoFault)
      /\ UNCHANGED <<store, inputs, remoteArtifacts, row, condemned>>
      /\ remote' \in {remote, EntryOf(r, val[r])}
  BY DEF PublishEntry, PutHead
<1>t. /\ StoreTyped /\ Durable /\ val[r] \in Results /\ val[r].read = "declared"
      /\ val[r] \in remoteArtifacts
  BY <1>0, Parts DEF Dispatch, Computed
<1>1. /\ EntryOf(r, val[r]) \in Entries /\ Right(EntryOf(r, val[r]))
      /\ EntryOf(r, val[r]).result \in remoteArtifacts
  BY <1>t, EntryTyped DEF Right, EntryOf
<1>2. given' \in [Runs -> Results \cup {NoResult}] /\ pc' = [pc EXCEPT ![r] = "done"] /\ Forget(r)
  BY <1>0, <1>t, Served
<1>3. StoreTyped'
  BY <1>0, <1>1, <1>2, <1>t DEF StoreTyped, store
<1>4. Durable'
  BY <1>0, <1>1, <1>t DEF Durable, Right, RemoteServable, store
<1>5. StoreStep
  BY <1>0, <1>3, <1>4 DEF StoreStep
<1> QED
  BY <1>2, <1>5, Ends

(* Another result is under the key.                                        *)
LEMMA ConflictStep == ASSUME IInv, NEW r \in Runs, Conflict(r) PROVE IInv'
<1>0. /\ pc[r] = "conflict" /\ NoFault /\ UNCHANGED <<store, inputs, tiers, row, condemned>>
      /\ Fail(r) \/ Serve(r, val[r])
  BY DEF Conflict
<1>1. StoreTyped /\ val[r] \in Results
  BY <1>0, Parts DEF Dispatch, Computed
<1>2. PICK to \in {"done", "failed"} :
         given' \in [Runs -> Results \cup {NoResult}] /\ pc' = [pc EXCEPT ![r] = to] /\ Forget(r)
  BY <1>0, <1>1, Served DEF Fail, StoreTyped
<1>3. StoreStep
  BY <1>0, <1>2, SameStore
<1> QED
  BY <1>2, <1>3, Ends

(* A process dies and its dispatch starts again.                           *)
LEMMA CrashStep == ASSUME IInv, NEW r \in Runs, Crash(r) PROVE IInv'
<1>1. StoreStep
  BY SameStore, Parts DEF Crash, StoreTyped
<1> QED
  BY <1>1, Ends DEF Crash

(* A failed dispatch is tried again, an answered one may be driven again.  *)
LEMMA AgainStep == ASSUME IInv, NEW r \in Runs, Retry(r) \/ Redrive(r) PROVE IInv'
<1>0. /\ pc[r] \in {"failed", "done"} /\ pc' = [pc EXCEPT ![r] = "lookup"] /\ (Fault \/ NoFault)
      /\ UNCHANGED <<store, inputs, tiers, row, local, given, condemned>>
  BY DEF Retry, Redrive, Goto, NoFault
<1>1. Right(cached[r]) /\ ~shareable[r]
  BY <1>0, Parts DEF Dispatch
<1>2. StoreStep
  BY <1>0, SameStore, Parts DEF StoreTyped
<1>3. Move(r, "lookup", cached[r], snap[r], val[r], shareable[r])
  BY <1>0, Kept DEF Move, local
<1>4. Fits(r, "lookup", cached[r], snap[r], val[r], shareable[r])
  BY <1>1, Kept DEF Fits, Steps, Computed, Looked
<1> QED
  BY <1>2, <1>3, <1>4, GoesOn

(* An input that is edited has not moved since any prepare whose settlement *)
(* is still to come, so the edit is one that the settlement will see.      *)
LEMMA EditStep == ASSUME IInv, NEW m \in Machines, Edit(m) PROVE IInv'
<1> USE StepCacheAssumption DEF StepCacheAssumption
<1>0. UNCHANGED <<store, tiers, row, pc, local, given, condemned, faults, setting>>
  BY DEF Edit
<1>1. StoreTyped' /\ Durable'
  <2>1. inputs' \in [Machines -> Inputs]
    BY Parts DEF Edit, StoreTyped, Inputs
  <2>2. StoreTyped'
    BY <1>0, <2>1, Parts DEF StoreTyped, store, tiers
  <2>3. Durable'
    BY <1>0, Parts DEF Durable, Right, RemoteServable, store, tiers
  <2> QED
    BY <2>2, <2>3
<1>2. LocalTyped'
  BY <1>0, Parts DEF LocalTyped, local
<1>3. BoundsTyped'
  BY <1>0, Parts DEF BoundsTyped, Edit
<1>4. ASSUME NEW r \in Runs PROVE Dispatch(r)'
  <2>1. Dispatch(r)
    BY Parts
  <2>2. pc[r] = "settle" => val[r].read = snap[r] \/ inputs'[On[r]] # snap[r]
    BY <2>1, Parts DEF Dispatch, StoreTyped, Edit, Moved
  <2> QED
    BY <1>0, <2>1, <2>2 DEF Dispatch, Right, local, tiers
<1> QED
  BY <1>1, <1>2, <1>3, <1>4, Whole

(* A disk loses or corrupts an artifact.                                   *)
LEMMA DamageStep ==
    ASSUME IInv, NEW m \in Machines, NEW x \in Results, NEW how \in {"corrupt", "absent"},
           Damage(m, x, how)
    PROVE IInv'
<1>0. /\ UNCHANGED <<head, ledger, inputs, tiers, row, pc, local, given, condemned>> /\ Fault
      /\ artifact' = [artifact EXCEPT ![m][x] = how]
  BY DEF Damage
<1>1. artifact' \in [Machines -> [Results -> {"absent", "ok", "corrupt"}]]
  BY <1>0, Parts DEF StoreTyped
<1>2. StoreTyped'
  BY <1>0, <1>1, Parts DEF StoreTyped, tiers
<1>3. Durable'
  BY <1>0, Parts DEF Durable, Right, RemoteServable, tiers
<1>4. LocalTyped' /\ BoundsTyped'
  BY <1>0, Parts, StepCacheAssumption DEF StepCacheAssumption, LocalTyped, BoundsTyped, local, Fault
<1>5. \A r \in Runs : Dispatch(r)'
  BY <1>0, Parts DEF Dispatch, Right, local, tiers
<1> QED
  BY <1>2, <1>3, <1>4, <1>5, Whole

---------------------------------------------------------------------------
(* The cache starts empty.                                                 *)
LEMMA InitIInv == Init => IInv
<1> SUFFICES ASSUME Init PROVE IInv
  OBVIOUS
<1> USE StepCacheAssumption DEF StepCacheAssumption
<1>1. StoreTyped
  BY DEF Init, StoreTyped, NoRow
<1>2. shareable \in [Runs -> BOOLEAN] /\ \A r \in Runs : ~shareable[r]
  BY Zenon DEF Init
<1>3. LocalTyped
  BY <1>2 DEF Init, LocalTyped, Places, Steps, Inputs
<1>4. BoundsTyped
  BY DEF Init, BoundsTyped
<1>5. Durable
  BY DEF Init, Durable, Right, RemoteServable
<1>6. ASSUME NEW r \in Runs PROVE Dispatch(r)
  <2>1. pc[r] \in {"lookup", "absent"} /\ cached[r] = NoEntry
    BY DEF Init
  <2> QED
    BY <1>2, <2>1 DEF Dispatch, Right, Looked, Computed
<1> QED
  BY <1>1, <1>3, <1>4, <1>5, <1>6, Parts

(* Every step of a dispatch and of its environment keeps the invariant.    *)
LEMMA NextIInv == IInv /\ [Next]_vars => IInv'
<1> SUFFICES ASSUME IInv, [Next]_vars PROVE IInv'
  OBVIOUS
<1>1. ASSUME NEW r \in Runs, Step(r) PROVE IInv'
  BY <1>1, LookupStep, RemoteGetStep, WriteBackStep, ReGetStep, MeasureStep, ReplayStep,
     HydrateStep, EvictStep, ReplayRowStep, PrepareStep, BodyStep, SettleStep,
     PublishArtifactsStep, RecordStep, PublishEntryStep, ConflictStep DEF Step
<1>2. CASE UNCHANGED vars
  BY <1>2 DEF vars, store, tiers, local, bounds, IInv, TypeOK, Durable, RemoteServable, Dispatch, Right
<1> QED
  BY <1>1, <1>2, CrashStep, AgainStep, EditStep, DamageStep DEF Next

(* The invariant holds throughout.                                         *)
LEMMA Invariant == Spec => []IInv
  BY InitIInv, NextIInv, PTL DEF Spec

(* Every value keeps its type: the stored rows, entries and artifacts, and *)
(* what a dispatch holds at whatever step it is interrupted.               *)
THEOREM TypeCorrect == Spec => []TypeOK
<1>1. IInv => TypeOK
  BY DEF IInv
<1> QED
  BY <1>1, Invariant, PTL

(* An entry of any store was computed from the inputs that its key         *)
(* declares, for any number of runs, machines and edits: prepare measures  *)
(* them before the body, settle after it.                                  *)
THEOREM CacheIsSound == Spec => []CacheSound
<1>1. IInv => CacheSound
  BY DEF IInv, Durable, CacheSound, Right
<1> QED
  BY <1>1, Invariant, PTL

(* An entry of the shared tier has its artifact there: recordCache uploads *)
(* the blobs first, and withholds the entry when it could not.             *)
THEOREM SharedEntryServable == Spec => []RemoteServable
<1>1. IInv => RemoteServable
  BY DEF IInv, Durable
<1> QED
  BY <1>1, Invariant, PTL

(* Only an entry that a dispatch judged leaves a local store: the eviction *)
(* is fenced on the provenance of the row the dispatch looked up.          *)
LEMMA EvictionFenced ==
    ASSUME IInv, [Next]_vars, NEW m \in Machines, head[m] # NoEntry, head'[m] = NoEntry
    PROVE head[m] \in condemned[m]
<1>t. StoreTyped /\ \A r \in Runs : Dispatch(r) /\ On[r] \in Machines
  BY Parts, StepCacheAssumption DEF StepCacheAssumption
<1>1. ASSUME NEW r \in Runs, Evict(r) PROVE head[m] \in condemned[m]
  <2>1. On[r] = m /\ head[m] = cached[r]
    BY <1>1, <1>t DEF Evict, EvictLocal, EvictHead, StoreTyped
  <2> QED
    BY <1>1, <1>t, <2>1 DEF Evict, Dispatch
<1>2. ASSUME NEW n, NEW e, PutLocal(n, e) PROVE FALSE
  BY <1>2, <1>t DEF PutLocal, PutHead, StoreTyped
<1>3. ASSUME head' = head PROVE FALSE
  BY <1>3
<1>4. ASSUME NEW r \in Runs, Step(r) \/ Crash(r) \/ Retry(r) \/ Redrive(r) PROVE Evict(r)
  <2>1. CASE Lookup(r) \/ RemoteGet(r) \/ ReGet(r) \/ Measure(r) \/ Replay(r) \/ Hydrate(r)
    BY <2>1, <1>3 DEF Lookup, RemoteGet, ReGet, Measure, Replay, Hydrate, store
  <2>2. CASE WriteBack(r) \/ Record(r)
    BY <2>2, <1>2 DEF WriteBack, Record
  <2>3. CASE ReplayRow(r) \/ Prepare(r) \/ Body(r) \/ Settle(r) \/ PublishArtifacts(r)
    BY <2>3, <1>3 DEF ReplayRow, Prepare, Body, Settle, PublishArtifacts, store
  <2>4. CASE PublishEntry(r) \/ Conflict(r) \/ Crash(r) \/ Retry(r) \/ Redrive(r)
    BY <2>4, <1>3 DEF PublishEntry, Conflict, Crash, Retry, Redrive, store
  <2> QED
    BY <1>4, <2>1, <2>2, <2>3, <2>4 DEF Step
<1>5. CASE UNCHANGED vars
  BY <1>5, <1>3 DEF vars, store
<1>6. ASSUME NEW n \in Machines, Edit(n) \/ \E x \in Results, how \in {"corrupt", "absent"} : Damage(n, x, how)
      PROVE FALSE
  BY <1>6, <1>3 DEF Edit, Damage, store
<1> QED
  BY <1>1, <1>4, <1>5, <1>6 DEF Next

(* A fresh row that a sibling recorded between a dispatch's lookup and its *)
(* eviction stays, whatever the runs of a machine do in between.           *)
THEOREM FreshRowSurvives == Spec => FreshSurvives
<1>1. IInv /\ [Next]_vars =>
        [\A m \in Machines : head[m] # NoEntry /\ head'[m] = NoEntry => head[m] \in condemned[m]]_vars
  BY EvictionFenced
<1> QED
  BY <1>1, Invariant, PTL DEF Spec, FreshSurvives

-----------------------------------------------------------------------------
(* The collection of artifacts *)

(* The condition of the theorems, on the constants alone.                  *)
Prudent == Local = Writers /\ Attempt + Mark < Grace

Marking == {"cache", "attempts", "inventory", "clock"}
Judging == {"inventory", "clock", "sweep", "remove"}

(* The mark has passed the row of w.                                       *)
Scanned(w) == gc \in Judging \/ (gc = "attempts" /\ w <= cursor)

(* No timestamp lies in the future.                                        *)
PastOnly ==
    /\ began <= now
    /\ \A w \in Writers : putAt[w] <= now
    /\ \A d \in Digests : mtime[d] <= now

(* Writers of one digest take turns.                                       *)
Exclusive ==
    \A v, w \in Writers :
        stage[v] \in Publishing /\ stage[w] \in Publishing /\ digest[v] = digest[w] => v = w

(* What an attempt has reached goes with its row, its digest and its blob. *)
AttemptSound ==
    \A w \in Writers :
        /\ stage[w] \in Publishing \cup {"put", "recorded"} => digest[w] \in Digests
        /\ stage[w] = "rename" => /\ mtime[digest[w]] <= putAt[w]
                                  /\ now <= putAt[w] + Attempt
        /\ stage[w] = "put" => /\ digest[w] \in blobs
                               /\ mtime[digest[w]] >= putAt[w]
                               /\ now <= putAt[w] + Attempt
        /\ stage[w] = "recorded" => w \in rows
        /\ w \in rows => /\ stage[w] \in {"recorded", "done"}
                         /\ digest[w] \in Digests /\ digest[w] \in blobs \cup damaged

(* No cache row references a blob that was removed while it was sound.     *)
CacheBacked ==
    \A k \in Keys : cache[k] # None => cache[k] \in blobs \cup damaged

(* A digest that no sweep of this collection takes while it is sound.      *)
Spared(d) == d \in live \/ d \in damaged \/ mtime[d] >= began - Attempt

(* An attempt row that the mark has passed is spared.                      *)
MarkComplete == \A w \in rows : Scanned(w) => Spared(digest[w])

(* The mark has passed the cache row of k.                                 *)
Passed(k) == gc \in Judging \cup {"attempts"} \/ (gc = "cache" /\ k <= cursor)

(* So is a cache row, unless the mark has yet to find its digest among the *)
(* attempt rows.                                                           *)
CacheMarked ==
    \A k \in Keys : cache[k] # None /\ Passed(k) =>
        Spared(cache[k]) \/ \E w \in rows : ~Scanned(w) /\ digest[w] = cache[k]

BoundOld ==
    /\ gc \in Marking => now <= began + Mark
    /\ gc \in {"sweep", "remove"} => bound < began - Attempt

(* The blob being removed is old, unmarked and nobody publishes it.        *)
TargetDead ==
    gc = "remove" =>
        /\ target \in Digests /\ target \notin live /\ mtime[target] <= bound
        /\ \A w \in Writers : digest[w] = target => stage[w] \notin Publishing

GcIInv ==
    /\ GcTypeOK /\ PastOnly /\ Exclusive /\ AttemptSound /\ CacheBacked
    /\ MarkComplete /\ CacheMarked /\ BoundOld /\ TargetDead

-----------------------------------------------------------------------------
(* Initially nothing is stored and nobody is at work.                      *)
LEMMA GcInitialised == GcInit => GcIInv
BY ArtifactGcAssumption
   DEF GcInit, GcIInv, GcTypeOK, PastOnly, Exclusive, AttemptSound, CacheBacked, MarkComplete,
       CacheMarked, BoundOld, TargetDead, Scanned, Passed, Publishing, Marking, Judging

(* What the invariant says is what the properties claim.                   *)
LEMMA Implied ==
    ASSUME GcIInv PROVE PutHolds /\ NoDangling
BY DEF GcIInv, AttemptSound, CacheBacked, PutHolds, NoDangling, Roots, GcTypeOK

(* The steps of an attempt that leave the store and the roots alone.       *)
LEMMA BeginKeeps ==
    ASSUME Prudent, GcIInv, NEW w \in Writers,
           Begin(w) \/ Verify(w) \/ WriteTemp(w) \/ AttemptFails(w)
    PROVE  GcIInv'
<1> USE DEF Begin, Verify, WriteTemp, AttemptFails, WriterGoto, blobStore, roots, collector, attempt,
        GcIInv, Publishing
<1> USE ArtifactGcAssumption
<1>0. PICK d \in Digests \cup {None} : digest' = [digest EXCEPT ![w] = d]
    BY DEF GcTypeOK
<1>a. /\ stage' \in [Writers -> Publishing \cup {"idle", "put", "recorded", "done"}]
      /\ putAt' \in [Writers -> Nat] /\ gcFaults' \in Nat
      /\ \A v \in Writers : v # w => /\ stage'[v] = stage[v] /\ digest'[v] = digest[v]
                                     /\ putAt'[v] = putAt[v]
      /\ UNCHANGED <<now, blobs, mtime, damaged, rows, cache, collector>>
    BY DEF GcTypeOK
<1>b. w \notin rows
    BY DEF AttemptSound
<1>c. \A v \in rows : v \in Writers /\ v # w
    BY <1>b DEF GcTypeOK
<1>1. GcTypeOK'
    BY <1>0, <1>a DEF GcTypeOK
<1>2. PastOnly'
    BY DEF PastOnly, GcTypeOK
<1>8. Exclusive'
  <2>1. CASE Begin(w)
    <3>1. PICK e \in Digests : Unlocked(w, e) /\ digest' = [digest EXCEPT ![w] = e]
        BY <2>1
    <3>2. \A v \in Writers : digest[v] = e => stage[v] \notin Publishing
        BY <3>1 DEF Unlocked, Prudent
    <3>3. digest'[w] = e
        BY <3>1 DEF GcTypeOK
    <3> QED
        BY <3>2, <3>3, <1>a DEF Exclusive
  <2>2. CASE Verify(w) \/ WriteTemp(w) \/ AttemptFails(w)
    <3>1. digest'[w] = digest[w] /\ (stage'[w] \in Publishing => stage[w] \in Publishing)
        BY <2>2 DEF GcTypeOK
    <3> QED
        BY <3>1, <1>a DEF Exclusive
  <2> QED
    BY <2>1, <2>2
<1>3. AttemptSound'
  <2> SUFFICES ASSUME NEW v \in Writers
               PROVE /\ stage'[v] \in Publishing \cup {"put", "recorded"} => digest'[v] \in Digests
                     /\ stage'[v] = "rename" => /\ mtime[digest'[v]] <= putAt'[v]
                                                /\ now <= putAt'[v] + Attempt
                     /\ stage'[v] = "put" => /\ digest'[v] \in blobs
                                             /\ mtime[digest'[v]] >= putAt'[v]
                                             /\ now <= putAt'[v] + Attempt
                     /\ stage'[v] = "recorded" => v \in rows
                     /\ v \in rows => /\ stage'[v] \in {"recorded", "done"}
                                      /\ digest'[v] \in Digests /\ digest'[v] \in blobs \cup damaged
    BY <1>a DEF AttemptSound
  <2>1. CASE v # w
    BY <2>1, <1>a DEF AttemptSound
  <2>2. CASE v = w /\ Begin(w)
    BY <2>2, <1>b DEF GcTypeOK
  <2>3. CASE v = w /\ (Verify(w) \/ AttemptFails(w))
    <3>1. stage'[w] \in {"freshen", "write", "done"} /\ digest'[w] = digest[w]
        BY <2>3 DEF GcTypeOK
    <3>2. stage'[w] # "done" => digest[w] \in Digests
        BY <2>3 DEF GcTypeOK, AttemptSound
    <3> QED
        BY <3>1, <3>2, <2>3, <1>b
  <2>4. CASE v = w /\ WriteTemp(w)
    <3>1. stage'[w] = "rename" /\ digest'[w] = digest[w] /\ putAt'[w] = now /\ digest[w] \in Digests
        BY <2>4 DEF GcTypeOK, AttemptSound
    <3>2. mtime[digest[w]] <= now /\ now \in Nat /\ now <= now + Attempt
        BY <3>1 DEF PastOnly, GcTypeOK
    <3> QED
        BY <3>1, <3>2, <2>4, <1>b
  <2> QED
    BY <2>1, <2>2, <2>3, <2>4
<1>4. CacheBacked'
    BY <1>a DEF CacheBacked
<1>5. MarkComplete'
    BY <1>a, <1>c DEF MarkComplete, Scanned, Spared
<1>9. CacheMarked'
  <2> SUFFICES ASSUME NEW k \in Keys, cache[k] # None, Passed(k)
               PROVE  Spared(cache[k]) \/ \E v \in rows : ~Scanned(v) /\ digest'[v] = cache[k]
    BY <1>a DEF CacheMarked, Passed, Spared, Scanned
  <2> QED
    BY <1>a, <1>c DEF CacheMarked
<1>6. BoundOld'
    BY DEF BoundOld
<1>7. TargetDead'
  <2> SUFFICES ASSUME gc = "remove", NEW v \in Writers, digest'[v] = target, stage'[v] \in Publishing
               PROVE FALSE
    BY <1>a DEF TargetDead
  <2>1. CASE v # w
    BY <2>1, <1>a DEF TargetDead
  <2>2. CASE v = w /\ Begin(w)
    BY <2>2 DEF GcTypeOK, Prudent, Unlocked
  <2>3. CASE v = w /\ ~Begin(w)
    BY <2>3 DEF TargetDead, GcTypeOK
  <2> QED
    BY <2>1, <2>2, <2>3
<1> QED
    BY <1>1, <1>2, <1>3, <1>4, <1>5, <1>6, <1>7, <1>8, <1>9

(* A put that succeeds leaves a blob as young as its stamp, which is no    *)
(* older than what the digest had.                                         *)
LEMMA PublishKeeps ==
    ASSUME Prudent, GcIInv, NEW w \in Writers, Freshen(w) \/ Rename(w) PROVE GcIInv'
<1> USE DEF Freshen, Rename, WriterGoto, roots, collector, GcIInv, Publishing
<1> USE ArtifactGcAssumption
<1>0. /\ digest[w] \in Digests /\ w \notin rows
      /\ mtime[digest[w]] <= now /\ began <= now /\ now \in Nat /\ began \in Nat
    BY DEF AttemptSound, PastOnly, GcTypeOK
<1>a. /\ blobs \subseteq blobs' /\ blobs' \subseteq Digests /\ damaged' \subseteq damaged
      /\ mtime' \in [Digests -> Nat] /\ \A d \in Digests : mtime'[d] >= mtime[d] /\ mtime'[d] <= now
      /\ \A d \in damaged : d \notin damaged' => d \in blobs' /\ mtime'[d] >= began - Attempt
      /\ putAt' \in [Writers -> Nat]
    BY <1>0 DEF GcTypeOK, PastOnly, AttemptSound
<1>b. /\ stage' \in [Writers -> Publishing \cup {"idle", "put", "recorded", "done"}]
      /\ stage'[w] \in {"write", "put"}
      /\ \A v \in Writers : v # w => stage'[v] = stage[v] /\ putAt'[v] = putAt[v]
      /\ UNCHANGED <<now, rows, cache, digest, collector, gcFaults>>
    BY DEF GcTypeOK
<1>c. \A d \in Digests : Spared(d) => Spared(d)'
    BY <1>a, <1>b DEF Spared, GcTypeOK
<1>1. GcTypeOK'
    BY <1>a, <1>b DEF GcTypeOK
<1>2. PastOnly'
    BY <1>a, <1>b DEF PastOnly, GcTypeOK
<1>8. Exclusive'
    BY <1>b DEF Exclusive
<1>3. AttemptSound'
  <2> SUFFICES ASSUME NEW v \in Writers
               PROVE /\ stage'[v] \in Publishing \cup {"put", "recorded"} => digest[v] \in Digests
                     /\ stage'[v] = "rename" => /\ mtime'[digest[v]] <= putAt'[v]
                                                /\ now <= putAt'[v] + Attempt
                     /\ stage'[v] = "put" => /\ digest[v] \in blobs'
                                            /\ mtime'[digest[v]] >= putAt'[v]
                                            /\ now <= putAt'[v] + Attempt
                     /\ stage'[v] = "recorded" => v \in rows
                     /\ v \in rows => /\ stage'[v] \in {"recorded", "done"}
                                      /\ digest[v] \in Digests /\ digest[v] \in blobs' \cup damaged'
    BY <1>b DEF AttemptSound
  <2>1. CASE v = w
    <3>1. stage'[w] = "put" => /\ digest[w] \in blobs'
                               /\ mtime'[digest[w]] >= putAt'[w]
                               /\ now <= putAt'[w] + Attempt
        BY <1>0 DEF AttemptSound, GcTypeOK
    <3> QED
        BY <2>1, <1>0, <1>b, <3>1
  <2>2. CASE v # w
    <3>1. stage'[v] = stage[v] /\ putAt'[v] = putAt[v] /\ putAt[v] \in Nat
        BY <2>2, <1>b DEF GcTypeOK
    <3>2. stage[v] = "put" => mtime'[digest[v]] >= putAt[v]
        BY <1>a, <3>1 DEF AttemptSound, GcTypeOK
    <3>3. stage[v] = "rename" => digest[v] # digest[w]
        BY <2>2 DEF Exclusive
    <3>4. stage[v] = "rename" => mtime'[digest[v]] = mtime[digest[v]]
        BY <3>3, <1>0 DEF AttemptSound, GcTypeOK
    <3>5. v \in rows => digest[v] \in blobs' \cup damaged'
        BY <1>a DEF AttemptSound
    <3> QED
        BY <3>1, <3>2, <3>4, <3>5, <1>a DEF AttemptSound
  <2> QED
    BY <2>1, <2>2
<1>4. CacheBacked'
    BY <1>a, <1>b DEF CacheBacked
<1>5. MarkComplete'
    BY <1>b, <1>c DEF MarkComplete, Scanned, AttemptSound, GcTypeOK
<1>9. CacheMarked'
  <2> SUFFICES ASSUME NEW k \in Keys, cache[k] # None, Passed(k)
               PROVE  Spared(cache[k])' \/ \E v \in rows : ~Scanned(v) /\ digest[v] = cache[k]
    BY <1>b DEF CacheMarked, Passed, Scanned
  <2> QED
    BY <1>c DEF CacheMarked, GcTypeOK
<1>6. BoundOld'
    BY DEF BoundOld
<1>7. TargetDead'
    BY <1>0 DEF TargetDead, GcTypeOK
<1> QED
    BY <1>1, <1>2, <1>3, <1>4, <1>5, <1>6, <1>7, <1>8, <1>9

(* A row recorded behind the mark has a blob that is too young.            *)
LEMMA RecordKeeps ==
    ASSUME Prudent, GcIInv, NEW w \in Writers, RecordAttempt(w) PROVE GcIInv'
<1> USE DEF RecordAttempt, WriterGoto, blobStore, collector, GcIInv, Publishing
<1>1. GcTypeOK'
    BY DEF GcTypeOK
<1>2. PastOnly'
    BY DEF PastOnly
<1>8. Exclusive'
    BY DEF Exclusive, GcTypeOK
<1>3. AttemptSound'
    BY DEF AttemptSound, GcTypeOK
<1>4. CacheBacked'
    BY DEF CacheBacked, GcTypeOK
<1>5. MarkComplete'
  <2> SUFFICES ASSUME NEW v \in rows', Scanned(v) PROVE Spared(digest[v])
    BY DEF MarkComplete, Scanned, Spared
  <2>1. CASE v = w
    <3>1. /\ mtime[digest[w]] >= putAt[w] /\ now <= putAt[w] + Attempt /\ began <= now
          /\ mtime[digest[w]] \in Nat
        BY DEF AttemptSound, PastOnly, GcTypeOK
    <3> QED
        BY <2>1, <3>1, ArtifactGcAssumption DEF GcTypeOK, Spared
  <2>2. CASE v # w
    BY <2>2 DEF MarkComplete
  <2> QED
    BY <2>1, <2>2
<1>9. CacheMarked'
    BY DEF CacheMarked, Passed, Spared, Scanned
<1>6. BoundOld'
    BY DEF BoundOld
<1>7. TargetDead'
    BY DEF TargetDead, GcTypeOK
<1> QED
    BY <1>1, <1>2, <1>3, <1>4, <1>5, <1>6, <1>7, <1>8, <1>9

(* Cache rows are written and evicted.                                     *)
LEMMA CacheKeeps ==
    ASSUME Prudent, GcIInv,
           \/ \E w \in Writers : CachePut(w)
           \/ \E k \in Keys : EvictRow(k)
    PROVE  GcIInv'
<1> USE DEF CachePut, EvictRow, WriterGoto, blobStore, attempt, collector, GcIInv, Publishing, Prudent
<1>0. /\ rows' = rows /\ digest' = digest /\ blobs' = blobs /\ mtime' = mtime /\ now' = now
      /\ putAt' = putAt /\ damaged' = damaged /\ UNCHANGED collector /\ gcFaults' = gcFaults
    OBVIOUS
<1>a. /\ stage' \in [Writers -> Publishing \cup {"idle", "put", "recorded", "done"}]
      /\ \A w \in Writers : stage'[w] = stage[w] \/ (stage[w] = "recorded" /\ stage'[w] = "done")
    BY DEF GcTypeOK
<1>b. /\ cache' \in [Keys -> Digests \cup {None}]
      /\ \A k \in Keys : cache'[k] \in {cache[k], None} \cup {digest[w] : w \in rows}
    BY DEF GcTypeOK, AttemptSound
<1>1. GcTypeOK'
    BY <1>0, <1>a, <1>b DEF GcTypeOK
<1>2. PastOnly'
    BY <1>0 DEF PastOnly
<1>8. Exclusive'
    BY <1>0, <1>a DEF Exclusive
<1>3. AttemptSound'
    BY <1>0, <1>a DEF AttemptSound, GcTypeOK
<1>4. CacheBacked'
    BY <1>0, <1>b DEF CacheBacked, AttemptSound, GcTypeOK
<1>5. MarkComplete'
    BY <1>0 DEF MarkComplete, Scanned, Spared
<1>9. CacheMarked'
  <2> SUFFICES ASSUME NEW k \in Keys, cache'[k] # None, Passed(k)
               PROVE  Spared(cache'[k]) \/ \E w \in rows : ~Scanned(w) /\ digest[w] = cache'[k]
    BY <1>0 DEF CacheMarked, Passed, Spared, Scanned
  <2>1. CASE cache'[k] = cache[k]
    BY <2>1 DEF CacheMarked
  <2>2. CASE \E w \in rows : cache'[k] = digest[w]
    BY <2>2 DEF MarkComplete
  <2> QED
    BY <2>1, <2>2, <1>b
<1>6. BoundOld'
    BY <1>0 DEF BoundOld
<1>7. TargetDead'
    BY <1>0, <1>a DEF TargetDead
<1> QED
    BY <1>1, <1>2, <1>3, <1>4, <1>5, <1>6, <1>7, <1>8, <1>9

(* Damage spares a digest, and only a damaged one loses an attempt row.    *)
LEMMA DamageKeeps ==
    ASSUME Prudent, GcIInv,
           \/ \E w \in Writers : Quarantine(w)
           \/ \E d \in Digests : Rot(d)
    PROVE  GcIInv'
<1> USE DEF Quarantine, Rot, WriterGoto, roots, attempt, collector, blobStore, GcIInv, Publishing
<1>0. /\ digest' = digest /\ blobs' = blobs /\ mtime' = mtime /\ now' = now /\ cache' = cache
      /\ putAt' = putAt /\ UNCHANGED collector
    OBVIOUS
<1>a. /\ rows' \subseteq rows /\ damaged \subseteq damaged' /\ damaged' \subseteq Digests
      /\ \A w \in rows : w \notin rows' => digest[w] \in damaged
      /\ gcFaults' \in Nat
    BY DEF GcTypeOK
<1>b. /\ stage' \in [Writers -> Publishing \cup {"idle", "put", "recorded", "done"}]
      /\ \A w \in Writers :
            \/ stage'[w] = stage[w] /\ (w \in rows => w \in rows')
            \/ stage'[w] = "done" /\ w \notin rows' /\ w \in rows
    BY DEF GcTypeOK
<1>c. \A d \in Digests : Spared(d) => Spared(d)'
    BY <1>0, <1>a DEF Spared
<1>1. GcTypeOK'
    BY <1>0, <1>a, <1>b DEF GcTypeOK
<1>2. PastOnly'
    BY <1>0 DEF PastOnly
<1>8. Exclusive'
    BY <1>0, <1>b DEF Exclusive
<1>3. AttemptSound'
    BY <1>0, <1>a, <1>b DEF AttemptSound
<1>4. CacheBacked'
    BY <1>0, <1>a DEF CacheBacked
<1>5. MarkComplete'
    BY <1>0, <1>a, <1>c DEF MarkComplete, Scanned, AttemptSound, GcTypeOK
<1>9. CacheMarked'
  <2> SUFFICES ASSUME NEW k \in Keys, cache[k] # None, Passed(k)
               PROVE  Spared(cache[k])' \/ \E w \in rows' : ~Scanned(w) /\ digest[w] = cache[k]
    BY <1>0 DEF CacheMarked, Passed, Scanned
  <2>1. CASE Spared(cache[k])
    BY <2>1, <1>c DEF GcTypeOK
  <2>2. CASE \E w \in rows : ~Scanned(w) /\ digest[w] = cache[k]
    BY <2>2, <1>0, <1>a DEF Spared
  <2> QED
    BY <2>1, <2>2 DEF CacheMarked
<1>6. BoundOld'
    BY <1>0 DEF BoundOld
<1>7. TargetDead'
    BY <1>0, <1>b DEF TargetDead
<1> QED
    BY <1>1, <1>2, <1>3, <1>4, <1>5, <1>6, <1>7, <1>8, <1>9

(* The pages of the mark, the inventory, the clock and the end.            *)
LEMMA MarkKeeps ==
    ASSUME Prudent, GcIInv,
           \/ GcBegin \/ MarkCache \/ MarkAttempts \/ Inventory \/ Clock
           \/ GcEnd \/ GcFails
    PROVE  GcIInv'
<1> USE DEF blobStore, roots, attempt, GcIInv
<1> USE ArtifactGcAssumption
<1>0. UNCHANGED <<now, blobs, mtime, damaged, rows, cache, stage, digest, putAt>>
    BY DEF GcBegin, MarkCache, MarkAttempts, Inventory, Clock, GcEnd, GcFails
<1>1. GcTypeOK'
  <2>1. CASE GcBegin
    BY <2>1 DEF GcTypeOK, GcBegin
  <2>2. CASE MarkCache
    BY <2>2 DEF GcTypeOK, MarkCache, Rest, Keys
  <2>3. CASE MarkAttempts
    <3>1. \A w \in rows : w \in Nat /\ digest[w] \in Digests
        BY DEF GcTypeOK, AttemptSound, Writers
    <3> QED
        BY <2>3, <3>1 DEF GcTypeOK, MarkAttempts, Rest
  <2>4. CASE Inventory \/ Clock
    BY <2>4 DEF GcTypeOK, Inventory, Clock
  <2>5. CASE GcEnd \/ GcFails
    BY <2>5 DEF GcTypeOK, GcEnd, GcFails, Over
  <2> QED
    BY <2>1, <2>2, <2>3, <2>4, <2>5
<1>2. PastOnly'
    BY <1>0 DEF PastOnly, GcTypeOK, GcBegin, MarkCache, MarkAttempts, Inventory, Clock, GcEnd, GcFails, Over
<1>3. AttemptSound' /\ Exclusive'
    BY <1>0 DEF AttemptSound, Exclusive
<1>4. CacheBacked'
    BY <1>0 DEF CacheBacked
<1>5. MarkComplete' /\ CacheMarked'
  <2>1. CASE MarkAttempts
    <3>0. /\ began' = began /\ \A v \in rows : v \in Nat
          /\ gc = "attempts" /\ cursor \in Nat
        BY <2>1 DEF GcTypeOK, Writers, MarkAttempts
    <3>1. CASE Rest(rows) = {}
      <4>1. live' = live /\ gc' = "inventory"
        BY <2>1, <3>1 DEF MarkAttempts
      <4>2. \A v \in rows : Scanned(v) /\ Scanned(v)'
        BY <4>1, <3>0, <3>1 DEF Rest, Scanned, Judging
      <4>3. \A k \in Keys : Passed(k)
        BY <3>0 DEF Passed
      <4>4. \A d \in Digests : Spared(d) => Spared(d)'
        BY <4>1, <3>0, <1>0 DEF Spared
      <4> QED
        BY <4>2, <4>3, <4>4, <1>0 DEF MarkComplete, CacheMarked, AttemptSound, GcTypeOK
    <3>2. CASE Rest(rows) # {}
      <4>1. PICK w \in Rest(rows) :
                /\ \A u \in Rest(rows) : w <= u
                /\ cursor' = w /\ live' = live \cup {digest[w]} /\ gc' = gc
        BY <2>1, <3>2 DEF MarkAttempts
      <4>2. w \in Nat /\ w \in rows
        BY DEF Rest, GcTypeOK, Writers
      <4>3. \A d \in Digests : Spared(d) => Spared(d)'
        BY <4>1, <3>0, <1>0 DEF Spared
      <4>4. Spared(digest[w])'
        BY <4>1, <1>0 DEF Spared
      <4>5. \A v \in rows : Scanned(v)' => Scanned(v) \/ v = w
        BY <4>1, <4>2, <3>0, <1>0 DEF Scanned, Judging, Rest
      <4>7. MarkComplete'
        BY <4>3, <4>4, <4>5, <1>0 DEF MarkComplete, AttemptSound, GcTypeOK
      <4>8. CacheMarked'
        <5> SUFFICES ASSUME NEW k \in Keys, cache[k] # None
                     PROVE  Spared(cache[k])' \/ \E v \in rows : ~Scanned(v)' /\ digest[v] = cache[k]
            BY <1>0 DEF CacheMarked
        <5>1. Spared(cache[k]) \/ \E v \in rows : ~Scanned(v) /\ digest[v] = cache[k]
            BY <3>0 DEF CacheMarked, Passed
        <5>2. cache[k] = digest[w] => Spared(cache[k])'
            BY <4>1, <1>0 DEF Spared
        <5>3. Spared(cache[k]) => Spared(cache[k])'
            BY <4>1, <3>0, <1>0 DEF Spared
        <5> QED
            BY <5>1, <5>2, <5>3, <4>5
      <4> QED
        BY <4>7, <4>8
    <3> QED
        BY <3>1, <3>2
  <2>2. CASE MarkCache
    <3>a. \A k \in Keys : k \in Nat
        BY DEF Keys
    <3>b. began' = began /\ gc = "cache" /\ cursor \in Nat
        BY <2>2 DEF GcTypeOK, MarkCache
    <3>c. \/ gc' = "attempts" /\ cursor' = 0 /\ live' = live
          \/ gc' = "cache" /\ live \subseteq live'
        BY <2>2, <3>b DEF MarkCache
    <3>0. /\ began' = began /\ gc = "cache" /\ cursor \in Nat /\ \A k \in Keys : k \in Nat
          /\ gc' \in {"cache", "attempts"} /\ (gc' = "attempts" => cursor' = 0)
          /\ live \subseteq live'
        BY <3>a, <3>b, <3>c
    <3>1. \A w \in rows : ~Scanned(w) /\ ~Scanned(w)'
        BY <3>0, <1>0 DEF Scanned, Judging, GcTypeOK, Writers
    <3>2. \A d \in Digests : Spared(d) => Spared(d)'
        BY <3>0, <1>0 DEF Spared
    <3>3. \A k \in Keys : cache[k] # None /\ Passed(k)' => Passed(k) \/ cache[k] \in live'
      <4>1. CASE Rest({k \in Keys : cache[k] # None}) = {}
        BY <4>1, <3>0 DEF Passed, Rest
      <4>2. CASE Rest({k \in Keys : cache[k] # None}) # {}
        <5>1. PICK j \in Rest({k \in Keys : cache[k] # None}) :
                  /\ \A i \in Rest({k \in Keys : cache[k] # None}) : j <= i
                  /\ cursor' = j /\ live' = live \cup {cache[j]} /\ gc' = gc
            BY <2>2, <4>2 DEF MarkCache
        <5>2. j \in Keys /\ j \in Nat
            BY <3>0 DEF Rest
        <5> QED
            BY <5>1, <5>2, <3>0 DEF Passed, Judging, Rest
      <4> QED
        BY <4>1, <4>2
    <3> QED
        BY <3>1, <3>2, <3>3, <1>0 DEF MarkComplete, CacheMarked, Spared, GcTypeOK
  <2>3. CASE GcBegin \/ GcEnd \/ GcFails
    <3>1. gc' = "idle" \/ (gc' = "cache" /\ cursor' = 0)
        BY <2>3 DEF GcBegin, GcEnd, GcFails, Over
    <3>2. \A w \in rows' : ~Scanned(w)'
        BY <3>1, <1>0 DEF Scanned, Judging
    <3>3. \A k \in Keys : ~Passed(k)'
        BY <3>1 DEF Passed, Judging, Keys
    <3> QED
        BY <3>2, <3>3 DEF MarkComplete, CacheMarked
  <2>4. CASE Inventory \/ Clock
    BY <2>4, <1>0 DEF MarkComplete, CacheMarked, Passed, Scanned, Spared, Judging, Inventory, Clock
  <2> QED
    BY <2>1, <2>2, <2>3, <2>4
<1>6. BoundOld'
  <2>1. CASE Clock
    BY <2>1 DEF BoundOld, Clock, Marking, Prudent, GcTypeOK
  <2>2. CASE GcBegin
    BY <2>2 DEF BoundOld, GcBegin, Marking, GcTypeOK
  <2>3. CASE MarkCache \/ MarkAttempts \/ Inventory
    BY <2>3, <1>0 DEF BoundOld, MarkCache, MarkAttempts, Inventory, Marking
  <2>4. CASE GcEnd \/ GcFails
    BY <2>4 DEF BoundOld, GcEnd, GcFails, Over, Marking
  <2> QED
    BY <2>1, <2>2, <2>3, <2>4
<1>7. TargetDead'
    BY DEF TargetDead, GcBegin, MarkCache, MarkAttempts, Inventory, Clock, GcEnd, GcFails, Over
<1> QED
    BY <1>1, <1>2, <1>3, <1>4, <1>5, <1>6, <1>7

(* Judging a blob of the inventory takes the lock of what it removes.      *)
LEMMA SweepKeeps ==
    ASSUME Prudent, GcIInv, Sweep PROVE GcIInv'
<1> USE DEF Sweep, blobStore, roots, attempt, GcIInv
<1>0. /\ UNCHANGED <<now, blobs, mtime, damaged, rows, cache, stage, digest, putAt>>
      /\ UNCHANGED <<began, live, cursor, age, bound, gcFaults>>
      /\ gc = "sweep" /\ gc' \in {"sweep", "remove"}
    OBVIOUS
<1>1. GcTypeOK'
    BY DEF GcTypeOK
<1>2. PastOnly' /\ AttemptSound' /\ CacheBacked' /\ Exclusive'
    BY <1>0 DEF PastOnly, AttemptSound, CacheBacked, Exclusive
<1>5. MarkComplete' /\ CacheMarked'
    BY <1>0 DEF MarkComplete, CacheMarked, Passed, Spared, Scanned, Judging
<1>6. BoundOld'
    BY <1>0 DEF BoundOld, Marking
<1>7. TargetDead'
    BY DEF TargetDead, Keep, Fenced, Prudent, GcTypeOK
<1> QED
    BY <1>1, <1>2, <1>5, <1>6, <1>7

(* What is removed is damaged, or neither recorded nor about to be.        *)
LEMMA RemoveKeeps ==
    ASSUME Prudent, GcIInv, Remove PROVE GcIInv'
<1> USE DEF Remove, roots, attempt, GcIInv
<1>0. target \in Digests /\ target \notin live /\ mtime[target] <= bound /\ bound < began - Attempt
    BY DEF TargetDead, BoundOld
<1>d. \A w \in rows : Scanned(w)
    BY DEF Scanned, Judging
<1>a. Spared(target) => target \in damaged
    BY <1>0, ArtifactGcAssumption DEF Spared, GcTypeOK
<1>e. /\ \A w \in rows : digest[w] = target => target \in damaged
      /\ \A k \in Keys : cache[k] = target => target \in damaged
    BY <1>0, <1>a, <1>d, ArtifactGcAssumption DEF MarkComplete, CacheMarked, Passed, Judging
<1>b. ASSUME NEW w \in Writers, stage[w] = "put" PROVE digest[w] # target
    BY <1>0, <1>b, ArtifactGcAssumption DEF AttemptSound, PastOnly, GcTypeOK
<1>1. GcTypeOK'
    BY DEF GcTypeOK
<1>2. PastOnly' /\ Exclusive'
    BY DEF PastOnly, Exclusive
<1>3. AttemptSound'
    BY <1>e, <1>b DEF AttemptSound
<1>4. CacheBacked'
    BY <1>e DEF CacheBacked
<1>5. MarkComplete' /\ CacheMarked'
    BY DEF MarkComplete, CacheMarked, Passed, Spared, Scanned, Judging
<1>6. BoundOld'
    BY DEF BoundOld, Marking
<1>7. TargetDead'
    BY DEF TargetDead
<1> QED
    BY <1>1, <1>2, <1>3, <1>4, <1>5, <1>6, <1>7

(* A crash ends the attempts and the collection under way.                 *)
LEMMA CrashKeeps ==
    ASSUME Prudent, GcIInv, GcCrash PROVE GcIInv'
<1> USE DEF GcCrash, Over, blobStore, roots, GcIInv, Prudent
<1>1. GcTypeOK'
    BY DEF GcTypeOK
<1>2. PastOnly'
    BY DEF PastOnly, GcTypeOK
<1>3. AttemptSound'
    BY DEF AttemptSound, GcTypeOK, Publishing
<1>4. CacheBacked' /\ Exclusive'
    BY DEF CacheBacked, Exclusive, Publishing
<1>5. MarkComplete' /\ CacheMarked' /\ BoundOld' /\ TargetDead'
    BY DEF MarkComplete, CacheMarked, Passed, Scanned, Judging, BoundOld, Marking, TargetDead
<1> QED
    BY <1>1, <1>2, <1>3, <1>4, <1>5

(* Time passes.                                                            *)
LEMMA TickKeeps ==
    ASSUME Prudent, GcIInv, Tick PROVE GcIInv'
<1> USE DEF Tick, blobStore, roots, attempt, collector, GcIInv
<1>1. GcTypeOK'
    BY DEF GcTypeOK
<1>2. PastOnly'
    BY DEF PastOnly, GcTypeOK
<1>3. AttemptSound'
    BY DEF AttemptSound, GcTypeOK
<1>4. CacheBacked' /\ Exclusive'
    BY DEF CacheBacked, Exclusive
<1>5. MarkComplete' /\ CacheMarked'
    BY DEF MarkComplete, CacheMarked, Passed, Spared, Scanned
<1>6. BoundOld'
    BY DEF BoundOld, Marking
<1>7. TargetDead'
    BY DEF TargetDead
<1> QED
    BY <1>1, <1>2, <1>3, <1>4, <1>5, <1>6, <1>7

(* Every step keeps the invariant.                                         *)
LEMMA GcKept ==
    ASSUME Prudent, GcIInv, [GcNext]_gcVars PROVE GcIInv'
<1>1. CASE UNCHANGED gcVars
    BY <1>1 DEF gcVars, blobStore, roots, attempt, collector, GcIInv, GcTypeOK, PastOnly, AttemptSound,
        Exclusive, CacheBacked, MarkComplete, CacheMarked, Passed, Spared, Scanned, BoundOld, TargetDead
<1>2. CASE \E w \in Writers : WriterStep(w)
    BY <1>2, BeginKeeps, PublishKeeps, RecordKeeps, CacheKeeps, DamageKeeps DEF WriterStep
<1>3. CASE \E k \in Keys : EvictRow(k)
    BY <1>3, CacheKeeps
<1>4. CASE GcStep
    BY <1>4, MarkKeeps, SweepKeeps, RemoveKeeps DEF GcStep
<1>6. CASE \E d \in Digests : Rot(d)
    BY <1>6, DamageKeeps
<1>5. CASE GcFails \/ GcCrash \/ Tick
    BY <1>5, MarkKeeps, CrashKeeps, TickKeeps
<1> QED
    BY <1>1, <1>2, <1>3, <1>4, <1>5, <1>6 DEF GcNext

(* The invariant of a prudent configuration.                               *)
LEMMA GcInvariance == Prudent => (GcSpec => []GcIInv)
<1> SUFFICES ASSUME Prudent PROVE GcSpec => []GcIInv
    OBVIOUS
<1>1. GcIInv /\ [GcNext]_gcVars => GcIInv'
    BY GcKept
<1> QED
    BY <1>1, GcInitialised, PTL DEF GcSpec

-----------------------------------------------------------------------------
(* A put that reported success holds until its attempt recorded it.        *)
THEOREM PutsHold == Prudent => (GcSpec => []PutHolds)
<1> SUFFICES ASSUME Prudent PROVE GcSpec => []PutHolds
    OBVIOUS
<1>1. GcIInv => PutHolds
    BY Implied
<1> QED
    BY <1>1, GcInvariance, PTL

(* No attempt row and no cache row references a blob that is gone, unless  *)
(* its bytes had rotted before.                                            *)
THEOREM NothingDangles == Prudent => (GcSpec => []NoDangling)
<1> SUFFICES ASSUME Prudent PROVE GcSpec => []NoDangling
    OBVIOUS
<1>1. GcIInv => NoDangling
    BY Implied
<1> QED
    BY <1>1, GcInvariance, PTL
=============================================================================
