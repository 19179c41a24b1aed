----------------------------- MODULE StepCache -----------------------------
(***************************************************************************)
(* The dispatch of one sealed, cacheable action through the step cache:    *)
(* ActionPersistence.ts (the cache block, the replay of a succeeded        *)
(* attempt, the execution and recordCache), CombinedCacheStore.ts,         *)
(* StepBoundary.ts (prepare, settle, replayOutputs), CachePublication.ts,  *)
(* ArtifactSync.ts and CacheSync.ts.                                       *)
(*                                                                         *)
(* Several runs dispatch the same key. Each lives on a machine, which has  *)
(* one cache store, one artifact store and one workspace; the machines may *)
(* share a remote cache tier and a remote artifact tier. Runs of a machine *)
(* are separate processes: the permit is keyed by run, so nothing          *)
(* serializes them but the store's transactions. Each action below is one  *)
(* such transaction, one host call or one request to the shared tier.      *)
(*                                                                         *)
(* A result is what the body computed: the inputs it read and which of the *)
(* outcomes those inputs allow. The key folds the declared digests of the  *)
(* inputs, so a result is right under the key iff it read "declared".      *)
(* The one output of the body is an artifact addressed by its content,     *)
(* that is, by the result. Ownership of the run, retries and the other     *)
(* states of an attempt are in ActionDispatch.                             *)
(***************************************************************************)
EXTENDS Naturals, FiniteSets

CONSTANTS
    Runs, Machines,
    On,          \* the machine of each run
    Outs,        \* outcomes a body may compute from the same inputs
    NoResult, NoEntry,
    MaxEdits,    \* bound on the changes to a machine's inputs, see Edit
    MaxFaults,   \* bound on crashes, host and network failures, damaged artifacts and redrives
    Settings     \* what the action declares and how the cache is composed

ASSUME StepCacheAssumption ==
    /\ On \in [Runs -> Machines]
    /\ MaxEdits \in Nat /\ MaxFaults \in Nat
    /\ \A s \in Settings : /\ s.runs \subseteq Runs /\ s.outs \subseteq Outs
                           /\ {s.nondet, s.strict, s.shared} \subseteq BOOLEAN

VARIABLES
    head, ledger,     \* the local cache store of each machine
    artifact,         \* the local artifact store: result -> absent, ok, corrupt
    inputs,           \* what the declared reads measure in each workspace
    remote,           \* the entry of the shared cache tier
    remoteArtifacts,  \* the artifacts of the shared artifact tier
    row,              \* the attempt row of each run, once it succeeded
    pc,               \* where the dispatch of each run is
    cached,           \* the entry the dispatch looked up
    snap,             \* the read snapshot prepare took
    val,              \* the result the dispatch holds
    shareable,        \* the artifacts of val were published
    given,            \* the last result handed to the flow of each run
    condemned,        \* history: the entries a dispatch judged poison
    edits, faults,
    setting           \* the member of Settings this behaviour is about

store == <<head, ledger, artifact>>
tiers == <<remote, remoteArtifacts>>
local == <<cached, snap, val, shareable>>
bounds == <<edits, faults, setting>>
vars == <<store, inputs, tiers, row, pc, local, given, condemned, bounds>>

Nondet == setting.nondet  \* the action declares itself nondeterministic
Strict == setting.strict  \* the verdict of the Inconsistency receiver is "fail"
Shared == setting.shared  \* the shared tiers are configured

(* An entry is the pair of the run that recorded it and the result: its    *)
(* provenance sequence is the receipt of a journal record whose producer   *)
(* identity digests the content.                                           *)
EntryOf(run, result) == [run |-> run, result |-> result]

(* CacheStore.put on the head: the first writer of a vacant key wins.      *)
PutHead(was, e) == IF was = NoEntry THEN e ELSE was

PutOutcome(was, e) ==
    IF was = NoEntry THEN "Inserted"
    ELSE IF was.result = e.result THEN "ExistingSame" ELSE "Conflict"

(* CacheStore.evict: with a fence it is a compare-and-swap on provenance.  *)
EvictHead(was, fence) == IF was = fence THEN NoEntry ELSE was

Inputs == {"declared", "edited"}
Results == [read : Inputs, out : Outs]
Entries == {EntryOf(r, x) : r \in Runs, x \in Results}
NoRow == [result |-> NoResult, verified |-> FALSE, quarantined |-> FALSE]
Steps == {"lookup", "remote", "writeback", "reget", "measure", "replay", "hydrate",
          "retry", "stale", "corrupt", "row", "prepare", "body", "settle",
          "artifacts", "record", "entry", "conflict"}

TypeOK ==
    /\ head \in [Machines -> Entries \cup {NoEntry}]
    /\ ledger \in [Machines -> SUBSET Entries]
    /\ artifact \in [Machines -> [Results -> {"absent", "ok", "corrupt"}]]
    /\ inputs \in [Machines -> Inputs]
    /\ remote \in Entries \cup {NoEntry}
    /\ remoteArtifacts \subseteq Results
    /\ row \in [Runs -> [result : Results \cup {NoResult}, verified : BOOLEAN, quarantined : BOOLEAN]]
    /\ pc \in [Runs -> Steps \cup {"absent", "done", "failed"}]
    /\ cached \in [Runs -> Entries \cup {NoEntry}]
    /\ snap \in [Runs -> Inputs]
    /\ val \in [Runs -> Results \cup {NoResult}]
    /\ shareable \in [Runs -> BOOLEAN]
    /\ given \in [Runs -> Results \cup {NoResult}]
    /\ condemned \in [Machines -> SUBSET Entries]
    /\ edits \in 0..MaxEdits /\ faults \in 0..MaxFaults

(* A workspace may not hold what was declared when the flow starts. *)
Init ==
    /\ head = [m \in Machines |-> NoEntry]
    /\ ledger = [m \in Machines |-> {}]
    /\ artifact = [m \in Machines |-> [x \in Results |-> "absent"]]
    /\ inputs \in [Machines -> Inputs]
    /\ remote = NoEntry /\ remoteArtifacts = {}
    /\ row = [r \in Runs |-> NoRow]
    /\ setting \in Settings
    /\ pc = [r \in Runs |-> IF r \in setting.runs THEN "lookup" ELSE "absent"]
    /\ cached = [r \in Runs |-> NoEntry]
    /\ snap = [r \in Runs |-> "declared"]
    /\ val = [r \in Runs |-> NoResult]
    /\ shareable = [r \in Runs |-> FALSE]
    /\ given = [r \in Runs |-> NoResult]
    /\ condemned = [m \in Machines |-> {}]
    /\ edits = 0 /\ faults = 0

-----------------------------------------------------------------------------
(* Helpers *)

Goto(r, from, to) == pc[r] = from /\ pc' = [pc EXCEPT ![r] = to]
Fault == faults < MaxFaults /\ faults' = faults + 1 /\ UNCHANGED <<edits, setting>>
NoFault == UNCHANGED bounds

(* The dispatch returns x to the flow, and holds nothing any more. *)
Forget(r) ==
    /\ cached' = [cached EXCEPT ![r] = NoEntry]
    /\ snap' = [snap EXCEPT ![r] = "declared"]
    /\ val' = [val EXCEPT ![r] = NoResult]
    /\ shareable' = [shareable EXCEPT ![r] = FALSE]
Serve(r, x) ==
    /\ pc' = [pc EXCEPT ![r] = "done"]
    /\ given' = [given EXCEPT ![r] = x]
    /\ Forget(r)
Fail(r) ==
    /\ pc' = [pc EXCEPT ![r] = "failed"]
    /\ Forget(r)
    /\ UNCHANGED given
Hold(r, e) == cached' = [cached EXCEPT ![r] = e] /\ UNCHANGED <<snap, val, shareable>>

(* CacheStore.put on the store of machine m. *)
PutLocal(m, e) ==
    /\ ledger' = [ledger EXCEPT ![m] = @ \cup {e}]
    /\ head' = [head EXCEPT ![m] = PutHead(@, e)]
    /\ UNCHANGED artifact

(* CacheStore.evict, fenced on the provenance of the entry looked up. *)
EvictUnfenced(m, e) == head' = [head EXCEPT ![m] = NoEntry]  \* a mutant
EvictLocal(m, e) == head' = [head EXCEPT ![m] = EvictHead(@, e)]

-----------------------------------------------------------------------------
(* The cache block *)

(* CombinedCacheStore.get: the local tier answers if it can. *)
Lookup(r) ==
    LET m == On[r] IN
    /\ IF head[m] # NoEntry THEN Goto(r, "lookup", "measure")
       ELSE Goto(r, "lookup", IF Shared THEN "remote" ELSE "row")
    /\ Hold(r, head[m])
    /\ NoFault
    /\ UNCHANGED <<store, inputs, tiers, row, given, condemned>>

(* The remote tier; its failure is the dispatch's. *)
RemoteGet(r) ==
    /\ pc[r] = "remote"
    /\ \/ /\ Goto(r, "remote", IF remote = NoEntry THEN "row" ELSE "writeback")
          /\ Hold(r, remote)
          /\ NoFault /\ UNCHANGED given
       \/ Fail(r) /\ Fault
    /\ UNCHANGED <<store, inputs, tiers, row, condemned>>

(* The shared entry becomes a local row, unless a sibling's came first. *)
WriteBack(r) ==
    LET m == On[r] IN
    /\ Goto(r, "writeback",
            IF PutOutcome(head[m], cached[r]) = "Inserted" THEN "measure" ELSE "reget")
    /\ PutLocal(m, cached[r])
    /\ NoFault
    /\ UNCHANGED <<inputs, tiers, row, local, given, condemned>>

(* The durable local row is served, or the remote entry if it is gone again. *)
ReGet(r) ==
    /\ Goto(r, "reget", "measure")
    /\ Hold(r, IF head[On[r]] = NoEntry THEN cached[r] ELSE head[On[r]])
    /\ NoFault
    /\ UNCHANGED <<store, inputs, tiers, row, given, condemned>>

(* prepare and readSetMatches: a host that cannot measure refuses the hit, a *)
(* measured mismatch condemns the row.                                       *)
Measure(r) ==
    LET m == On[r] IN
    /\ \/ /\ inputs[m] = "declared"
          /\ Goto(r, "measure", "replay")
          /\ NoFault /\ UNCHANGED condemned
       \/ /\ inputs[m] # "declared"
          /\ Goto(r, "measure", "stale")
          /\ condemned' = [condemned EXCEPT ![m] = @ \cup {cached[r]}]
          /\ NoFault
       \/ /\ Goto(r, "measure", "row")
          /\ Fault /\ UNCHANGED condemned
    /\ UNCHANGED <<store, inputs, tiers, row, local, given>>

(* replayOutputs: the output may already be in the workspace, and then the   *)
(* artifact store is not asked. A missing artifact is fetched, once.         *)
Replay(r) ==
    LET m == On[r]
        x == cached[r].result
    IN
    /\ pc[r] \in {"replay", "retry"}
    /\ \/ Serve(r, x) /\ UNCHANGED condemned
       \/ /\ artifact[m][x] = "absent"
          /\ Goto(r, pc[r], IF pc[r] = "replay" /\ Shared THEN "hydrate" ELSE "row")
          /\ UNCHANGED <<local, given, condemned>>
       \/ /\ artifact[m][x] = "corrupt"
          /\ Goto(r, pc[r], "corrupt")
          /\ condemned' = [condemned EXCEPT ![m] = @ \cup {cached[r]}]
          /\ UNCHANGED <<local, given>>
    /\ NoFault
    /\ UNCHANGED <<store, inputs, tiers, row>>

(* hydrateArtifacts: read-through from the shared tier, verified on the way. *)
Hydrate(r) ==
    LET m == On[r]
        x == cached[r].result
    IN
    /\ pc[r] = "hydrate"
    /\ \/ /\ x \in remoteArtifacts
          /\ Goto(r, "hydrate", "retry")
          /\ artifact' = [artifact EXCEPT ![m][x] = IF @ = "absent" THEN "ok" ELSE @]
          /\ NoFault
       \/ /\ x \notin remoteArtifacts
          /\ Goto(r, "hydrate", "row")
          /\ NoFault /\ UNCHANGED artifact
       \/ /\ Goto(r, "hydrate", "row")
          /\ Fault /\ UNCHANGED artifact
    /\ UNCHANGED <<head, ledger, inputs, tiers, row, local, given, condemned>>

(* A stale row is evicted and the dispatch goes on; a corrupt one is noted   *)
(* with the receiver and evicted, and a strict verdict fails the dispatch.   *)
Evict(r) ==
    /\ pc[r] \in {"stale", "corrupt"}
    /\ EvictLocal(On[r], cached[r])
    /\ IF pc[r] = "corrupt" /\ Strict
       THEN Fail(r)
       ELSE Goto(r, pc[r], "row") /\ UNCHANGED <<local, given>>
    /\ NoFault
    /\ UNCHANGED <<ledger, artifact, inputs, tiers, row, condemned>>

-----------------------------------------------------------------------------
(* The replay of a succeeded attempt *)

(* Only a verified row converges into the cache, and not a corrupt one. *)
Converges(a) == a.verified /\ ~a.quarantined

ReplayRow(r) ==
    LET m == On[r]
        x == row[r].result
    IN
    /\ pc[r] = "row"
    /\ \/ /\ row[r] = NoRow
          /\ Goto(r, "row", "prepare")
          /\ UNCHANGED <<row, local, given>>
       \/ /\ row[r] # NoRow /\ ~Converges(row[r])
          /\ Serve(r, x)
          /\ UNCHANGED row
       \/ /\ row[r] # NoRow /\ Converges(row[r])
          \* materialized, warm, or refused by the host: the outcome stands
          /\ Goto(r, "row", "artifacts")
          /\ val' = [val EXCEPT ![r] = x]
          /\ UNCHANGED <<cached, snap, shareable, row, given>>
       \/ /\ row[r] # NoRow /\ ~row[r].quarantined /\ artifact[m][x] = "corrupt"
          /\ row' = [row EXCEPT ![r].quarantined = TRUE]
          /\ IF Strict THEN Fail(r) ELSE Serve(r, x)
    /\ NoFault
    /\ UNCHANGED <<store, inputs, tiers, condemned>>

-----------------------------------------------------------------------------
(* The execution *)

(* A host that cannot measure fails the attempt. *)
Prepare(r) ==
    /\ \/ /\ Goto(r, "prepare", "body")
          /\ snap' = [snap EXCEPT ![r] = inputs[On[r]]]
          /\ NoFault
          /\ UNCHANGED <<cached, val, shareable, given>>
       \/ pc[r] = "prepare" /\ Fail(r) /\ Fault
    /\ UNCHANGED <<store, inputs, tiers, row, condemned>>

Body(r) ==
    /\ Goto(r, "body", "settle")
    /\ \E o \in setting.outs : val' = [val EXCEPT ![r] = [read |-> inputs[On[r]], out |-> o]]
    /\ NoFault
    /\ UNCHANGED <<store, inputs, tiers, row, cached, snap, shareable, given, condemned>>

(* settle measures the reads again, captures the output (which rewrites a    *)
(* corrupt artifact) and settles the attempt; prepare's snapshot decides     *)
(* whether the completion may enter the cache.                               *)
Unchecked(r) == TRUE  \* a mutant of either check
ReadSetVerified(r) == snap[r] = "declared"
Unmoved(r) == inputs[On[r]] = snap[r]

Settle(r) ==
    /\ pc[r] = "settle"
    /\ IF Unmoved(r)
       THEN /\ artifact' = [artifact EXCEPT ![On[r]][val[r]] = "ok"]
            /\ row' = [row EXCEPT ![r] = [result |-> val[r], verified |-> ReadSetVerified(r),
                                          quarantined |-> FALSE]]
            /\ IF ReadSetVerified(r)
               THEN Goto(r, "settle", "artifacts") /\ UNCHANGED <<local, given>>
               ELSE Serve(r, val[r])
       ELSE Fail(r) /\ UNCHANGED <<artifact, row>>
    /\ NoFault
    /\ UNCHANGED <<head, ledger, inputs, tiers, condemned>>

-----------------------------------------------------------------------------
(* recordCache *)

(* Blobs before metadata: the artifacts go up first, and a refusal, or an    *)
(* artifact this host cannot read back, withholds the shared entry.          *)
Uploaded(r) == val[r] \in remoteArtifacts \/ artifact[On[r]][val[r]] = "ok"

PublishArtifacts(r) ==
    /\ Goto(r, "artifacts", "record")
    /\ \/ /\ Shared /\ Uploaded(r)
          /\ remoteArtifacts' = remoteArtifacts \cup {val[r]}
          /\ shareable' = [shareable EXCEPT ![r] = TRUE]
          /\ NoFault
       \/ /\ ~Shared \/ ~Uploaded(r)
          /\ NoFault /\ UNCHANGED <<remoteArtifacts, shareable>>
       \/ /\ Shared
          /\ Fault /\ UNCHANGED <<remoteArtifacts, shareable>>
    /\ UNCHANGED <<store, inputs, remote, row, cached, snap, val, given, condemned>>

ShareAlways(r) == Shared  \* a mutant: artifacts or not
MayShare(r) == shareable[r]

(* The provenance record and the row, in one transaction. *)
Record(r) ==
    LET m == On[r]
        e == EntryOf(r, val[r])
    IN
    /\ pc[r] = "record"
    /\ PutLocal(m, e)
    /\ IF PutOutcome(head[m], e) = "Conflict"
       THEN Goto(r, "record", "conflict") /\ UNCHANGED <<local, given>>
       ELSE IF MayShare(r)
            THEN Goto(r, "record", "entry") /\ UNCHANGED <<local, given>>
            ELSE Serve(r, val[r])
    /\ NoFault
    /\ UNCHANGED <<inputs, tiers, row, condemned>>

(* The shared tier keeps its first writer; a refusal is journalled. *)
PublishEntry(r) ==
    /\ pc[r] = "entry"
    /\ \/ remote' = PutHead(remote, EntryOf(r, val[r])) /\ NoFault
       \/ Fault /\ UNCHANGED remote
    /\ Serve(r, val[r])
    /\ UNCHANGED <<store, inputs, remoteArtifacts, row, condemned>>

(* Another result is under the key: a declared nondeterminism lets each run  *)
(* keep its own, otherwise the receiver decides.                             *)
Conflict(r) ==
    /\ pc[r] = "conflict"
    /\ IF Strict /\ ~Nondet THEN Fail(r) ELSE Serve(r, val[r])
    /\ NoFault
    /\ UNCHANGED <<store, inputs, tiers, row, condemned>>

-----------------------------------------------------------------------------
(* The environment *)

(* The process of a run dies; its rows and stores survive. *)
Crash(r) ==
    /\ pc[r] \notin {"absent", "lookup", "done", "failed"}
    /\ pc' = [pc EXCEPT ![r] = "lookup"]
    /\ Forget(r)
    /\ Fault
    /\ UNCHANGED <<store, inputs, tiers, row, given, condemned>>

(* A failed dispatch is tried again, and a run that goes on after its answer *)
(* replays its flow from the start.                                          *)
Retry(r) ==
    /\ Goto(r, "failed", "lookup")
    /\ UNCHANGED <<store, inputs, tiers, row, local, given, condemned, bounds>>
Redrive(r) ==
    /\ Goto(r, "done", "lookup")
    /\ Fault
    /\ UNCHANGED <<store, inputs, tiers, row, local, given, condemned>>

(* A measurement of machine m's inputs would notice that they moved since a  *)
(* prepare whose settlement is still to come.                                *)
Moved(m) == \E r \in Runs : /\ On[r] = m /\ pc[r] \in {"body", "settle"}
                            /\ inputs[m] # snap[r]

(* Somebody changes a declared input, or changes it back, but not back       *)
(* before a settlement has measured it: two measurements cannot tell that    *)
(* from no change, and settle claims nothing about it.                       *)
Edit(m) ==
    /\ edits < MaxEdits
    /\ ~Moved(m)
    /\ edits' = edits + 1
    /\ inputs' = [inputs EXCEPT ![m] = IF @ = "declared" THEN "edited" ELSE "declared"]
    /\ UNCHANGED <<store, tiers, row, pc, local, given, condemned, faults, setting>>

(* The disk of a machine corrupts an artifact, or loses it. *)
Damage(m, x, how) ==
    /\ artifact[m][x] = "ok"
    /\ artifact' = [artifact EXCEPT ![m][x] = how]
    /\ Fault
    /\ UNCHANGED <<head, ledger, inputs, tiers, row, pc, local, given, condemned>>

Step(r) ==
    \/ Lookup(r) \/ RemoteGet(r) \/ WriteBack(r) \/ ReGet(r) \/ Measure(r)
    \/ Replay(r) \/ Hydrate(r) \/ Evict(r) \/ ReplayRow(r)
    \/ Prepare(r) \/ Body(r) \/ Settle(r)
    \/ PublishArtifacts(r) \/ Record(r) \/ PublishEntry(r) \/ Conflict(r)

Next ==
    \/ \E r \in Runs : Step(r) \/ Crash(r) \/ Retry(r) \/ Redrive(r)
    \/ \E m \in Machines :
          Edit(m) \/ \E x \in Results, how \in {"corrupt", "absent"} : Damage(m, x, how)

Spec == Init /\ [][Next]_vars

-----------------------------------------------------------------------------
(* What the cache promises of a key: every entry in a local store, in its     *)
(* ledger or in the shared tier was computed from the inputs the key          *)
(* declares, although inputs change under a dispatch between its lookup, its  *)
(* prepare, its body and its settlement, on any machine.                      *)
CacheSound ==
    \A e \in {remote} \cup UNION {{head[m]} \cup ledger[m] : m \in Machines} :
        e # NoEntry => e.result.read = "declared"

(* Blobs before metadata: a machine that finds an entry in the shared tier    *)
(* finds its artifact there, although the artifact can be lost or corrupted   *)
(* on the machine that computed it between the settlement and the upload.     *)
RemoteServable == remote # NoEntry => remote.result \in remoteArtifacts

(* An eviction removes a row only when a dispatch has judged that very row:   *)
(* a fresh entry recorded by a sibling between the lookup of the poison and   *)
(* its eviction stays.                                                        *)
FreshSurvives ==
    [][\A m \in Machines :
          head[m] # NoEntry /\ head'[m] = NoEntry => head[m] \in condemned[m]]_vars

-----------------------------------------------------------------------------
(* The inductive invariant: what is stored, and what a dispatch holds at     *)
(* each of its steps.                                                        *)

Right(e) == e # NoEntry => e.result.read = "declared"

Durable ==
    /\ Right(remote) /\ RemoteServable
    /\ \A m \in Machines : Right(head[m]) /\ \A e \in ledger[m] : Right(e)
    /\ \A r \in Runs : row[r] # NoRow =>
          /\ row[r].result \in Results
          /\ row[r].verified => row[r].result.read = "declared"

Looked == {"writeback", "reget", "measure", "replay", "hydrate", "retry", "stale", "corrupt"}
Computed == {"settle", "artifacts", "record", "entry", "conflict"}

(* A completion may have read what the snapshot does not show only while the *)
(* measurement of its settlement would see it.                               *)
Dispatch(r) ==
    /\ Right(cached[r])
    /\ pc[r] \in Looked => cached[r] \in Entries
    /\ pc[r] \in {"stale", "corrupt"} => cached[r] \in condemned[On[r]]
    /\ pc[r] \in Computed => val[r] \in Results
    /\ pc[r] = "settle" => val[r].read = snap[r] \/ inputs[On[r]] # snap[r]
    /\ pc[r] \in {"artifacts", "record", "entry"} => val[r].read = "declared"
    /\ shareable[r] => pc[r] \in {"record", "entry", "conflict"} /\ val[r] \in remoteArtifacts
    /\ pc[r] = "entry" => shareable[r]

IInv ==
    /\ TypeOK /\ setting \in Settings
    /\ Durable
    /\ \A r \in Runs : Dispatch(r)
=============================================================================
