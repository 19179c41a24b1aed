# Verification of the durable core of flows

flows runs programs ("flows") whose progress survives crashes. Every run is a
row of `flows_runs`, owned by at most one process at a time, and every change
is described by an entry of the run's journal. This directory holds TLA+ models
of the parts that decide who owns a run, what its history says, when it is
driven, what an action of it did, what may be reused and what may be undone;
TLC configurations that check them; and TLAPS proofs about all of them.

## Inventory

| Component | State | Operations | Hard behaviour | Correct when |
| --- | --- | --- | --- | --- |
| Run store (`packages/run-store/src/RunStore.ts`) | `flows_runs` | create, get, requestCancel, claim, steal, claimAndOwn, activate, abandonClaim, recoverClaim, heartbeat, transitionOwned | processes with skewed clocks act on snapshots read earlier | one owner; displaced only when stale; settled for good; row, lease and journal agree |
| Lease strategy (`packages/journal/src/SqlConsensus.ts`) | `flows_consensus_leases` | claim, activate, heartbeat, release, steal, recover, guard | one run arbitrated by two tables | as above |
| Run fold (`packages/run-store/src/Fold.ts`) | none | reducers, snapshot, rebuild | a late entry replayed after a settlement | replay equals the row |
| Heartbeat loop (`packages/run-store/src/Ownership.ts`) | last acknowledged pulse | pulse, stop on a lost fence or past the tolerance | slow failing writes, clock offset | the flow stops before a peer steals |
| Run coordinator (`engine-store/src/internal/RunCoordinator.ts`) | entries per process | run, wake, interrupt, settle | wakes, interruptions and joins around a settling drain | one drain per key; no lost wake; callers answered |
| Run driver (`engine-store/src/internal/RunDriver.ts`, `DeferredPersistence.ts`) | drives, timers and sweeps of each process | claimAndActivate, drive, park, releaseOwned, cancel poll, sweeps, interrupt, completeDeferred, clocks | a crash, a cancellation or a completion between any two store calls | one flow at a time; nothing due, cancelled or orphaned is forgotten |
| Parent edges and the cancel cascade (`RunDriver.ts`, `DurableEngineState.ts`) | `flows_run_parents`, requests | ensureRun, execute, inheritParentCancellation, requestCancelDescendants, continueLineage | admission racing a cascade; circles of awaits | every child of a cancelled parent is asked; no deadlock |
| Journal (`packages/journal/src/SqlJournal.ts`) | event table, checkpoints, queue, caches | append (durable, lossy, fenced), transact, flush, checkpoint, compact, stream | sequence allocation, lost batches, compaction under readers | nothing delivered, remembered or vouched for is untrue |
| Attempts and actions (`AttemptStore.ts`, `ActionPersistence.ts`, `EffectRecords.ts`) | `flows_attempts`, effect records | fence, permit, replay, admit, snapshot, body, settle | a crash inside an action; two branches with one key | one outcome per action |
| Step cache (`packages/step-cache`, `StepBoundary.ts`, `CachePublication.ts`) | rows, ledger, shared tier, artifacts | lookup, dirty check, put, evict, publish | inputs that change under a dispatch | only results of the declared inputs are reused |
| Artifacts (`packages/artifacts`, `ArtifactGc.ts`) | blobs, mtimes | put, mark, sweep | a put racing a sweep | nothing referenced is removed |
| Triggers (`packages/triggers`) | fires, reservation, pending occurrence | poll, claim, launch, supersede, buffer, recover | overlap of runs, schedulers and completions | the overlap policy is kept |
| Time travel (`packages/time-travel`) | audits, archive | rewind, compensation, recovery | a failure between two irreversible steps | journal and world agree |
| Disaster recovery (`engine-store/src/DisasterRecovery.ts`) | backup | backup, restore, fence | survivors of the backed-up store | no survivor owns a restored run |

How they interact: the coordinator runs drains, which are the driver's `drive`;
the driver uses the run store and the engine state; the run store uses the lease
strategy and the journal inside one transaction; the driver's flow dispatches
actions, which use attempts, the cache and artifacts under the same lease; a
rewind and a restore take runs away from all of them. The modules are composed
where a property spans components: `RunStore` (rows, leases, fold),
`DisasterRecovery` (over `RunStore`), `RunDriver` (store, coordinator's wakes,
deferreds, clocks), `ActionDispatch` (engine loop, attempts, effect journal,
lease), `StepCache` (two tiers, artifacts, dispatch), `ArtifactGc` (store, roots,
collector), `Rewind` (rewinds, recovery, engine). `PROJECT.json` lists every
component, the ones left out with the reason, and the hazards with the
properties that cover them.

## Modules

| Module | Models | Depends on |
| --- | --- | --- |
| `SqlConsensus` | one lease row and its seven operations | - |
| `Fold` | what each journal entry does to a folded row | `SqlConsensus` |
| `RunStore` | rows, leases, folds and the memory of each process | `Fold` |
| `RunOwnership` | the abstract specification that `RunStore` implements | - |
| `HeartbeatLoop` | the owner's loop, discrete time, a peer that steals | - |
| `RunCoordinator` | entries, fibers and callers of one process | - |
| `RunDriver` | two processes that drive one run | - |
| `Cascade` | executions that spawn, share, hand off and cancel each other | - |
| `SqlJournal` | one stream of the journal, its writers, readers and caches | - |
| `ActionDispatch` | one action of one run and the fibers that dispatch it | - |
| `StepCache` | one key, its rows on several machines and the shared tier | - |
| `Triggers` | one trigger and its schedulers | - |
| `ArtifactGc` | writers, roots and the collector of one store | - |
| `Rewind` | one run, the suffix behind one frame, services and an engine | - |
| `DisasterRecovery` | the run store with backup and fenced restore | `RunStore` |
| `RunStoreProofs` | theorems about `RunStore` and `DisasterRecovery` | `DisasterRecovery` |
| `CacheProofs` | theorems about what may be reused and what may be removed | `StepCache`, `ArtifactGc` |
| `*Proofs` | theorems about `RunDriver`, `ActionDispatch`, `SqlJournal`, `Triggers` | their module |
| `LineageProofs` | theorems about what runs leave each other: cancellation and rewinds | `Cascade`, `Rewind` |
| `SupervisionProofs` | theorems about a process's coordinator and heartbeats | `RunCoordinator`, `HeartbeatLoop` |
| `MC*` | instances, settings and symmetry for TLC | their module |

Settings. Where a component is configured (an action's tier, an overlap
policy) or its environment matters (which processes are up, what may fail),
the configuration is a variable `setting` that no step changes, chosen in
`Init` from the constant `Settings`; `Cascade` calls it `bodies`. A run of TLC
covers all of its settings. A property that the code keeps only under some of
them names them in its premise. Definitions that begin with "A mutant of" or
"Mutant:" are plausible bugs of the definition that follows; each property of a
run is violated when one of them takes that definition's place.

### RunStore, RunOwnership

`rows[r]`, `leases[r]` and `folds[r]` are the run's row, its lease and what a
replay of its journal yields. Each operation is one `journal.transact` or
`DurableWriter.write`, so it is one action that changes the three together.
`sessions[o][r]` is what process `o` carries from one call to the next: the
snapshot it read and the generation of the claim it was granted, as
`claimAndActivate` does. The clock reading of a call is an input unrelated to
other readings, which covers skew and delayed commits. A crashed process takes
no more steps; its restart is another identity. A refused call is the absence
of a step, except where the code writes.

Probes are inputs: a probe may be wrong, and only staleness protects the owner.
A process never probes itself (`EvidenceBy`): the driver does not drive a run
it is driving. `NodeControl.ts:495` in the CLI passes `isAlive: () => false`
for every owner, its own process included; it starts no second drive of a run
it owns, and that use is not modelled.

`RunOwnership` knows a phase and an owner per run: created, taken, handed over,
released, settled once. The mapping reads the phase off the row and the owner
off the lease, so the refinement holds only while the two tables move together.

### RunCoordinator

One step is one synchronous stretch of JavaScript. A fiber is `forked` until
its first await resolves, then `draining`; its exit runs `settle` in the same
step. Scope closure interrupts every fiber, and fibers forked later at once
(`FiberSet`, external). An interrupted drain may exit either way. `owed` is a
history variable. Identities of entries and fibers are reused when nothing
refers to them, so behaviours are unbounded in length.

### HeartbeatLoop

Time is the owner's clock; a peer's clock may read up to `MaxOffset` later.
`WriteDelay` bounds how long a pulse takes to be answered, retries included,
`StartDelay` how long after its activation stamp the loop takes its first
reading. A write may commit and still be reported as failed. Timers fire on
time and an interruption stops the flow at once: lag in either adds to
`WriteDelay`.

### RunDriver

`drive[p].at` names the await at which process `p`'s drive is; a crash, an
interruption or a step of the other process can come at each. `row` is the
run's row with its claim, `granted` the claim in the lease, `stale` whether the
heartbeat is past the cutoff; `deferred` and `clock` are the completion and the
timer the flow waits for; `wake`, `resume` and `timer` are the coordinator's
wakes and the timers in memory. `isAlive` is the composition's: it answers
truthfully, or calls everyone dead as the CLI's does (`NodeControl.ts:495`),
and only `SettledForGood` holds then. An interruption is two steps: the durable
request (`RequestCancel`) and, later, the end of the drive in the same process
(`StopDrive`), so that a request also lands behind the race and before the
guarded transition; `cancellers` are the processes that may ask, once each. A
process that crashed is not started again; another one is. Retained flow scopes and the
quarantine park are left out. A pending run whose process died before its
first activation is found by no sweep, so liveness starts at the first
activation (`row.status # "pending"`).

### Cascade

`edges` is the parent-edge table, `next` the handoff of a round, `awaits[r]`
the execution whose drain the body of `r` awaits, `displaced` the runs whose
old body still executes in a process that lost them. Each store call is one
step, as SQL serializes them; the in-memory engine state, whose transactions
are pass-through, is not modelled. Descendants are defined without recursion, as
the least set that is closed under the edges.

### SqlJournal

`db` is the database: rows, checkpoints, floor and lease holder. `proc[p]` is a
journal's memory: allocation floors, queue, batch and loss epochs;
`sourceEvents[p]` its index of identities. `txn[p]` is an open transaction: its
snapshot, the rows it sees, what it inserted (`new`) and parked, the
settlements that run after the commit. `log` is a history variable: every
committed entry in commit order. `maxSafe` stands for `MAX_SAFE_INTEGER`, past
which an allocation fails. Readers read a page and the floor in two steps. The
automatic compaction policy's counters are left out: checkpoints and
compactions happen at any time.

### ActionDispatch

`f[x]` is one fiber in the engine's retry loop, at an await of
`ActionPersistence`; `rows[a]` the attempt rows, `journal` the lifecycle
entries, `effects` the effect records, `tree` the working copy, `given` what the
flow of the owner was told. A take-over (`TakeOver`) moves the run to another
process. A body fails with an error that the policy retries or with one it
names non-retryable or a defect (`Failures`), and a dispatch gives up on the
error itself, the attempts, the time or the missing key (`Verdicts`). The five
settings of the run are a keyed irreversible action with a retry budget, the
same without key or budget, two branches with one key, a compensable action
under crashes, and one under a host that fails. `AttemptStore.heartbeat` and its
`upsert` option are called by nothing in the packages and are no actions.

### StepCache

One key. `head` and `ledger` are the local rows, `remote` and
`remoteArtifacts` the shared tier, `artifact[m]` the blob of a result on a
machine. A result remembers whether it was computed from the declared inputs
(`read`), which only `CacheSound` looks at. Whether a workspace is warm is
nondeterministic. An input that is changed and changed back between two
measurements passes both, and the code claims nothing about it: `Edit` does not
change an input back while a settlement has still to measure it (`Moved`).
`MaxEdits` only bounds TLC's run. No composition in the packages uses
`CombinedCacheStore` yet; it is modelled as its tests compose it.

### Triggers

Time is counted in occurrences. `fires` is the outcome of each, `active` the
reservation or run of the trigger, `local` a scheduler's own entry, `fiber` the
launch fibers. A recording that fails after the run was made sends the fiber
to `recordFailed` with the run's id, and the failure of that is ignored
(`RecordingFails`). `Launching` bounds a launch: a start ends within its lease.
That is an assumption on the runner: a start that waits for an approval
(`Scheduler.ts:165`) is outside it.
`NoOverlap` speaks of one scheduler that runs undisturbed and does not
supersede, the second half of `SettledIdle` of one scheduler and at most one
fault; the limits below say what happens otherwise.
Registration, enabling and revisions, `setPending`, channels and webhooks are
left out.

### ArtifactGc

A writer is one attempt: it publishes under the digest's lock, records its
attempt row and then its cache row. A publication writes a temporary file,
which stamps the age, and renames it, which keeps that stamp (`WriteTemp`,
`Rename`). Blobs may rot (`Rot`); a replay that finds the bytes damaged strips
the attempt row of its evidence (`Quarantine`), so that a cache row may be the
only root of a blob that another attempt has put anew, and the mark must read
both tables. The collector marks cache rows and attempt rows page by page,
takes an inventory (one step), reads the clock and sweeps with the fence. The
lock is one of the process: a writer outside `Local` does not contend.
`Attempt` bounds how long after its stamp an attempt records its row, `Mark` how
long a collection takes until it reads the clock. Rows written back from a
shared tier, pins, dry runs and a failed freshen without `utimes` are left out:
that a write-back behind the mark loses its blob is noted below and is not what
`NoDangling` is about.

### Rewind

`live` is the suffix behind the frame, `effect[e]` how often the effect of an
entry stands in the world, `workspace` whether the tree is that of the frame.
A process is one time-travel service: it recovers when it is built and rewinds
afterwards. `run.claim` is a claim that is not activated yet. Recovery claims
or steals and then activates (`Acquire`, `Reactivate`); a run that a failed
recovery of the same service still owns is taken as it is, a claimed one is
busy. A steal needs evidence that the owner is dead (`probe`) and a heartbeat
that lapsed (`lapsed`). `TimeTravel.layer` passes no evidence: `MCShipped` is
that composition. The database may fail at every read and write of a rewind and
of a recovery (`StoreFails`), three times in `MCFailing`. `EngineTakes` takes
the run from the owners in `drives`. Fork, retry, replay, inspection, the
snapshot projector, attached children and assessments that only refuse are left
out.

### DisasterRecovery

A backup is a consistent copy of the three tables. A restore replaces them and
fences in one step, because engines open the restored file only after
`restoreAndFence`. Sessions survive: they are the memory of processes that were
alive all along. `fenced[r]` remembers who has not been granted a claim since.

## Runs

| Run | Instance | Distinct states | Shows |
| --- | --- | --- | --- |
| `run_store` | 3 processes on 2 hosts, readings 0..2, cutoff 0 | 253 k | owner mirrored, fold exact, displacement only when stale, settled for good, refinement |
| `coordinator` | 1 key, 2 callers, 4 entries, 2 fibers | 148 k | drains never overlap; wakes lead to drains; calls return |
| `heartbeat` | seconds: 1, 30, 10; offset 4, write 3, start 1 | 751 k | no overlap, at exactly the budget |
| `disaster_recovery` | 2 processes, readings 0..1, one backup | 215 k | no survivor owns a restored run |
| `run_driver` | 2 processes; hostile, sequential, followed, misjudged | 445 k | one flow; a settled run stays so; due, cancelled and orphaned runs are driven on |
| `cascade` | 4 executions; with handoffs, with shared children | 373 k | complete cascade, acyclic edges, no circle of waits |
| `sql_journal` | 2 processes; fenced, compacted, flushed, followed | 208 k | the journal's seven promises |
| `action_dispatch` | 3 processes, 2 attempts; irreversible with and without key, sealed with one key twice, compensable, failing host | 1.66 M | one outcome, one body, success recorded, clean start |
| `step_cache` | 3 runs on 2 machines with shared tiers; 2 runs, strict | 1.83 M | only declared inputs; blobs before metadata; fresh rows survive |
| `triggers` | one scheduler: buffer-one, skip with and without faults, supersede; two: skip, buffer-one | 1.55 M | no overlap; skipped and superseded stay idle; the buffered one is kept |
| `artifact_gc` | 2 writers, 2 interchangeable digests, 1 key, grace 3, 2 faults | 5.41 M | puts hold; nothing dangles |
| `rewind` | sequential, overlapping, undisturbed, shipped and failing services, 2 rewinds | 636 k | journal and world agree; fenced; resolved |

Why the bounds are enough.

* `run_store`: runs are independent in the store. Three processes are an owner,
  a thief and one that steals from either. With readings 0..2 and cutoff 0 a
  heartbeat can be fresh, stale, late and renewed while a claim is pending, and
  a stolen claim can go stale itself while the first owner still runs.
* `coordinator`: keys share nothing; two callers give joins, stops and
  replacements, four entries one active, one fresh and two awaited ones.
* `heartbeat`: `MaxTime` 45 covers a start, a success at any second and the
  whole failing stretch after it; the theorem has no such limit.
* `run_driver`: two processes are the owner and whoever replaces it; one crash
  each way is the case the sweeps exist for. `MCHostile` admits a crash and an
  interruption at every await, `MCRestart` every crash but one holding a claim,
  `MCFollowed` a caller beside a second process. In `MCMisjudged` each process
  takes the other for dead: steals from a live owner, lost activations and lost
  releases happen only there, and liveness is not claimed, because the two may
  steal from each other for ever. The settings without a clock show safety only.
* `cascade`: parent, child and grandchild, and the child's next round.
* `sql_journal`: two processes with one durable and one lossy producer, up to
  two entries in a transaction; small
  capacities, so that the queue overflows, the index evicts and the sequence
  space ends.
* `action_dispatch`: three faults in the compensable setting are a crash, its
  adopter's failure and a third process.
* `triggers`: five occurrences against a lease of two let a reservation expire
  and a buffered occurrence be replaced; two faults are a crash and a failing
  call of the next scheduler.
* `artifact_gc`: grace 3 exceeds attempt plus mark by one, which is tight; time
  5 lets a blob be published, grow old, be swept and be published again; two
  faults are a blob that rots and a collection that stops. The digests are a
  symmetry set: no definition tells one from another.
* `rewind`: three entries give two handlers and a workspace move in either
  order, and a fourth written by the engine between two rewinds. `MCAlone` and
  `MCShipped` differ in the evidence alone: in the first every rewind is
  completed or rolled back, in the second every audit is closed.

Deadlock checking is on for the coordinator, where a stop would be a bug, and
off where a settled run, a bound or the end of time may stop the model.

Fairness, where liveness is checked, and why the code justifies it:

* `RunCoordinator`: a forked fiber begins, a drain ends, a caller whose
  deferred is complete resumes. The first and third are the JavaScript
  scheduler; that drains end is an assumption on flows. `RunLeadsToReturn` is
  conditional on wakes coming to an end, because `settle` continues the same
  entry on a pending wake.
* `RunDriver`: fibers go on, timers fire, polls and sweeps tick (they are
  `Effect.repeat` loops of the layer), a heartbeat nobody renews goes stale, a
  process is started. Nothing obliges anyone to complete a deferred, cancel, or
  renew.
* `SqlJournal`: the writer's loop goes on and transactions end. Strong fairness
  of `persistBatch` stands for the connection's first-in, first-out queue: a
  batch is not overtaken for ever. `FlushEnds` lets the journal close under the
  waiter; admissions are bounded by `maxSafe`, so producers do pause.
* `Rewind`: a service that is up goes on, one that died is built again, an
  engine gives the run back.

All other runs check safety only.

## Disagreements between code and documentation

What the models showed while they were built. None of it is assumed away
silently: each is outside the premise or the settings of the property it would
break, as noted. `PROJECT.json` records as findings the two that deny what a
property's plain reading says.

Run store, coordinator, heartbeat, disaster recovery
* `transitionOwned` clears a thief's claim on the row but not in the lease; the
  suspended run cannot be claimed again ("leaving it claimable by any worker",
  `RunDriver.ts:707`).
* `activate`, refused, clears the claim columns without an entry ("an event is
  appended when and only when the table changed", run-store README). Hence
  `FoldRebuildsRow` compares the claim only while the row shows one.
* `run` on a stopping entry fails with that entry's interruption and starts
  nothing ("waits for a stopping entry before starting a replacement",
  `RunCoordinator.test.ts:250`).
* The heartbeat budget has no room for the duration of failing writes ("is still
  interrupted *before* the peer may steal", `Ownership.ts:117`): with offset 10
  and write 1, one above the budget, `NoOverlap` fails.
* `fence` suspends rows without an entry ("replaying the journal rebuilds
  equivalent state", run-store README).

Run driver (premises of its two liveness properties)
* A process that dies between its steal and its activation strands the run:
  claims refuse a claimed row and nothing calls `recoverClaim` ("a hard-killed
  owner ... no longer strands its run", `smithers-replacement-gaps.md:152`).
* A completion by another process between the deferred check and the park is
  noticed by nobody if no caller polls ("observed through the store, on the
  polling schedule and the heartbeat sweeps", `WakeBus.ts:21`).
* An interruption between the race and the guarded transition leaves the run
  owned by a live process that no longer beats; a truthful probe refuses every
  steal ("reclaimed and replayed", `RunDriver.ts:1147`).
* `releaseOwned` checks its marker and clears it in two calls; a new owner's
  reason can be cleared ("Clear it only if it is still ours", `RunDriver.ts:732`).

Cascade
* A completed execution with a live child, executed again under a cancelled
  parent, inherits the request and passes it to nobody (`RunDriver.ts:605`);
  `CascadeComplete` says so by `~Diamonds`.
* The cascade does not reach the later rounds of a child that handed off ("not
  orphaned by it", `make.ts:148`).
* A round that executes an earlier round of its lineage follows the handoff to
  itself ("deadlock cannot form", `RunDriver.ts:1671`); `NoMutualWait` says so by
  `~HandOffs`.

Journal
* A stream that read a durable entry first never delivers a lossy one committed
  below its cursor ("follows committed changes", `journal.md:64`);
  `DurableDelivered` speaks of durable entries.
* A rolled-back append leaves the allocation floor raised ("never becomes an
  allocation floor", `docs/reference/journal.md:64`).
* A retry whose original was compacted is appended again ("Exact retries return
  `Duplicate`", `Journal.ts:396`).
* The finalizer ignores a failed flush and closes over queued entries ("drains
  accepted events when the journal scope closes", `Journal.test.ts:1238`).
* A queued lossy entry can commit below a compacted checkpoint ("must subsume
  every entry", `Journal.ts:285`).

Actions and cache
* An unkeyed irreversible body that acted before a crash is adopted and acts
  again ("refuses rather than risking a second charge",
  `ActionPersistence.ts:104`).
* An effect may be recorded both unknown and succeeded ("moves only forward",
  `EffectRecords.ts:6`).
* A failing jj call returns an error and leaves the row running, so a replay may
  answer differently (`ActionPersistence.ts:1388`; premise `~HostFails` of
  `OneOutcome`).
* A third attempt consults only the second one's row for a pre-image
  (`ActionPersistence.ts:1326`): with three attempts and a host that fails
  before the second one's pre-image is recorded, a body starts on partial
  writes. `CleanStart` excludes it by `~HostFails` (in `Orderly`); with the
  conjunct dropped and three attempts TLC finds the counterexample. Recorded as
  a finding.
* With a policy that expires by time, two branches with one key may be given
  different outcomes: one gives up at an attempt the other has still to make.
  An unkeyed irreversible action may likewise be refused a retry and, on replay,
  be told that the time has run out. Premise `OneBudget` of `OneOutcome`.
* A corrupt local artifact under the shared tier fails every retry of a strict
  dispatch (`ActionPersistence.ts:911`): eviction is local only.
* The loser of a nondeterministic race is given the winner's result on replay
  (`determinism-and-replay.md:49`).
* Events of one millisecond are rebuilt in the order of run ids ("Replay order
  is commit order", `step-cache/src/Fold.ts:250`).

Triggers
* A start that outlasts its lease lets the next occurrence start beside it
  (`TriggerStore.test.ts:69`); `Launching` excludes it.
* A second scheduler takes a reservation for a run, is told it is not active
  and clears it (`SqlTriggerStore.ts:20`); premise of `NoOverlap`.
* Superseding interrupts the fiber of a start that may already have made its
  run, which then goes on beside the superseding one; `NoOverlap` excludes it.
* Of two schedulers that supersede, or after two faults, one may record as
  superseded an occurrence whose run is still in flight; premise of
  `SettledIdle`.
* A crash between `takePending` and the claim loses the buffered occurrence
  (`Scheduler.test.ts:162`); premise of `BufferedKept`.
* A claim whose scheduler closes is never asked for again
  (`TriggerStore.test.ts:83`).
* Superseding an occurrence that is still starting cancels the reservation id,
  fails, and drops the superseding occurrence (`Scheduler.test.ts:194`).

Artifacts
* A row written back from a shared tier behind the mark may name an old local
  blob, which is swept (`ArtifactGc.ts:307`). Write-back is not modelled.
* The fence is a stat followed by a remove under a lock of the process; a writer
  of another process freshens in between (`ArtifactSweep.ts:58`); `Local`.
* The grace is not compared with the length of the mark (`ArtifactGc.ts:25`);
  `Attempt + Mark < Grace`.

Time travel (`Tolerated`, `Undisplaced` and `Recoverable`)
* The layer's recovery has no liveness evidence and ends the audit of a dead
  owner in terminal failure, where the page says that it "finishes or rolls back
  any rewind a crash interrupted" (`docs/concepts/time-travel.md:90`).
  `Resolved` promises that only to a recovery that can take the run
  (`Recoverable`) and to the shipped one that every audit is closed; without the
  allowance TLC finds the counterexample under `MCShipped`. Recorded as a
  finding.
* A death after a handler ran and before the receipts are saved is reported as
  rolled back (`Recovery.ts:283`).
* A failed jj restore rolls the handlers back twice (`Compensation.ts:276`).
* An interrupt that lands inside compensation loses its receipts
  (`Rewind.ts:798`).
* A rollback that fails inside compensation is reported as rolled back
  (`docs/reference/time-travel.md:42`).
* An engine that takes the run of a slow rewind has its entries cut
  (`Rewind.ts:2`); one that takes a dead rewinder's run first makes a later
  rewind compensate again.
* A running detached child cannot be cancelled past the commit and the rewind
  keeps the run (`docs/reference/time-travel.md:42`).
* A service built while a failing rewind has given the run back and not closed
  its audit rolls back a second time (`Recovery.ts:280`).

## Proofs

`RunStoreProofs`, for all sets of runs, processes, hosts and readings under the
assumptions of `SqlConsensus` (`None` is neither a process nor a reading,
readings and the cutoff are natural numbers, every process has a host):
`TypeOK`, `OwnerMirrored`, `RowClaimBacked`, `RunningClaimShown`,
`FoldRebuildsRow`, `DisplacedOnlyWhenStale`, `TerminalForever` and the
refinement `ImplementsOwnership`. The inductive invariant `IInv` adds
`LeaseWellFormed` (lease columns are set in pairs), `NoSelfClaim` (without it
`release`, which clears both the claim and the ownership of its caller, would
leave a running row without a lease), `TerminalUnclaimed` (without it an
activation could revive a settled run; it covers absent rows too, or a claim
could be activated into a run that was never created, which `RunOwnership`
does not allow) and `StolenWasStale` (what a process remembers of a running run
it claimed was stale at the claim). The argument is local to one run: `GoodRun`
is the invariant of three records, `OneRunStep` lifts a step on one run to
`IInv'`, and each operation has one lemma. For the refinement each operation
maps to one step of `RunOwnership` on that run, or to a stutter.

The same module proves the store under disaster recovery. `IInv` splits into
`StoreInv` and `FoldRebuildsRow`, because a fence rewrites rows without an
entry: `DRIInv` keeps `StoreInv`, and adds that a backup holds tables the store
could reach (`BackupConsistent`) and that no owner and no claimant of a lease is
a process with nothing but its old memory (`FencedOut`). `NoResurrection` and
`RestoredConsistent` follow. The crux is that every operation of the store
hands a lease over only from a claim to its claimant and grants claims only to
its caller (`HandsOver`), so a fenced process comes back only through a new
claim. `RestoredStoreSafe` carries the store's step properties past a restore.

`SupervisionProofs`, for every set of keys, callers, entries and fibers:
`OneDrainPerKey`, and the two state properties behind the liveness TLC checks.
`Coherent` says how the map, the entries and the fibers refer to one another:
the active entry of a key is open and has exactly one live fiber, and no other
fiber works for the key. `WakeRemembered`: a wake that is owed is a
`pendingWake`, or a fiber that is still to begin. `WaitersServed`: a caller
waits for an entry that is complete or active.

It also proves `NoOverlap` of the heartbeat loop whenever `MaxOffset + 2 * WriteDelay +
StartDelay <= SkewAllowance + 1`. The invariant bounds how late each phase is
after the last acknowledged pulse: one tolerated failing write, one sleep and
the write that ends the loop. The condition is tight.

`RunDriverProofs`, for every set of processes and every setting, with `None` no
process: `SettledForGood`, and with a truthful probe `OneFlow`. The invariant
`FenceKept` is the stronger one: a drive past its activation owns the running
row at every await, so none of its writes meets a lost fence. It needs that
the snapshot behind a pending claim stays claimable (`ClaimedClaimable`: a
process probed dead does not come back), and that a claim the row shows is the
lease's (`ClaimBacked`).

`ActionDispatchProofs`, for every set of processes and fibers, every number of
attempts and every setting: `OneBody`, `SuccessRecorded`, `GivenDurable` (every
value a flow was given is the outcome of a succeeded row) and `RowsFinal` (a
terminal attempt row is never written again). With `OneBudget`, `OneOutcome`;
with `Orderly` (a working copy, processes that follow one another with one
dispatch each, a host that does not fail), `CleanStart`. The conditions are those under which the code
keeps them, see above. The invariant: a fiber that still owns the run and was
admitted has a running row (`RunningHeld`, from the permit and the fence), so
its admission is never refused and its settlement is the first; an attempt is
made only after all before it failed durably (`Chained`), so at most one row
succeeds; a failure is given only when nothing can succeed any more
(`FailureFinal`, for which a lone dispatch must be at the last attempt,
`AtLatest`); and every recorded pre-image is the first attempt's tree
(`PreImagesClean`). `Parts` splits the invariant by fiber, `FiberStep` lifts a
step of one fiber, and each action has one lemma. That the probe of the
attempts ends (`LatestEnds`) rests on the least-number principle.

`SqlJournalProofs`, for every set of processes, streams and sources and every
setting (capacities, batch and cache sizes, overflow policy, where the sequence
space ends): `DurableAscends`, `DurableDelivered`, `FoldKept`, `FlushVouches`,
`IndexTruthful` and the fence `FenceHeld` (rule R3). The invariant relates rows, log,
checkpoints and floor (`RowsKept`: what compaction removed is below the floor,
and a row at least as new as every committed entry is always left, so
`MAX(seq) + 1` is above the whole log and not only above the rows); says that a
projection's entries are all durable (`Channels`), so that by `DurableAscends`
the snapshot `compact` asks for was committed after the fold entries it
removes; that what a transaction inserted ascends from its snapshot (`TxnInv`);
that the pending count is the queue and the batch, and that a waiting flush
covers only what is outstanding or committed (`FlushInv`); and that a page read
before the floor lacks only entries below the floor (`ReaderInv`). Two lemmas
carry the store and the streams over any commit (`AppendStore`,
`AppendReader`), two over a compaction (`CompactStore`, `FloorReader`); each
action has one lemma more. `FenceHeld` is then a matter of `commit`: nothing
else takes a transaction to its settlements (`OnlyCommit`), and one that
inserted commits on the snapshot its fence was asked on. `IndexTruthful` needs
`IndexInv` beside `IInv`: a pending identity waits in the queue or in a batch
that is not persisted yet (`Unsettled`, stricter than the batch as such), and
what a transaction parked is one of the rows it sees until it commits and in
the log from then on (`Vouched`), so that the settlements applied after the
commit index nothing but committed entries. What the index becomes is computed
by recursion over the index (`Without`) and over the batch (`indexBatch`); the
library's induction theorems take an operator, which the provers cannot
instantiate, so induction is stated with a set (`Counting`) and the value of
such a recursion with a function (`Iterated`). From these `Deleted`, `Retained`
and `Remembered` follow: every entry of the new index is an old one that was
kept or one that was just committed.

`LineageProofs` on `Cascade`, for every set of executions and every assignment of rounds:
`EdgesAcyclic`, `NoOrphans`, `NoMutualWait`, `CascadeComplete`. `IInv` adds that
a waiting body's edge is in the table (`WaitsFollowEdges`), that the requests
are closed under the edges of settled parents (`CancelClosed`), that a
cancelled run was asked and that displaced bodies have rows. As descendants are
the least closed set, a bound on them is shown by exhibiting a closed set, and
no induction is needed.

On `Rewind`, for every number of entries, services and rewinds: `Consistent`
and, in every setting in which no engine takes the run of a live service
(`Undisplaced`), `Fenced`, also when services overlap. The latter rests on
`RunHeld`: until it has cut the suffix, a rewind owns the run. `Consistent`
rests on `RewindIInv`. Its premise `Tolerated` lets one service be up at a
time, so the invariant speaks of that process. `Debt(S, B)` is the world but for
what has been compensated and is still in the journal; `Stage` says at each
step of a rewind what is owed. `Books` is what the audits on disk say of the
work in memory, so that a death loses nothing a recovery needs. `Rested` is
what a service that stops leaves behind: a world that agrees with the journal,
or one open audit that owes exactly what its detail says and whose run nobody
else can take; that is why `Committed` may judge it by the archive. Before the
one fault at most one audit is open (`Orderly`). A disclosed terminal failure
ends the claim, as it does in the code.

`CacheProofs` on `ArtifactGc`, for any numbers of writers, keys and digests and any clock:
`PutHolds` and `NoDangling` if `Prudent`, that is, every writer is in the
collector's process and `Attempt + Mark < Grace`. The invariant says what the
mark has already seen: what an attempt row that it passed names is spared by
this sweep (`MarkComplete`), and so is what a cache row names, unless an attempt
row still ahead names it too (`CacheMarked`); that the bound is older than every
put that is not recorded yet (`BoundOld`) and that the blob being removed is neither
referenced nor being published (`TargetDead`).

`CacheProofs` on `StepCache`, for any numbers of runs, machines, edits and faults:
`CacheSound`, `RemoteServable`, `FreshSurvives`. `Durable` is the claim itself
for every tier, the ledger and the attempt rows; `Dispatch(r)` says what a
dispatch may hold at each await: an entry it looked up is right, one it is about
to evict is condemned, a completion that is recorded read the declared inputs,
and one that did not read what its snapshot shows meets inputs that differ from
the snapshot when it settles. A dispatch marked shareable has its artifact in
the shared tier before its entry is put there.

`TriggersProofs`, for every set of schedulers, every lease, any number of
occurrences and every setting: `NoOverlap`, `SettledIdle`, `BufferedKept`. For
any number of schedulers the invariant says what a poll holds at each of its
awaits (`Places`), that only the trigger's policy is applied (`Ruled`), that a
fiber has a fire and, past its start, a run (`Fired`, `Unrun`), and who has a
buffered occurrence (`Buffers`); there a second claim is what could lose one,
and it is the later occurrence. A lone scheduler has at most one fiber, whose
own entry and whose row name it, and a start is within its lease (`Sole`): that
is why an occurrence that falls due finds it. Under superseding `Sole` is too
strong, and `Tidy` takes its place: whatever the row, the entry or the prior
reservation says beside a run is that run's occurrence, nothing, or one that is
over (`Rows`), and after the one fault a watcher that lost sight of its run
still has the row, or is about to be interrupted (`Watches`).

Only model-checked: what rests on fairness, `WakeLeadsToDrain`,
`RunLeadsToReturn`, `DeferredResumes`, `CancelDelivered`, `FlushEnds` and
`Resolved`. Liveness and `ENABLED` are out of the prover's reach.

## Not modelled

Payloads, encodings, metrics, tracing and log messages; SQL itself (a
transaction is one step); schema migrations; process isolation, version control
and host bindings; user interfaces. `verify` and the digest checks of a backup
only refuse. `Fold.rebuild` of run store and step cache, run while entries are
being written: no caller in the packages does so.

The repository has some 235 000 lines, of which the applications, agents,
build tools, language front ends and their scripts are by far the most; they
hold little durable state of their own. The models stand for about 8 000 lines,
the engine's durable core.

## Plan

1. `PlanScheduler` (lanes, joins, durable plan rows) over `ActionDispatch`.
2. `NotificationQueue` and its delivery states; resumption in `SyncServer`.
3. The rebuild of the run fold beside live writers.
