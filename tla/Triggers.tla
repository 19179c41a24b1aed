------------------------------ MODULE Triggers ------------------------------
(***************************************************************************)
(* One cron trigger of packages/triggers: the SQL trigger store            *)
(* (SqlTriggerStore.ts), the overlap and catch-up decisions (Overlap.ts,   *)
(* CatchUp.ts) and the schedulers that poll it (Scheduler.ts), each with   *)
(* the fibers that launch and watch its runs.                              *)
(*                                                                         *)
(* Time is counted in occurrences of the schedule: the occurrence o is due *)
(* at the tick o. A run is named by its occurrence, for the idempotency    *)
(* key of a start is the trigger and the occurrence, so that a second      *)
(* start of an occurrence is answered with the first one's run. A step is  *)
(* one transaction of the store, one call of the runner, or what happens   *)
(* in memory between two of these.                                         *)
(***************************************************************************)
EXTENDS Integers, FiniteSets, FiniteSetsExt

CONSTANTS
    Procs,       \* the schedulers
    LastTick,    \* no setting's last occurrence is later
    Lease,       \* reservationLeaseMs, in ticks
    None,
    Settings     \* the trigger, who schedules it and what befalls them

Occs == 1..LastTick
Reservation(o) == [kind |-> "reservation", occ |-> o]
Run(o) == [kind |-> "run", occ |-> o]
Ids == {Reservation(o) : o \in Occs} \cup {Run(o) : o \in Occs}
Entry == [occ : Occs \cup {None}, id : Ids, fiber : BOOLEAN]

ASSUME TriggersAssumption ==
    /\ LastTick \in Nat \ {0} /\ Lease \in Nat \ {0}
    /\ \A s \in Settings :
        /\ s.overlap \in {"skip", "buffer-one", "supersede"}
        /\ s.catchUp \in {"none", "one", "all"} /\ s.maxCatchUp \in Nat
        /\ s.procs \subseteq Procs /\ s.last \in 1..LastTick /\ s.maxFaults \in Nat
    /\ Procs # {} /\ IsFiniteSet(Procs) /\ None \notin Occs /\ None \notin Ids /\ None \notin Entry

VARIABLES
    now,
    fires,     \* flows_trigger_fires: the outcome of each occurrence
    active,    \* active_run_id of the trigger: a reservation, a run or None
    since,     \* active_claimed_at_ms
    last,      \* last_fired_at_ms, or None
    pending,   \* pending_at_ms, or None
    run,       \* what the runner knows of the run of each occurrence
    pc,        \* where each scheduler's runOnce is
    at,        \* the time a poll began
    known,     \* the lastFiredAt a poll read with the trigger
    local,     \* a scheduler's entry of its active map, or None
    observed,  \* a scheduler's observedAt, or None
    due,       \* the occurrences a poll has still to claim
    occ,       \* the occurrence a poll is dispatching
    prior,     \* the entry that it clears or supersedes
    fiber,     \* the launch fibers of each scheduler
    began,     \* when each occurrence was last claimed for a launch
    faults,
    setting    \* the member of Settings this behaviour is about

row == <<fires, active, since, last, pending>>
memory == <<at, known, local, observed, due, occ, prior>>
vars == <<now, row, run, pc, memory, fiber, began, faults, setting>>

Overlap == setting.overlap
CatchUp == setting.catchUp
MaxCatchUp == setting.maxCatchUp
MaxFaults == setting.maxFaults  \* calls that fail, crashes and closes of a scheduler

TypeOK ==
    /\ now \in Occs
    /\ fires \in [Occs -> {"unclaimed", "claimed", "skipped", "buffered", "launched",
                           "completed", "failed", "superseded"}]
    /\ active \in Ids \cup {None} /\ since \in Occs \cup {None}
    /\ last \in Occs \cup {None} /\ pending \in Occs \cup {None}
    /\ run \in [Occs -> {"none", "active", "ended", "cancelled"}]
    /\ pc \in [Procs -> {"idle", "resolve", "clear", "stored", "clearStored", "pending", "resume",
                         "due", "each", "skip", "buffer", "rebuffer", "interrupt", "cancel", "superseded"}]
    /\ at \in [Procs -> Occs] /\ known \in [Procs -> Occs \cup {None}]
    /\ local \in [Procs -> Entry \cup {None}]
    /\ observed \in [Procs -> Occs \cup {None}]
    /\ due \in [Procs -> SUBSET Occs]
    /\ occ \in [Procs -> Occs \cup {None}]
    /\ prior \in [Procs -> Entry \cup {None}]
    /\ fiber \in [Procs -> [Occs -> {"none", "starting", "started", "watching", "completing", "blind", "failing",
                                  "unrecorded"}]]
    /\ began \in [Occs -> Occs \cup {None}]
    /\ faults \in 0..MaxFaults /\ setting \in Settings

Init ==
    /\ now = 1
    /\ fires = [o \in Occs |-> "unclaimed"]
    /\ active = None /\ since = None /\ last = None /\ pending = None
    /\ run = [o \in Occs |-> "none"]
    /\ pc = [p \in Procs |-> "idle"]
    /\ at = [p \in Procs |-> 1] /\ known = [p \in Procs |-> None]
    /\ local = [p \in Procs |-> None]
    /\ observed = [p \in Procs |-> None]
    /\ due = [p \in Procs |-> {}]
    /\ occ = [p \in Procs |-> None]
    /\ prior = [p \in Procs |-> None]
    /\ fiber = [p \in Procs |-> [o \in Occs |-> "none"]]
    /\ began = [o \in Occs |-> None]
    /\ faults = 0
    /\ setting \in Settings

-----------------------------------------------------------------------------
(* Helpers *)

Goto(p, to) == pc' = [pc EXCEPT ![p] = to]
Set(f, p, v) == [f EXCEPT ![p] = v]
IsActive(id) == id.kind = "run" /\ run[id.occ] = "active"
Live(p, o) == fiber[p][o] # "none"
LiveFiber(p, e) == e.fiber /\ e.occ # None /\ Live(p, e.occ)

(* removeActive: the entry is dropped only while it is this occurrence's. *)
Without(e, o) == IF e # None /\ e.occ = o THEN None ELSE e

Running(id) == id.kind = "reservation" \/ IsActive(id)

(* A reservation that is older than its lease. *)
Expired == active # None /\ active.kind = "reservation" /\ since <= now - Lease

(* A mutant of Holder: a reservation does not count as running. *)
HolderRunOnly == IF active # None /\ active.kind = "reservation" THEN None ELSE active

(* What is active once an expired reservation has made way. *)
Holder == IF Expired THEN None ELSE active

(* store.clearActive, a compare-and-swap on the run id. *)
ClearActive(id) ==
    /\ active' = IF active = id THEN None ELSE active
    /\ since' = IF active = id THEN None ELSE since
    /\ UNCHANGED <<fires, last, pending>>

(* store.recordResult; id is None where the result names no run. *)
RecordResult(o, outcome, id) ==
    /\ fires' = [fires EXCEPT ![o] = outcome]
    /\ last' = o
    /\ UNCHANGED pending
    /\ CASE outcome = "launched" -> active' = id /\ since' = None
         [] outcome \in {"completed", "failed", "superseded"} ->
               IF id = None \/ active = id
               THEN active' = None /\ since' = None
               ELSE UNCHANGED <<active, since>>
         [] OTHER ->
               IF active = Reservation(o)
               THEN active' = None /\ since' = None
               ELSE UNCHANGED <<active, since>>

(* Overlap.decide *)
Decide(running) ==
    IF ~running THEN "fire"
    ELSE CASE Overlap = "skip" -> "skip"
           [] Overlap = "buffer-one" -> "buffer"
           [] OTHER -> "supersede"

(* CatchUp.occurrences; a backlog above the bound is an error, {None}. *)
Missed(from, to) ==
    LET all == {o \in Occs : o > from /\ o <= to}
    IN CASE CatchUp = "none" -> {}
         [] CatchUp = "one" -> {o \in all : o = to}
         [] OTHER -> IF Cardinality(all) > MaxCatchUp THEN {None} ELSE all

-----------------------------------------------------------------------------
(* runOnce *)

Poll(p) ==
    /\ p \in setting.procs /\ pc[p] = "idle"
    /\ Goto(p, "resolve")
    /\ at' = Set(at, p, now) /\ known' = Set(known, p, last)
    /\ UNCHANGED <<setting, now, row, run, local, observed, due, occ, prior, fiber, began, faults>>

(* resolveActive, its local half: a live fiber or a live run is running. *)
ResolveLocal(p) ==
    LET e == local[p] IN
    /\ pc[p] = "resolve"
    /\ IF e = None THEN Goto(p, "stored") /\ UNCHANGED prior
       ELSE IF LiveFiber(p, e) \/ (~e.fiber /\ IsActive(e.id)) THEN Goto(p, "due") /\ UNCHANGED prior
       ELSE Goto(p, "clear") /\ prior' = Set(prior, p, e)
    /\ UNCHANGED <<setting, now, row, run, at, known, local, observed, due, occ, fiber, began, faults>>

ClearLocal(p) ==
    /\ pc[p] = "clear"
    /\ ClearActive(prior[p].id)
    /\ local' = Set(local, p, Without(local[p], prior[p].occ))
    /\ prior' = Set(prior, p, None)
    /\ Goto(p, "stored")
    /\ UNCHANGED <<setting, now, run, at, known, observed, due, occ, fiber, began, faults>>

(* Its stored half: store.activeRun drops an expired reservation, and any    *)
(* other one counts as running.                                              *)
ResolveStored(p) ==
    /\ pc[p] = "stored"
    /\ UNCHANGED <<setting, now, fires, last, pending, run, at, known, observed, due, occ, fiber, began, faults>>
    /\ \/ /\ Holder = None
          /\ active' = None /\ since' = None
          /\ Goto(p, "pending") /\ UNCHANGED <<local, prior>>
       \/ /\ Holder # None /\ Running(active)
          /\ local' = Set(local, p, [occ |-> known[p], id |-> active, fiber |-> FALSE])
          /\ Goto(p, "due") /\ UNCHANGED <<active, since, prior>>
       \/ /\ Holder # None /\ ~Running(active)
          /\ prior' = Set(prior, p, [occ |-> known[p], id |-> active, fiber |-> FALSE])
          /\ Goto(p, "clearStored") /\ UNCHANGED <<active, since, local>>

ClearStored(p) ==
    /\ pc[p] = "clearStored"
    /\ ClearActive(prior[p].id)
    /\ prior' = Set(prior, p, None)
    /\ Goto(p, "pending")
    /\ UNCHANGED <<setting, now, run, at, known, local, observed, due, occ, fiber, began, faults>>

TakePending(p) ==
    /\ pc[p] = "pending"
    /\ pending' = None
    /\ occ' = Set(occ, p, pending)
    /\ Goto(p, IF pending = None THEN "due" ELSE "resume")
    /\ UNCHANGED <<setting, now, fires, active, since, last, run, at, known, local, observed, due, prior, fiber, began, faults>>

(* dueOccurrences: the observation is moved before anything is claimed. *)
Due(p) ==
    LET o == observed[p]
        owed == IF o = None
                THEN IF known[p] = None THEN {at[p]} ELSE Missed(known[p], at[p])
                ELSE IF at[p] <= o THEN {} ELSE Missed(o, at[p] - 1) \cup {at[p]}
    IN
    /\ pc[p] = "due"
    /\ observed' = Set(observed, p, at[p])
    /\ IF None \in owed \/ owed = {}
       THEN Goto(p, "idle") /\ UNCHANGED due
       ELSE Goto(p, "each") /\ due' = Set(due, p, owed)
    /\ UNCHANGED <<setting, now, row, run, at, known, local, occ, prior, fiber, began, faults>>

(* A mutant of Resumable: a buffered occurrence is taken for a duplicate. *)
ResumableClaimed(o, resume) ==
    /\ fires[o] = "claimed"
    /\ active = None \/ (active = Reservation(o) /\ Expired)

(* store.claimFire: the fire is inserted, or resumed where its claim died or *)
(* it was buffered; an expired reservation makes way; the overlap policy     *)
(* decides against what is still active. One transaction.                    *)
Resumable(o, resume) ==
    \/ resume /\ fires[o] = "buffered"
    \/ /\ fires[o] = "claimed"
       /\ active = None \/ (active = Reservation(o) /\ Expired)

(* A mutant of Claimable: the conflict on the insert is ignored. *)
ClaimableAgain(o, resume) == TRUE

Claimable(o, resume) == fires[o] = "unclaimed" \/ Resumable(o, resume)

ClaimFire(o) ==
    LET action == Decide(Holder # None) IN
    CASE action = "skip" ->
            /\ fires' = [fires EXCEPT ![o] = "skipped"]
            /\ last' = o
            /\ active' = Holder /\ since' = (IF Holder = None THEN None ELSE since)
            /\ UNCHANGED pending
      [] action = "buffer" ->
            /\ fires' = [fires EXCEPT ![o] = "buffered"]
            /\ last' = o
            /\ pending' = IF pending = None \/ pending < o THEN o ELSE pending
            /\ active' = Holder /\ since' = (IF Holder = None THEN None ELSE since)
      [] OTHER ->
            /\ fires' = [fires EXCEPT ![o] = IF @ = "unclaimed" THEN "claimed" ELSE @]
            /\ active' = Reservation(o) /\ since' = now
            /\ UNCHANGED <<last, pending>>

(* A launch puts the reservation into the active map and forks the fiber,    *)
(* which runs at once.                                                       *)
Launch(p, o) ==
    /\ local' = Set(local, p, [occ |-> o, id |-> Reservation(o), fiber |-> TRUE])
    /\ fiber' = [fiber EXCEPT ![p][o] = "starting"]

(* Where a dispatch continues: after a resumed one with the due ones, after  *)
(* one of these with the next.                                               *)
After(p, rest) == IF pc[p] = "resume" THEN "due" ELSE IF rest = {} THEN "idle" ELSE "each"

Claim(p) ==
    LET resume == pc[p] = "resume"
        o == IF resume THEN occ[p] ELSE Min(due[p])
        rest == due[p] \ {o}
        action == Decide(Holder # None)
    IN
    /\ pc[p] \in {"resume", "each"}
    /\ due' = Set(due, p, rest)
    /\ UNCHANGED <<setting, now, run, at, known, observed, faults>>
    /\ \/ /\ ~Claimable(o, resume)
          /\ Goto(p, After(p, rest))
          /\ occ' = Set(occ, p, None)
          /\ UNCHANGED <<row, local, prior, fiber, began>>
       \/ /\ Claimable(o, resume)
          /\ ClaimFire(o)
          /\ occ' = Set(occ, p, IF action = "fire" THEN None ELSE o)
          /\ began' = IF action \in {"fire", "supersede"} THEN [began EXCEPT ![o] = now] ELSE began
          /\ CASE action = "fire" ->
                    Launch(p, o) /\ Goto(p, After(p, rest)) /\ UNCHANGED prior
               [] action = "supersede" ->
                    /\ Goto(p, "interrupt")
                    /\ prior' = Set(prior, p,
                          IF local[p] # None /\ local[p].id = active THEN local[p]
                          ELSE [occ |-> known[p], id |-> active, fiber |-> FALSE])
                    /\ UNCHANGED <<local, fiber>>
               [] OTHER ->
                    /\ Goto(p, IF resume THEN "rebuffer" ELSE action)
                    /\ UNCHANGED <<local, prior, fiber>>

(* The result of a skip or a buffer is recorded a second time, outside the   *)
(* claim's transaction.                                                      *)
RecordUnfired(p) ==
    /\ pc[p] \in {"skip", "buffer", "rebuffer"}
    /\ RecordResult(occ[p], IF pc[p] = "skip" THEN "skipped" ELSE "buffered", None)
    /\ occ' = Set(occ, p, None)
    /\ Goto(p, CASE pc[p] = "rebuffer" -> "due" [] due[p] = {} -> "idle" [] OTHER -> "each")
    /\ UNCHANGED <<setting, now, run, at, known, local, observed, due, prior, fiber, began, faults>>

-----------------------------------------------------------------------------
(* Superseding: interrupt the fiber, cancel the run, record, launch *)

(* A fiber that is interrupted cancels its run if it knows it; a start that  *)
(* is under way may have reached the runner or not.                          *)
Interrupted(p, o, reached) ==
    CASE fiber[p][o] \in {"started", "watching", "completing", "blind", "unrecorded"} /\ run[o] = "active" -> "cancelled"
      [] fiber[p][o] = "starting" /\ run[o] = "none" /\ reached -> "active"
      [] OTHER -> run[o]

Interrupt(p) ==
    LET e == prior[p] IN
    /\ pc[p] = "interrupt"
    /\ Goto(p, "cancel")
    /\ IF LiveFiber(p, e)
       THEN /\ \E reached \in BOOLEAN :
                  run' = [run EXCEPT ![e.occ] = Interrupted(p, e.occ, reached)]
            /\ fiber' = [fiber EXCEPT ![p][e.occ] = "none"]
            /\ local' = Set(local, p, Without(local[p], e.occ))
       ELSE UNCHANGED <<run, fiber, local>>
    /\ UNCHANGED <<setting, now, row, at, known, observed, due, occ, prior, began, faults>>

(* Control knows no run under a reservation: the cancel, and the poll, fail. *)
Cancel(p) ==
    LET id == prior[p].id IN
    /\ pc[p] = "cancel"
    /\ IF id.kind = "run" /\ run[id.occ] # "none"
       THEN /\ run' = [run EXCEPT ![id.occ] = IF @ = "active" THEN "cancelled" ELSE @]
            /\ Goto(p, "superseded")
            /\ UNCHANGED <<due, occ, prior>>
       ELSE /\ Goto(p, "idle")
            /\ due' = Set(due, p, {}) /\ occ' = Set(occ, p, None) /\ prior' = Set(prior, p, None)
            /\ UNCHANGED run
    /\ UNCHANGED <<setting, now, row, at, known, local, observed, fiber, began, faults>>

Superseded(p) ==
    LET e == prior[p] IN
    /\ pc[p] = "superseded"
    /\ IF e.occ = None THEN UNCHANGED row ELSE RecordResult(e.occ, "superseded", e.id)
    /\ Launch(p, occ[p])
    /\ occ' = Set(occ, p, None) /\ prior' = Set(prior, p, None)
    /\ Goto(p, IF due[p] = {} THEN "idle" ELSE "each")
    /\ UNCHANGED <<setting, now, run, at, known, observed, due, began, faults>>

-----------------------------------------------------------------------------
(* The launch fiber *)

(* runner.start: idempotent on the occurrence. *)
Start(p, o) ==
    /\ fiber[p][o] = "starting"
    /\ \/ /\ run' = [run EXCEPT ![o] = IF @ = "none" THEN "active" ELSE @]
          /\ local' = IF local[p] # None /\ local[p].occ = o
                      THEN [local EXCEPT ![p].id = Run(o)] ELSE local
          /\ fiber' = [fiber EXCEPT ![p][o] = "started"]
          /\ UNCHANGED faults
       \/ /\ faults < MaxFaults /\ faults' = faults + 1
          /\ fiber' = [fiber EXCEPT ![p][o] = "failing"]
          /\ UNCHANGED <<run, local>>
    /\ UNCHANGED <<setting, now, row, pc, at, known, observed, due, occ, prior, began>>

Launched(p, o) ==
    /\ fiber[p][o] = "started"
    /\ RecordResult(o, "launched", Run(o))
    /\ fiber' = [fiber EXCEPT ![p][o] = "watching"]
    /\ UNCHANGED <<setting, now, run, pc, memory, began, faults>>

(* runner.isActive, every second; that it cannot be answered is a failure. *)
Watch(p, o) ==
    /\ fiber[p][o] = "watching"
    /\ \/ /\ run[o] # "active"
          /\ fiber' = [fiber EXCEPT ![p][o] = "completing"]
          /\ UNCHANGED faults
       \/ /\ faults < MaxFaults /\ faults' = faults + 1
          /\ fiber' = [fiber EXCEPT ![p][o] = "blind"]
    /\ UNCHANGED <<setting, now, row, run, pc, memory, began>>

Settle(p, o) ==
    /\ CASE fiber[p][o] = "completing" -> RecordResult(o, "completed", Run(o))
         [] fiber[p][o] \in {"blind", "unrecorded"} -> RecordResult(o, "failed", Run(o))
         [] fiber[p][o] = "failing" -> RecordResult(o, "failed", None)
         [] OTHER -> FALSE
    /\ fiber' = [fiber EXCEPT ![p][o] = "none"]
    /\ local' = Set(local, p, Without(local[p], o))
    /\ UNCHANGED <<setting, now, run, pc, at, known, observed, due, occ, prior, began, faults>>

(* A result that cannot be recorded. The launch or the completion of a run   *)
(* becomes a failure that names the run; that a failure cannot be recorded   *)
(* is ignored: the entry goes, the row stays as it is.                       *)
RecordingFails(p, o) ==
    LET Turns(stage) == fiber' = [fiber EXCEPT ![p][o] = stage] IN
    /\ faults < MaxFaults /\ faults' = faults + 1
    /\ \/ fiber[p][o] = "started" /\ Turns("unrecorded") /\ UNCHANGED local
       \/ fiber[p][o] = "completing" /\ Turns("blind") /\ UNCHANGED local
       \/ /\ fiber[p][o] \in {"blind", "failing", "unrecorded"}
          /\ Turns("none")
          /\ local' = Set(local, p, Without(local[p], o))
    /\ UNCHANGED <<setting, now, row, run, pc, at, known, observed, due, occ, prior, began>>

-----------------------------------------------------------------------------
(* The environment *)

(* A start, and what records it, ends before the lease of its claim does. It *)
(* is assumed of the runner: nothing in Scheduler.ts bounds a start.         *)
Launching(p, o) ==
    \/ fiber[p][o] \in {"starting", "started", "failing", "unrecorded"}
    \/ pc[p] \in {"interrupt", "cancel", "superseded"} /\ occ[p] = o

Tick ==
    /\ now < setting.last
    /\ \A p \in Procs, o \in Occs : Launching(p, o) => now + 1 < began[o] + Lease
    /\ now' = now + 1
    /\ UNCHANGED <<setting, row, run, pc, memory, fiber, began, faults>>

RunEnds(o) ==
    /\ run[o] = "active"
    /\ run' = [run EXCEPT ![o] = "ended"]
    /\ UNCHANGED <<setting, now, row, pc, memory, fiber, began, faults>>

(* A scheduler's process dies and is started again; or its scope is closed,  *)
(* which interrupts its fibers first.                                        *)
Restart(p) ==
    /\ p \in setting.procs
    /\ faults < MaxFaults /\ faults' = faults + 1
    /\ Goto(p, "idle")
    /\ at' = Set(at, p, 1) /\ known' = Set(known, p, None) /\ local' = Set(local, p, None)
    /\ observed' = Set(observed, p, None) /\ due' = Set(due, p, {})
    /\ occ' = Set(occ, p, None) /\ prior' = Set(prior, p, None)
    /\ fiber' = Set(fiber, p, [o \in Occs |-> "none"])
    /\ UNCHANGED <<setting, now, row, began>>

Crash(p) == Restart(p) /\ UNCHANGED run
Close(p) ==
    /\ Restart(p)
    /\ \E reached \in BOOLEAN :
          run' = [o \in Occs |-> IF Live(p, o) THEN Interrupted(p, o, reached) ELSE run[o]]

(* A store or runner call of a poll fails: the loop drops the poll. *)
PollFails(p) ==
    /\ pc[p] # "idle"
    /\ faults < MaxFaults /\ faults' = faults + 1
    /\ Goto(p, "idle")
    /\ due' = Set(due, p, {}) /\ occ' = Set(occ, p, None) /\ prior' = Set(prior, p, None)
    /\ UNCHANGED <<setting, now, row, run, at, known, local, observed, fiber, began>>

PollStep(p) ==
    \/ Poll(p) \/ ResolveLocal(p) \/ ClearLocal(p) \/ ResolveStored(p) \/ ClearStored(p)
    \/ TakePending(p) \/ Due(p) \/ Claim(p) \/ RecordUnfired(p)
    \/ Interrupt(p) \/ Cancel(p) \/ Superseded(p)

FiberStep(p) == \E o \in Occs : Start(p, o) \/ Launched(p, o) \/ Watch(p, o) \/ Settle(p, o) \/ RecordingFails(p, o)

Next ==
    \/ \E p \in Procs : PollStep(p) \/ FiberStep(p) \/ PollFails(p) \/ Crash(p) \/ Close(p)
    \/ \E o \in Occs : RunEnds(o)
    \/ Tick

Spec == Init /\ [][Next]_vars

-----------------------------------------------------------------------------
Active == {o \in Occs : run[o] = "active"}
Alone == Cardinality(setting.procs) = 1

(* One run of the trigger at a time, whatever polls, skips, launches and      *)
(* completions interleave: an occurrence that falls due while a run is in     *)
(* flight does not start another, while one scheduler runs undisturbed. Where *)
(* it supersedes, the run of an interrupted start may survive it.             *)
NoOverlap ==
    (Alone /\ MaxFaults = 0 /\ Overlap # "supersede") => Cardinality(Active) <= 1

(* An occurrence that a scheduler skipped is run by none, and one that a lone *)
(* scheduler superseded is in flight no more, also if one call or process     *)
(* fails.                                                                     *)
SettledIdle ==
    \A o \in Occs :
        /\ fires[o] = "skipped" => run[o] = "none"
        /\ fires[o] = "superseded" /\ Alone /\ MaxFaults <= 1 => run[o] # "active"

(* The latest occurrence that was buffered is never lost between the row, the *)
(* poll that takes it and the fiber that launches it, if no scheduler dies.   *)
BufferedKept ==
    MaxFaults = 0 => \A o \in Occs : fires[o] = "buffered" =>
        \/ pending = o \/ run[o] # "none"
        \/ \E p \in Procs : occ[p] = o \/ Live(p, o)
        \/ \E q \in Occs : q > o /\ fires[q] # "unclaimed"
=============================================================================
