----------------------------- MODULE RunDriver -----------------------------
(***************************************************************************)
(* The life of one run across engine processes                             *)
(* (packages/engine-store/src/internal/RunDriver.ts), with the deferred    *)
(* and the clock it waits for (DeferredPersistence.ts).                    *)
(*                                                                         *)
(* row       the flows_runs row; stale stands for a heartbeat older than   *)
(*           the cutoff, claim for the claim columns                       *)
(* granted   the claim the lease strategy holds                            *)
(* deferred  the deferred's completion row exists                          *)
(* clock     the clock's deadline row, "none", "pending" or "completed"    *)
(* life[p]   a process is "new", "up", "stopping" or "dead"; a restart is  *)
(*           another process of Procs                                      *)
(* drive[p]  where the drive fiber of p is: the await it is suspended at,  *)
(*           the snapshot it read, the waiting reason it derived           *)
(* wake[p]   p's coordinator owes a drain (RunCoordinator)                 *)
(* resume[p] p committed a completion and has yet to schedule the resume   *)
(* timer[p]  p has armed the clock                                         *)
(* stop[p]   the call of interrupt on p: "none" yet, its request is        *)
(*           durable and the drive is "due" to be stopped, or it is "over" *)
(* setting   the member of Settings this behaviour is about                *)
(*                                                                         *)
(* RunStore models the store's operations in full and proves that the row  *)
(* and the lease agree on the owner, so one owner column stands for both.  *)
(* Every process has the flow registered: one that has not drops every     *)
(* wake and is no process of this model.  A round that fails, hands off or *)
(* is quarantined settles as one that completes or parks.  The flow waits  *)
(* for one deferred, which its clock may complete.                         *)
(***************************************************************************)
EXTENDS Naturals, FiniteSets

CONSTANTS
    Procs, None,
    Settings    \* how the engine is composed and what befalls it

ASSUME NoneAssumption == None \notin Procs

VARIABLES row, granted, deferred, clock, life, drive, wake, resume, timer, stop, setting

vars == <<row, granted, deferred, clock, life, drive, wake, resume, timer, stop, setting>>

durable == <<row, granted, deferred, clock>>
local == <<wake, resume, timer, stop>>

(* The process whose caller polls the run, None when it was discarded.     *)
Caller == setting.caller

(* A process starts only when every other is dead.                         *)
Sequential == setting.sequential

(* The writes of a running heartbeat loop may fail or be late.             *)
PulsesFail == setting.pulsesFail

(* The flow sleeps on a clock that completes its deferred.                 *)
Clocked == setting.clocked

(* The composition's isAlive tells the truth; the CLI's calls everyone     *)
(* dead.                                                                   *)
Truthful == setting.truthful

(* Where a drive fiber may be when its process dies, and how many may die. *)
CrashPoints == setting.crashes
MaxCrashes == setting.maxCrashes

(* Where a drive fiber may be when it is interrupted.                      *)
InterruptPoints == setting.interrupts

(* The processes on which interrupt is called, once each.                  *)
Cancellers == setting.cancellers

Terminal == {"completed", "cancelled"}

Phases == {"idle", "read", "claimed", "activated", "cleared", "flow",
           "suspending", "parking", "parked", "settling", "cancelling",
           "interrupted", "closing", "releasing", "released",
           "checking", "clearing"}

(* Phases of the finalizer that settles an interrupted race.               *)
Uninterruptible == {"idle", "interrupted", "closing", "releasing", "released",
                    "checking", "clearing"}

Row == [status : {"pending", "running", "suspended"} \cup Terminal,
        owner : Procs \cup {None}, stale : BOOLEAN, claim : Procs \cup {None},
        cancel : BOOLEAN, waiting : {None, "event", "timer", "released"}]

Snapshot(r) == [status |-> r.status, owner |-> r.owner, stale |-> r.stale]

Snapshots == [status : {"pending", "running", "suspended"} \cup Terminal,
              owner : Procs \cup {None}, stale : BOOLEAN]

Drive == [at : Phases, seen : Snapshots \cup {None}, reason : {None, "event", "timer"}]

NoDrive == [at |-> "idle", seen |-> None, reason |-> None]

(* ensureRun created the row; Caller's coordinator drives it.              *)
Init ==
    /\ row = [status |-> "pending", owner |-> None, stale |-> FALSE,
              claim |-> None, cancel |-> FALSE, waiting |-> None]
    /\ granted = None /\ deferred = FALSE /\ clock = "none"
    /\ setting \in Settings
    /\ \E first \in Procs :
          /\ Caller # None => first = Caller
          /\ life = [p \in Procs |-> IF p = first THEN "up" ELSE "new"]
          /\ wake = [p \in Procs |-> p = first]
    /\ drive = [p \in Procs |-> NoDrive]
    /\ resume = [p \in Procs |-> FALSE]
    /\ timer = [p \in Procs |-> FALSE]
    /\ stop = [p \in Procs |-> "none"]

---------------------------------------------------------------------------
Alive(p) == life[p] \in {"up", "stopping"}

Owns(p) == row.status = "running" /\ row.owner = p

Goto(p, at) == drive' = [drive EXCEPT ![p].at = at]

Done(p) == drive' = [drive EXCEPT ![p] = NoDrive]

Settled(r, status) ==
    [r EXCEPT !.status = status, !.owner = None, !.stale = FALSE, !.claim = None]

(* drive: the row is read once, and everything up to activation acts on    *)
(* that reading.                                                           *)
DriveBegin(p) ==
    /\ life[p] = "up" /\ wake[p] /\ drive[p].at = "idle"
    /\ wake' = [wake EXCEPT ![p] = FALSE]
    /\ drive' = [drive EXCEPT ![p] = [at |-> "read", seen |-> Snapshot(row),
                                      reason |-> None]]
    /\ UNCHANGED <<setting, durable, life, resume, timer, stop>>

IsAlive(q) == Truthful /\ life[q] # "dead"

(* Mutant: a stale heartbeat alone makes a running run claimable.          *)
ClaimableUnprobed(seen) ==
    \/ seen.status \in {"pending", "suspended"}
    \/ seen.status = "running" /\ seen.stale

Claimable(seen) ==
    \/ seen.status \in {"pending", "suspended"}
    \/ /\ seen.status = "running" /\ seen.stale
       /\ ~IsAlive(seen.owner)

(* claim or steal: the row is still the one read and neither the row nor   *)
(* the strategy holds a claim.                                             *)
ClaimOrSteal(p) ==
    /\ drive[p].at = "read"
    /\ Claimable(drive[p].seen)
    /\ Snapshot(row) = drive[p].seen /\ row.claim = None /\ granted = None
    /\ row' = [row EXCEPT !.claim = p]
    /\ granted' = p
    /\ Goto(p, "claimed")
    /\ UNCHANGED <<setting, deferred, clock, life, local>>

(* Terminal, fresh, refused by the probe, or lost to another claim.        *)
ClaimLost(p) ==
    /\ drive[p].at = "read"
    /\ \/ drive[p].seen.status \in Terminal
       \/ drive[p].seen.status = "running"
          /\ (~drive[p].seen.stale \/ IsAlive(drive[p].seen.owner))
       \/ Snapshot(row) # drive[p].seen \/ row.claim # None \/ granted # None
    /\ Done(p)
    /\ UNCHANGED <<setting, durable, life, local>>

Activate(p) ==
    /\ drive[p].at = "claimed"
    /\ row.claim = p /\ granted = p /\ Snapshot(row) = drive[p].seen
    /\ row' = [row EXCEPT !.status = "running", !.owner = p, !.stale = FALSE, !.claim = None]
    /\ granted' = None
    /\ Goto(p, "activated")
    /\ UNCHANGED <<setting, deferred, clock, life, local>>

(* activate, refused, and the abandonClaim that follows: both act only on  *)
(* a claim the row still shows.                                            *)
ActivationLost(p) ==
    /\ drive[p].at = "claimed"
    /\ row.claim # p \/ Snapshot(row) # drive[p].seen
    /\ row' = [row EXCEPT !.claim = IF @ = p THEN None ELSE @]
    /\ granted' = IF row.claim = p THEN None ELSE granted
    /\ Done(p)
    /\ UNCHANGED <<setting, deferred, clock, life, local>>

(* The transition to running carries the cancel guard.                     *)
GuardedStart(p) ==
    /\ drive[p].at = "activated"
    /\ IF ~Owns(p) THEN Done(p) ELSE Goto(p, IF row.cancel THEN "cancelling" ELSE "cleared")
    /\ UNCHANGED <<setting, durable, life, local>>

(* The wake that clears the waiting payload is not fenced.                 *)
ClearWaiting(p) ==
    /\ drive[p].at = "cleared"
    /\ row' = [row EXCEPT !.waiting = None]
    /\ Goto(p, "flow")
    /\ UNCHANGED <<setting, granted, deferred, clock, life, local>>

---------------------------------------------------------------------------
(* The race of the flow with the heartbeat loop and the cancel poll.       *)

(* scheduleClock is fenced by the row; an existing deadline is armed too.  *)
ScheduleClock(p) ==
    /\ Clocked /\ drive[p].at = "flow" /\ ~timer[p] /\ clock # "completed"
    /\ IF Owns(p) \/ clock = "pending"
       THEN /\ clock' = "pending"
            /\ timer' = [timer EXCEPT ![p] = TRUE]
            /\ UNCHANGED drive
       ELSE Goto(p, "interrupted") /\ UNCHANGED <<clock, timer>>
    /\ UNCHANGED <<setting, row, granted, deferred, life, wake, resume, stop>>

(* deferredResult: the flow goes on, or it suspends.                       *)
AwaitDeferred(p) ==
    /\ drive[p].at = "flow"
    /\ Goto(p, IF deferred THEN "settling" ELSE "suspending")
    /\ UNCHANGED <<setting, durable, life, local>>

CancelPolled(p) ==
    /\ drive[p].at = "flow" /\ row.cancel
    /\ Goto(p, "cancelling")
    /\ UNCHANGED <<setting, durable, life, local>>

(* The heartbeat loop ends the race when the lease is lost or its writes   *)
(* have failed for too long (HeartbeatLoop).                               *)
HeartbeatLost(p) ==
    /\ drive[p].at = "flow" /\ (~Owns(p) \/ (PulsesFail /\ row.stale))
    /\ Goto(p, "interrupted")
    /\ UNCHANGED <<setting, durable, life, local>>

Heartbeat(p) ==
    /\ drive[p].at = "flow" /\ Owns(p) /\ row.stale
    /\ row' = [row EXCEPT !.stale = FALSE]
    /\ UNCHANGED <<setting, granted, deferred, clock, life, drive, local>>

(* Time passes without a pulse.                                            *)
GoStale ==
    /\ row.status = "running" /\ ~row.stale
    /\ PulsesFail \/ drive[row.owner].at # "flow"
    /\ row' = [row EXCEPT !.stale = TRUE]
    /\ UNCHANGED <<setting, granted, deferred, clock, life, drive, local>>

---------------------------------------------------------------------------
(* settleRound.                                                            *)

DeriveReason(p) ==
    /\ drive[p].at = "suspending"
    /\ drive' = [drive EXCEPT ![p].at = "parking",
                              ![p].reason = IF clock = "pending" THEN "timer" ELSE "event"]
    /\ UNCHANGED <<setting, durable, life, local>>

Park(p) ==
    /\ drive[p].at = "parking"
    /\ row' = [row EXCEPT !.waiting = IF row.owner = p THEN drive[p].reason ELSE @]
    /\ Goto(p, "parked")
    /\ UNCHANGED <<setting, granted, deferred, clock, life, local>>

(* Mutant: the transition that ends a round is not fenced by the owner.    *)
SettleRoundUnfenced(p) ==
    /\ drive[p].at \in {"parked", "settling"}
    /\ IF row.cancel
       THEN Goto(p, "cancelling") /\ UNCHANGED row
       ELSE /\ row' = Settled(row, IF drive[p].at = "parked" THEN "suspended" ELSE "completed")
            /\ Done(p)
    /\ UNCHANGED <<setting, granted, deferred, clock, life, local>>

(* The guarded transition; a lost fence settles nothing.                   *)
SettleRound(p) ==
    /\ drive[p].at \in {"parked", "settling"}
    /\ IF ~Owns(p)
       THEN Done(p) /\ UNCHANGED row
       ELSE IF row.cancel
       THEN Goto(p, "cancelling") /\ UNCHANGED row
       ELSE /\ row' = Settled(row, IF drive[p].at = "parked" THEN "suspended" ELSE "completed")
            /\ Done(p)
    /\ UNCHANGED <<setting, granted, deferred, clock, life, local>>

CancelOwned(p) ==
    /\ drive[p].at \in {"cancelling", "closing"}
    /\ row' = IF Owns(p) THEN [Settled(row, "cancelled") EXCEPT !.waiting = None] ELSE row
    /\ Done(p)
    /\ UNCHANGED <<setting, granted, deferred, clock, life, local>>

---------------------------------------------------------------------------
(* settleInterrupted and releaseOwned, uninterruptible.                    *)

SettleInterrupted(p) ==
    /\ drive[p].at = "interrupted"
    /\ Goto(p, IF row.cancel THEN "closing" ELSE "releasing")
    /\ UNCHANGED <<setting, durable, life, local>>

ReleasePark(p) ==
    /\ drive[p].at = "releasing"
    /\ IF row.owner = p
       THEN row' = [row EXCEPT !.waiting = "released"] /\ Goto(p, "released")
       ELSE Done(p) /\ UNCHANGED row
    /\ UNCHANGED <<setting, granted, deferred, clock, life, local>>

ReleaseTransition(p) ==
    /\ drive[p].at = "released"
    /\ IF Owns(p)
       THEN row' = Settled(row, "suspended") /\ Done(p)
       ELSE Goto(p, "checking") /\ UNCHANGED row
    /\ UNCHANGED <<setting, granted, deferred, clock, life, local>>

(* The fence was lost after the park: the marker is taken back if it is    *)
(* still there, in two calls.                                              *)
CheckMarker(p) ==
    /\ drive[p].at = "checking"
    /\ IF row.waiting = "released" THEN Goto(p, "clearing") ELSE Done(p)
    /\ UNCHANGED <<setting, durable, life, local>>

ClearMarker(p) ==
    /\ drive[p].at = "clearing"
    /\ row' = [row EXCEPT !.waiting = None]
    /\ Done(p)
    /\ UNCHANGED <<setting, granted, deferred, clock, life, local>>

---------------------------------------------------------------------------
(* Wakes.                                                                  *)

(* deferredDone on any process: the completion row and its record commit   *)
(* first, the resume is scheduled after.                                   *)
CompleteDeferred(p) ==
    /\ life[p] = "up"
    /\ deferred' = TRUE
    /\ resume' = [resume EXCEPT ![p] = TRUE]
    /\ UNCHANGED <<setting, row, granted, clock, life, drive, wake, timer, stop>>

(* fireClock: a deadline somebody completed already schedules nothing.     *)
FireClock(p) ==
    /\ life[p] = "up" /\ timer[p]
    /\ timer' = [timer EXCEPT ![p] = FALSE]
    /\ IF clock = "pending"
       THEN /\ clock' = "completed" /\ deferred' = TRUE
            /\ resume' = [resume EXCEPT ![p] = TRUE]
       ELSE UNCHANGED <<clock, deferred, resume>>
    /\ UNCHANGED <<setting, row, granted, life, drive, wake, stop>>

ScheduleResume(p) ==
    /\ life[p] = "up" /\ resume[p]
    /\ resume' = [resume EXCEPT ![p] = FALSE]
    /\ wake' = [wake EXCEPT ![p] = TRUE]
    /\ UNCHANGED <<setting, durable, life, drive, timer, stop>>

(* The caller of execute polls a suspended run with resume.                *)
CallerPolls(p) ==
    /\ life[p] = "up" /\ p = Caller /\ ~wake[p] /\ drive[p].at = "idle"
    /\ row.status \notin Terminal
    /\ wake' = [wake EXCEPT ![p] = TRUE]
    /\ UNCHANGED <<setting, durable, life, drive, resume, timer, stop>>

(* Mutant: the sweep looks at stale owners only.                           *)
SweptWhenStale == row.status = "running" /\ row.stale

(* sweepCancelRequested and sweepStaleRunning.                             *)
Swept ==
    \/ row.status = "suspended" /\ row.waiting # None
       /\ (row.cancel \/ row.waiting = "released")
    \/ row.status = "running" /\ row.stale

Sweep(p) ==
    /\ life[p] = "up" /\ ~wake[p] /\ Swept
    /\ wake' = [wake EXCEPT ![p] = TRUE]
    /\ UNCHANGED <<setting, durable, life, drive, resume, timer, stop>>

(* Mutant: registration arms clocks and leaves completed deferreds alone.  *)
BootArmsClocks(p) ==
    /\ life[p] = "new"
    /\ Sequential => \A q \in Procs : ~Alive(q)
    /\ life' = [life EXCEPT ![p] = "up"]
    /\ timer' = [timer EXCEPT ![p] = clock = "pending"]
    /\ UNCHANGED <<setting, durable, drive, wake, resume, stop>>

(* Registration runs sweepDue: pending clocks are armed, and a resume is   *)
(* scheduled for every completed deferred.                                 *)
Boot(p) ==
    /\ life[p] = "new"
    /\ Sequential => \A q \in Procs : ~Alive(q)
    /\ life' = [life EXCEPT ![p] = "up"]
    /\ timer' = [timer EXCEPT ![p] = clock = "pending"]
    /\ resume' = [resume EXCEPT ![p] = deferred]
    /\ UNCHANGED <<setting, durable, drive, wake, stop>>

---------------------------------------------------------------------------
(* Interruption and death.                                                 *)

Interrupted(p) ==
    [drive EXCEPT ![p] = IF drive[p].at \in Uninterruptible THEN @
                         ELSE IF drive[p].at = "flow" THEN [@ EXCEPT !.at = "interrupted"]
                         ELSE NoDrive]

(* FlowEngine.interrupt: the request is durable first, and only then is    *)
(* the drive of this process stopped.                                      *)
RequestCancel(p) ==
    /\ p \in Cancellers /\ life[p] = "up" /\ stop[p] = "none"
    /\ row' = [row EXCEPT !.cancel = TRUE]
    /\ stop' = [stop EXCEPT ![p] = "due"]
    /\ UNCHANGED <<setting, granted, deferred, clock, life, drive, wake, resume, timer>>

(* coordinator.interrupt: the drive is interrupted, its wakes are dropped. *)
StopDrive(p) ==
    /\ life[p] = "up" /\ stop[p] = "due" /\ drive[p].at \in InterruptPoints
    /\ stop' = [stop EXCEPT ![p] = "over"]
    /\ drive' = Interrupted(p)
    /\ wake' = [wake EXCEPT ![p] = FALSE]
    /\ UNCHANGED <<setting, durable, life, resume, timer>>

(* The coordinator's scope closes; what the finalizers started goes on.    *)
Shutdown(p) ==
    /\ life[p] = "up" /\ drive[p].at \in InterruptPoints
    /\ Cardinality({q \in Procs : life[q] \in {"stopping", "dead"}}) < MaxCrashes
    /\ life' = [life EXCEPT ![p] = "stopping"]
    /\ drive' = Interrupted(p)
    /\ wake' = [wake EXCEPT ![p] = FALSE]
    /\ resume' = [resume EXCEPT ![p] = FALSE]
    /\ timer' = [timer EXCEPT ![p] = FALSE]
    /\ stop' = [stop EXCEPT ![p] = "over"]
    /\ UNCHANGED <<setting, durable>>

Exit(p) ==
    /\ life[p] = "stopping" /\ drive[p].at = "idle"
    /\ life' = [life EXCEPT ![p] = "dead"]
    /\ UNCHANGED <<setting, durable, drive, local>>

Crash(p) ==
    /\ Alive(p) /\ drive[p].at \in CrashPoints
    /\ Cardinality({q \in Procs \ {p} : life[q] \in {"stopping", "dead"}}) < MaxCrashes
    /\ life' = [life EXCEPT ![p] = "dead"]
    /\ drive' = [drive EXCEPT ![p] = NoDrive]
    /\ wake' = [wake EXCEPT ![p] = FALSE]
    /\ resume' = [resume EXCEPT ![p] = FALSE]
    /\ timer' = [timer EXCEPT ![p] = FALSE]
    /\ stop' = [stop EXCEPT ![p] = "over"]
    /\ UNCHANGED <<setting, durable>>

---------------------------------------------------------------------------
(* What the scheduler of a live process carries on with by itself.         *)
DriveStep(p) ==
    \/ DriveBegin(p) \/ ClaimOrSteal(p) \/ ClaimLost(p)
    \/ Activate(p) \/ ActivationLost(p) \/ GuardedStart(p) \/ ClearWaiting(p)
    \/ AwaitDeferred(p) \/ CancelPolled(p) \/ HeartbeatLost(p)
    \/ DeriveReason(p) \/ Park(p) \/ SettleRound(p) \/ CancelOwned(p)
    \/ SettleInterrupted(p) \/ ReleasePark(p) \/ ReleaseTransition(p)
    \/ CheckMarker(p) \/ ClearMarker(p)

Next ==
    \/ GoStale
    \/ \E p \in Procs :
        \/ DriveStep(p) \/ ScheduleClock(p) \/ Heartbeat(p)
        \/ CompleteDeferred(p) \/ FireClock(p) \/ ScheduleResume(p)
        \/ CallerPolls(p) \/ Sweep(p) \/ Boot(p)
        \/ RequestCancel(p) \/ StopDrive(p) \/ Shutdown(p) \/ Exit(p) \/ Crash(p)

(* Fibers go on, timers fire, the caller's poll and the sweeps tick, an    *)
(* unattended heartbeat goes stale, and a process is started when one is   *)
(* allowed to.  Nothing obliges anyone to complete the deferred, to cancel *)
(* or to renew.                                                            *)
Fairness ==
    /\ \A p \in Procs :
        /\ WF_vars(DriveStep(p)) /\ WF_vars(FireClock(p)) /\ WF_vars(ScheduleResume(p))
        /\ WF_vars(CallerPolls(p)) /\ WF_vars(Sweep(p)) /\ WF_vars(Boot(p)) /\ WF_vars(Exit(p))
    /\ WF_vars(GoStale /\ drive[row.owner].at # "flow")

Spec == Init /\ [][Next]_vars /\ Fairness

---------------------------------------------------------------------------
TypeOK ==
    /\ row \in Row
    /\ row.owner # None <=> row.status = "running"
    /\ granted \in Procs \cup {None}
    /\ deferred \in BOOLEAN
    /\ clock \in {"none", "pending", "completed"}
    /\ life \in [Procs -> {"new", "up", "stopping", "dead"}]
    /\ drive \in [Procs -> Drive]
    /\ wake \in [Procs -> BOOLEAN]
    /\ resume \in [Procs -> BOOLEAN]
    /\ timer \in [Procs -> BOOLEAN]
    /\ stop \in [Procs -> {"none", "due", "over"}]

(* Two processes never run the flow at once, through crashes, restarts,    *)
(* shutdowns and interruptions at any await, if the liveness probe tells   *)
(* the truth.                                                              *)
OneFlow ==
    Truthful => \A p, q \in Procs : (drive[p].at = "flow" /\ drive[q].at = "flow") => p = q

(* A settled run stays as it settled: neither a process that was presumed  *)
(* dead and wakes up late, nor one that claimed the row before it settled, *)
(* reopens it, whatever isAlive says.                                      *)
SettledForGood == [][row.status \in Terminal => row'.status = row.status]_vars

(* No drive is interrupted between the flow and the end of the round.      *)
RaceInterruptsOnly == InterruptPoints \subseteq {"idle", "flow"}

(* A run that has begun settles once its deferred is complete or its clock *)
(* scheduled, whatever interleaves with its park, when its caller follows  *)
(* it or its processes succeed one another and none dies holding a claim.  *)
(* A hard-killed owner does not strand it: the stale row is taken over.    *)
DeferredResumes ==
    (/\ Truthful /\ RaceInterruptsOnly
     /\ Caller # None \/ (Sequential /\ "claimed" \notin CrashPoints)
     /\ row.status # "pending" /\ (deferred \/ clock = "pending"))
    ~> row.status \in Terminal

(* A cancellation recorded against a run that has begun reaches it, parked *)
(* or running, through a crash at any await that holds no claim.           *)
CancelDelivered ==
    (/\ RaceInterruptsOnly /\ Sequential /\ "claimed" \notin CrashPoints
     /\ row.status # "pending" /\ row.cancel)
    ~> row.status \in Terminal

---------------------------------------------------------------------------
(* The strengthening under which OneFlow and SettledForGood are inductive. *)

(* Only a live process drives.                                             *)
DriversLive == \A p \in Procs : drive[p].at # "idle" => Alive(p)

(* A claim was granted on a snapshot that may be claimed, and it stays one *)
(* that may be: a process probed dead does not come back.                  *)
ClaimedClaimable ==
    \A p \in Procs : drive[p].at = "claimed" =>
        /\ drive[p].seen \in Snapshots /\ Claimable(drive[p].seen)
        /\ drive[p].seen.status = "running" => drive[p].seen.owner # None

(* A claim the row shows is the one the strategy holds: an activation is   *)
(* either admitted or refused for a reason the row shows, so Activate and  *)
(* ActivationLost leave no claimed drive behind.                           *)
ClaimBacked == row.claim # None => granted = row.claim

(* While the probe tells the truth, a drive that activated the run owns it *)
(* until that drive gives it up: no write of a round or of its finalizer   *)
(* meets a lost fence.                                                     *)
FenceKept ==
    Truthful => \A p \in Procs :
        drive[p].at \notin {"idle", "read", "claimed"} => Owns(p)

IInv == TypeOK /\ DriversLive /\ ClaimedClaimable /\ ClaimBacked /\ FenceKept
============================================================================
