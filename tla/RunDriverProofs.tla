-------------------------- MODULE RunDriverProofs --------------------------
(***************************************************************************)
(* Proofs, for every set of processes and every composition of the engine, *)
(* of the safety properties of RunDriver.  The fairness of Spec plays no   *)
(* part in them.                                                           *)
(***************************************************************************)
EXTENDS RunDriver, TLAPS

(* What TypeOK says of everything but the drives.                          *)
Tables ==
    /\ row \in Row
    /\ row.owner # None <=> row.status = "running"
    /\ granted \in Procs \cup {None}
    /\ deferred \in BOOLEAN
    /\ clock \in {"none", "pending", "completed"}
    /\ life \in [Procs -> {"new", "up", "stopping", "dead"}]
    /\ wake \in [Procs -> BOOLEAN]
    /\ resume \in [Procs -> BOOLEAN]
    /\ timer \in [Procs -> BOOLEAN]
    /\ stop \in [Procs -> {"none", "due", "over"}]

(* Before it activates, a drive holds nothing but perhaps a claim.         *)
Before == {"idle", "read", "claimed"}

(* A snapshot on which a claim may be granted.                             *)
GoodSnapshot(seen) ==
    seen \in Snapshots /\ (seen.status = "running" => seen.owner # None)

(* Initially nobody drives.                                                *)
LEMMA InitIInv == Init => IInv
  <1> SUFFICES ASSUME Init PROVE IInv
    OBVIOUS
  <1>1. NoDrive \in Drive /\ NoDrive.at = "idle"
    BY DEF NoDrive, Drive, Phases
  <1>2. row \in Row /\ row.owner = None /\ row.status = "pending" /\ row.claim = None
    BY DEF Init, Row
  <1>3. TypeOK
    BY <1>1, <1>2 DEF Init, TypeOK
  <1> QED
    BY <1>1, <1>2, <1>3 DEF Init, IInv, DriversLive, ClaimedClaimable, ClaimBacked, FenceKept

(* What a move of drive p to d must satisfy for the invariant to be kept:  *)
(* the dead stay dead, other processes are left as they are, and every     *)
(* drive that has activated the run still owns it.                         *)
LEMMA DriveMoves ==
  ASSUME IInv, NEW p \in Procs, NEW d \in Drive, Tables', setting' = setting,
         drive' = [drive EXCEPT ![p] = d],
         life[p] = "dead" => life'[p] = "dead",
         \A q \in Procs \ {p} : life'[q] = life[q],
         d.at # "idle" => life'[p] \in {"up", "stopping"},
         d.at = "claimed" => GoodSnapshot(d.seen) /\ Claimable(d.seen),
         row'.claim # None => granted' = row'.claim,
         Truthful /\ d.at \notin Before => row'.status = "running" /\ row'.owner = p,
         Truthful => \A q \in Procs \ {p} :
            drive[q].at \notin Before => row'.status = "running" /\ row'.owner = q
  PROVE  IInv'
  <1>1. drive \in [Procs -> Drive] /\ drive' \in [Procs -> Drive]
    BY DEF IInv, TypeOK
  <1>2. drive'[p] = d /\ \A q \in Procs \ {p} : drive'[q] = drive[q]
    BY <1>1
  <1>3. TypeOK'
    BY <1>1 DEF Tables, TypeOK
  <1>4. DriversLive'
    BY <1>2 DEF IInv, DriversLive, Alive
  <1>5. ASSUME NEW q \in Procs, drive'[q].at = "claimed"
        PROVE  LET seen == drive'[q].seen IN
               /\ GoodSnapshot(seen)
               /\ \/ seen.status \in {"pending", "suspended"}
                  \/ /\ seen.status = "running" /\ seen.stale
                     /\ ~(Truthful' /\ life'[seen.owner] # "dead")
    <2>1. GoodSnapshot(drive'[q].seen) /\ Claimable(drive'[q].seen)
      BY <1>2, <1>5 DEF IInv, ClaimedClaimable, GoodSnapshot
    <2>2. drive'[q].seen.status = "running" => drive'[q].seen.owner \in Procs
      BY <2>1 DEF GoodSnapshot, Snapshots
    <2>3. \A s \in Procs : life[s] = "dead" => life'[s] = "dead"
      OBVIOUS
    <2> QED
      BY <2>1, <2>2, <2>3 DEF Claimable, IsAlive, Truthful
  <1>6. ClaimedClaimable'
    BY <1>5 DEF ClaimedClaimable, GoodSnapshot, Claimable, IsAlive
  <1>7. ClaimBacked'
    BY DEF ClaimBacked
  <1>8. FenceKept'
    BY <1>2 DEF FenceKept, Truthful, Owns, Before
  <1> QED
    BY <1>3, <1>4, <1>6, <1>7, <1>8 DEF IInv

(* A drive that goes on to another await keeps what it read.               *)
LEMMA GotoIs ==
  ASSUME IInv, NEW p \in Procs, NEW at \in Phases, Goto(p, at)
  PROVE  LET d == [drive[p] EXCEPT !.at = at] IN
         /\ d \in Drive /\ d.at = at /\ d.seen = drive[p].seen
         /\ drive' = [drive EXCEPT ![p] = d]
  BY DEF IInv, TypeOK, Goto, Drive

(* A drive that ends keeps nothing.                                        *)
LEMMA DoneIs ==
  ASSUME NEW p \in Procs, Done(p)
  PROVE  /\ NoDrive \in Drive /\ NoDrive.at = "idle"
         /\ drive' = [drive EXCEPT ![p] = NoDrive]
  BY DEF Done, NoDrive, Drive, Phases

(* A drive under way goes to another await, or ends, while the ownership   *)
(* and the claim of the run are left alone.                                *)
LEMMA MovesOn ==
  ASSUME IInv, NEW p \in Procs, NEW at \in Phases \ {"claimed"}, Tables',
         Goto(p, at) \/ (at = "idle" /\ Done(p)),
         setting' = setting, life' = life, granted' = granted,
         row'.status = row.status, row'.owner = row.owner, row'.claim = row.claim,
         drive[p].at # "idle",
         at \in Before \/ drive[p].at \notin Before \/ Owns(p)
  PROVE  IInv'
  <1>1. PICK d \in Drive : d.at = at /\ drive' = [drive EXCEPT ![p] = d]
    <2>1. CASE Goto(p, at)
      <3> DEFINE e == [drive[p] EXCEPT !.at = at]
      <3>1. e \in Drive /\ e.at = at /\ drive' = [drive EXCEPT ![p] = e]
        BY <2>1, GotoIs
      <3> HIDE DEF e
      <3> QED
        BY <3>1
    <2>2. CASE at = "idle" /\ Done(p)
      BY <2>2, DoneIs
    <2> QED
      BY <2>1, <2>2
  <1>2. life'[p] \in {"up", "stopping"}
    BY DEF IInv, DriversLive, Alive
  <1>3. row'.claim # None => granted' = row'.claim
    BY DEF IInv, ClaimBacked
  <1>4. Truthful => \A q \in Procs :
          drive[q].at \notin Before => row'.status = "running" /\ row'.owner = q
    BY DEF IInv, FenceKept, Owns, Before
  <1>5. Truthful /\ d.at \notin Before => row'.status = "running" /\ row'.owner = p
    BY <1>1, <1>4 DEF Owns
  <1> QED
    BY <1>1, <1>2, <1>3, <1>4, <1>5, DriveMoves

(* The drive fields of one process are left alone, and so is the ownership *)
(* of the run.                                                             *)
LEMMA StaysPut ==
  ASSUME IInv, Tables', UNCHANGED <<setting, granted, drive, life>>,
         row'.status = row.status, row'.owner = row.owner, row'.claim = row.claim
  PROVE  IInv'
  <1>1. TypeOK'
    BY DEF IInv, TypeOK, Tables
  <1>2. DriversLive' /\ ClaimedClaimable'
    BY DEF IInv, DriversLive, ClaimedClaimable, Alive, Claimable, IsAlive, Truthful
  <1>3. ClaimBacked' /\ FenceKept'
    BY DEF IInv, ClaimBacked, FenceKept, Truthful, Owns
  <1> QED
    BY <1>1, <1>2, <1>3 DEF IInv

---------------------------------------------------------------------------
(* One lemma per group of steps.                                           *)

(* Steps of the drive that read the tables and change none of them.        *)
LEMMA ReadingSteps ==
  ASSUME IInv, NEW p \in Procs,
         \/ ClaimLost(p) \/ GuardedStart(p) \/ AwaitDeferred(p) \/ CancelPolled(p)
         \/ HeartbeatLost(p) \/ SettleInterrupted(p) \/ CheckMarker(p)
  PROVE  IInv'
  <1>1. Tables' /\ UNCHANGED <<setting, life, granted, row>>
    BY DEF ClaimLost, GuardedStart, AwaitDeferred, CancelPolled, HeartbeatLost,
           SettleInterrupted, CheckMarker, durable, local, IInv, TypeOK, Tables
  <1>2. PICK at \in {"idle", "cleared", "cancelling", "settling", "suspending",
                     "interrupted", "closing", "releasing", "clearing"} :
          /\ Goto(p, at) \/ (at = "idle" /\ Done(p))
          /\ drive[p].at # "idle"
          /\ at \in Before \/ drive[p].at \notin Before \/ Owns(p)
    <2>1. CASE ClaimLost(p)
      BY <2>1 DEF ClaimLost, Before
    <2>2. CASE GuardedStart(p)
      BY <2>2 DEF GuardedStart, Before
    <2>3. CASE AwaitDeferred(p) \/ CancelPolled(p) \/ HeartbeatLost(p)
      BY <2>3 DEF AwaitDeferred, CancelPolled, HeartbeatLost, Before
    <2>4. CASE SettleInterrupted(p) \/ CheckMarker(p)
      BY <2>4 DEF SettleInterrupted, CheckMarker, Before
    <2> QED
      BY <2>1, <2>2, <2>3, <2>4
  <1>3. at \in Phases \ {"claimed"}
    BY DEF Phases
  <1> QED
    BY <1>1, <1>2, <1>3, MovesOn

(* scheduleClock writes the clock's row and arms the timer, or loses.      *)
LEMMA ScheduleClockStep == ASSUME IInv, NEW p \in Procs, ScheduleClock(p) PROVE IInv'
  <1>1. Tables' /\ UNCHANGED <<setting, life, granted, row>>
    BY DEF ScheduleClock, IInv, TypeOK, Tables
  <1>2. CASE UNCHANGED drive
    BY <1>1, <1>2, StaysPut
  <1>3. CASE Goto(p, "interrupted")
    <2>1. drive[p].at = "flow" /\ "interrupted" \in Phases \ {"claimed"}
      BY DEF ScheduleClock, Phases
    <2> QED
      BY <1>1, <1>3, <2>1, MovesOn DEF Before
  <1> QED
    BY <1>2, <1>3 DEF ScheduleClock

(* The row is read, and the drive begins.                                  *)
LEMMA DriveBeginStep == ASSUME IInv, NEW p \in Procs, DriveBegin(p) PROVE IInv'
  <1> DEFINE d == [at |-> "read", seen |-> Snapshot(row), reason |-> None]
  <1>1. Tables' /\ UNCHANGED <<setting, life, granted, row>>
    BY DEF DriveBegin, durable, IInv, TypeOK, Tables
  <1>2. d \in Drive /\ d.at = "read" /\ drive' = [drive EXCEPT ![p] = d]
    BY DEF DriveBegin, IInv, TypeOK, Drive, Snapshots, Snapshot, Row, Phases
  <1>3. Truthful => \A q \in Procs :
          drive[q].at \notin Before => row'.status = "running" /\ row'.owner = q
    BY <1>1 DEF IInv, FenceKept, Owns, Before
  <1>4. row'.claim # None => granted' = row'.claim
    BY <1>1 DEF IInv, ClaimBacked
  <1>5. life'[p] = "up"
    BY <1>1 DEF DriveBegin
  <1> HIDE DEF d
  <1> QED
    BY <1>1, <1>2, <1>3, <1>4, <1>5, DriveMoves DEF Before

(* The reason of a park is derived from the clock.                         *)
LEMMA DeriveReasonStep == ASSUME IInv, NEW p \in Procs, DeriveReason(p) PROVE IInv'
  <1> DEFINE reason == IF clock = "pending" THEN "timer" ELSE "event"
             d == [drive[p] EXCEPT !.at = "parking", !.reason = reason]
  <1>1. Tables' /\ UNCHANGED <<setting, life, granted, row>>
    BY DEF DeriveReason, durable, local, IInv, TypeOK, Tables
  <1>2. d \in Drive /\ d.at = "parking" /\ drive' = [drive EXCEPT ![p] = d]
    BY DEF DeriveReason, IInv, TypeOK, Drive, Phases
  <1>3. Truthful => \A q \in Procs :
          drive[q].at \notin Before => row'.status = "running" /\ row'.owner = q
    BY <1>1 DEF IInv, FenceKept, Owns, Before
  <1>4. row'.claim # None => granted' = row'.claim
    BY <1>1 DEF IInv, ClaimBacked
  <1>5. drive[p].at = "suspending" /\ life'[p] \in {"up", "stopping"}
    BY <1>1 DEF DeriveReason, IInv, DriversLive, Alive
  <1> HIDE DEF d
  <1> QED
    BY <1>1, <1>2, <1>3, <1>4, <1>5, DriveMoves DEF Before

(* Writes of the waiting payload.                                          *)
LEMMA WaitingSteps ==
  ASSUME IInv, NEW p \in Procs,
         ClearWaiting(p) \/ Park(p) \/ ReleasePark(p) \/ ClearMarker(p)
  PROVE  IInv'
  <1>1. /\ UNCHANGED <<setting, life, granted, deferred, clock, wake, resume, timer, stop>>
        /\ drive[p].at \in {"cleared", "parking", "releasing", "clearing"}
        /\ \E w \in {None, "event", "timer", "released"} : row' = [row EXCEPT !.waiting = w]
    <2>1. row = [row EXCEPT !.waiting = @] /\ row.waiting \in {None, "event", "timer", "released"}
      BY DEF IInv, TypeOK, Row
    <2>2. drive[p].reason \in {None, "event", "timer"}
      BY DEF IInv, TypeOK, Drive
    <2> QED
      BY <2>1, <2>2 DEF ClearWaiting, Park, ReleasePark, ClearMarker, local
  <1>2. /\ row'.status = row.status /\ row'.owner = row.owner /\ row'.claim = row.claim
        /\ row' \in Row
    BY <1>1 DEF IInv, TypeOK, Row
  <1>3. Tables'
    BY <1>1, <1>2 DEF IInv, TypeOK, Tables
  <1>4. PICK at \in {"idle", "flow", "parked", "released"} :
          Goto(p, at) \/ (at = "idle" /\ Done(p))
    BY DEF ClearWaiting, Park, ReleasePark, ClearMarker
  <1>5. at \in Phases \ {"claimed"} /\ drive[p].at # "idle" /\ drive[p].at \notin Before
    BY <1>1 DEF Phases, Before
  <1> QED
    BY <1>1, <1>2, <1>3, <1>4, <1>5, MovesOn

(* What settling a row leaves of it.                                       *)
LEMMA SettledIs ==
  ASSUME row \in Row, NEW status \in {"suspended", "completed", "cancelled"}
  PROVE  LET r == Settled(row, status) IN
         /\ r \in Row /\ r.status = status /\ r.owner = None /\ r.claim = None
  BY DEF Row, Settled, Terminal

(* The owner settles the run and its drive ends, or the drive goes on with *)
(* the row as it was.  Nobody else has activated the run, so nobody else   *)
(* loses it.                                                               *)
LEMMA OwnerSettles ==
  ASSUME IInv, NEW p \in Procs, Owns(p), drive[p].at # "idle",
         row' \in Row, row'.status \in {"suspended"} \cup Terminal,
         row'.owner = None, row'.claim = None, Done(p),
         UNCHANGED <<setting, granted, deferred, clock, life, local>>
  PROVE  IInv'
  <1>1. NoDrive \in Drive /\ NoDrive.at = "idle" /\ drive' = [drive EXCEPT ![p] = NoDrive]
    BY DoneIs
  <1>2. Tables'
    BY DEF IInv, TypeOK, Tables, local, Terminal
  <1>3. Truthful => \A q \in Procs \ {p} : drive[q].at \in Before
    BY DEF IInv, FenceKept, Owns, Before
  <1> HIDE DEF NoDrive
  <1> QED
    BY <1>1, <1>2, <1>3, DriveMoves DEF Before, local

(* The transition that ends a round.                                       *)
LEMMA SettleRoundStep == ASSUME IInv, NEW p \in Procs, SettleRound(p) PROVE IInv'
  <1>1. /\ UNCHANGED <<setting, granted, deferred, clock, life, local>>
        /\ drive[p].at \in {"parked", "settling"} /\ row \in Row
    BY DEF SettleRound, IInv, TypeOK
  <1>2. CASE Owns(p) /\ ~row.cancel
    <2>1. Done(p) /\ (row' = Settled(row, "suspended") \/ row' = Settled(row, "completed"))
      BY <1>2 DEF SettleRound
    <2>2. /\ row' \in Row /\ row'.status \in {"suspended"} \cup Terminal
          /\ row'.owner = None /\ row'.claim = None
      BY <1>1, <2>1, SettledIs DEF Terminal
    <2> QED
      BY <1>1, <1>2, <2>1, <2>2, OwnerSettles
  <1>3. CASE ~Owns(p) \/ row.cancel
    <2>1. UNCHANGED row /\ (Done(p) \/ Goto(p, "cancelling"))
      BY <1>3 DEF SettleRound
    <2>2. Tables'
      BY <1>1, <2>1 DEF IInv, TypeOK, Tables, local
    <2>3. "idle" \in Phases \ {"claimed"} /\ "cancelling" \in Phases \ {"claimed"}
      BY DEF Phases
    <2>4. drive[p].at # "idle" /\ drive[p].at \notin Before
      BY <1>1 DEF Before
    <2> QED
      BY <1>1, <2>1, <2>2, <2>3, <2>4, MovesOn
  <1> QED
    BY <1>2, <1>3

(* The cancellation of a run by the drive that owns it.                    *)
LEMMA CancelOwnedStep == ASSUME IInv, NEW p \in Procs, CancelOwned(p) PROVE IInv'
  <1>1. /\ UNCHANGED <<setting, granted, deferred, clock, life, local>> /\ Done(p)
        /\ drive[p].at \in {"cancelling", "closing"} /\ row \in Row
    BY DEF CancelOwned, IInv, TypeOK
  <1>2. CASE Owns(p)
    <2>1. row' = [Settled(row, "cancelled") EXCEPT !.waiting = None]
      BY <1>2 DEF CancelOwned
    <2>2. /\ row' \in Row /\ row'.status = "cancelled"
          /\ row'.owner = None /\ row'.claim = None
      BY <1>1, <2>1, SettledIs DEF Row
    <2> QED
      BY <1>1, <1>2, <2>2, OwnerSettles DEF Terminal
  <1>3. CASE ~Owns(p)
    <2>1. UNCHANGED row
      BY <1>3 DEF CancelOwned
    <2>2. Tables'
      BY <1>1, <2>1 DEF IInv, TypeOK, Tables, local
    <2>3. "idle" \in Phases \ {"claimed"} /\ "idle" \in Before
      BY DEF Phases, Before
    <2> QED
      BY <1>1, <2>1, <2>2, <2>3, MovesOn
  <1> QED
    BY <1>2, <1>3

(* The transition of an interrupted owner.                                 *)
LEMMA ReleaseTransitionStep == ASSUME IInv, NEW p \in Procs, ReleaseTransition(p) PROVE IInv'
  <1>1. /\ UNCHANGED <<setting, granted, deferred, clock, life, local>>
        /\ drive[p].at = "released" /\ row \in Row
    BY DEF ReleaseTransition, IInv, TypeOK
  <1>2. CASE Owns(p)
    <2>1. row' = Settled(row, "suspended") /\ Done(p)
      BY <1>2 DEF ReleaseTransition
    <2> QED
      BY <1>1, <1>2, <2>1, SettledIs, OwnerSettles
  <1>3. CASE ~Owns(p)
    <2>1. UNCHANGED row /\ Goto(p, "checking")
      BY <1>3 DEF ReleaseTransition
    <2>2. Tables'
      BY <1>1, <2>1 DEF IInv, TypeOK, Tables, local
    <2>3. "checking" \in Phases \ {"claimed"} /\ drive[p].at \notin Before
      BY <1>1 DEF Phases, Before
    <2> QED
      BY <1>1, <2>1, <2>2, <2>3, MovesOn
  <1> QED
    BY <1>2, <1>3

---------------------------------------------------------------------------
(* A claim is granted on the snapshot that was read.                       *)
LEMMA ClaimOrStealStep == ASSUME IInv, NEW p \in Procs, ClaimOrSteal(p) PROVE IInv'
  <1> DEFINE d == [drive[p] EXCEPT !.at = "claimed"]
  <1>1. /\ drive[p].at = "read" /\ Claimable(drive[p].seen) /\ Snapshot(row) = drive[p].seen
        /\ row' = [row EXCEPT !.claim = p] /\ granted' = p
        /\ UNCHANGED <<setting, deferred, clock, life, wake, resume, timer, stop>>
        /\ row \in Row
    BY DEF ClaimOrSteal, local, IInv, TypeOK
  <1>2. /\ row' \in Row /\ row'.claim = p
        /\ row'.status = row.status /\ row'.owner = row.owner
    BY <1>1 DEF Row
  <1>3. Tables'
    BY <1>1, <1>2 DEF IInv, TypeOK, Tables
  <1>4. d \in Drive /\ d.at = "claimed" /\ d.seen = drive[p].seen
        /\ drive' = [drive EXCEPT ![p] = d]
    BY GotoIs DEF ClaimOrSteal, Phases
  <1>5. GoodSnapshot(drive[p].seen)
    BY <1>1 DEF IInv, TypeOK, GoodSnapshot, Snapshot, Snapshots, Row
  <1>6. Truthful => \A q \in Procs :
          drive[q].at \notin Before => row'.status = "running" /\ row'.owner = q
    BY <1>2 DEF IInv, FenceKept, Owns, Before
  <1>7. life'[p] \in {"up", "stopping"}
    BY <1>1 DEF IInv, DriversLive, Alive
  <1> HIDE DEF d
  <1> QED
    BY <1>1, <1>2, <1>3, <1>4, <1>5, <1>6, <1>7, DriveMoves DEF Before

(* A claim becomes ownership.  If somebody owned the run it was probed     *)
(* dead, so no drive that is under way loses the run.                      *)
LEMMA ActivateStep == ASSUME IInv, NEW p \in Procs, Activate(p) PROVE IInv'
  <1> DEFINE d == [drive[p] EXCEPT !.at = "activated"]
  <1>1. /\ drive[p].at = "claimed" /\ Snapshot(row) = drive[p].seen
        /\ row' = [row EXCEPT !.status = "running", !.owner = p, !.stale = FALSE, !.claim = None]
        /\ granted' = None
        /\ UNCHANGED <<setting, deferred, clock, life, wake, resume, timer, stop>>
        /\ row \in Row
    BY DEF Activate, local, IInv, TypeOK
  <1>2. /\ row' \in Row /\ row'.claim = None
        /\ row'.status = "running" /\ row'.owner = p
    BY <1>1 DEF Row
  <1>3. Tables'
    BY <1>1, <1>2, NoneAssumption DEF IInv, TypeOK, Tables
  <1>4. d \in Drive /\ d.at = "activated" /\ drive' = [drive EXCEPT ![p] = d]
    BY GotoIs, ZenonT(60) DEF Activate, Phases
  <1>5. Truthful => \A q \in Procs : drive[q].at \in Before
    <2> SUFFICES ASSUME Truthful, NEW q \in Procs, drive[q].at \notin Before PROVE FALSE
      OBVIOUS
    <2>1. row.status = "running" /\ row.owner = q
      BY DEF IInv, FenceKept, Owns, Before
    <2>2. life[q] # "dead"
      BY DEF IInv, DriversLive, Alive, Before
    <2>3. Claimable(Snapshot(row))
      BY <1>1 DEF IInv, ClaimedClaimable
    <2> QED
      BY <2>1, <2>2, <2>3 DEF Claimable, Snapshot, IsAlive
  <1>6. life'[p] \in {"up", "stopping"}
    BY <1>1 DEF IInv, DriversLive, Alive
  <1> HIDE DEF d
  <1> QED
    BY <1>1, <1>2, <1>3, <1>4, <1>5, <1>6, DriveMoves

(* A refused activation gives its claim back, in the row and the strategy. *)
LEMMA ActivationLostStep == ASSUME IInv, NEW p \in Procs, ActivationLost(p) PROVE IInv'
  <1>1. /\ drive[p].at = "claimed" /\ Done(p)
        /\ row' = [row EXCEPT !.claim = IF @ = p THEN None ELSE @]
        /\ granted' = IF row.claim = p THEN None ELSE granted
        /\ UNCHANGED <<setting, deferred, clock, life, wake, resume, timer, stop>>
        /\ row \in Row
    BY DEF ActivationLost, local, IInv, TypeOK
  <1>2. /\ row' \in Row /\ row'.claim = IF row.claim = p THEN None ELSE row.claim
        /\ row'.status = row.status /\ row'.owner = row.owner
    BY <1>1 DEF Row
  <1>3. Tables'
    BY <1>1, <1>2 DEF IInv, TypeOK, Tables
  <1>4. NoDrive \in Drive /\ NoDrive.at = "idle" /\ drive' = [drive EXCEPT ![p] = NoDrive]
    BY <1>1, DoneIs
  <1>5. Truthful => \A q \in Procs :
          drive[q].at \notin Before => row'.status = "running" /\ row'.owner = q
    BY <1>2 DEF IInv, FenceKept, Owns, Before
  <1>6. row'.claim # None => granted' = row'.claim
    BY <1>1, <1>2 DEF IInv, ClaimBacked
  <1> HIDE DEF NoDrive
  <1> QED
    BY <1>1, <1>3, <1>4, <1>5, <1>6, DriveMoves DEF Before

---------------------------------------------------------------------------
(* Wakes, pulses and the passing of time leave every drive where it is.    *)
LEMMA WakeSteps ==
  ASSUME IInv, NEW p \in Procs,
         \/ CompleteDeferred(p) \/ FireClock(p) \/ ScheduleResume(p)
         \/ CallerPolls(p) \/ Sweep(p)
  PROVE  IInv'
  <1>1. UNCHANGED <<setting, granted, drive, life, row>>
    BY DEF CompleteDeferred, FireClock, ScheduleResume, CallerPolls, Sweep, durable
  <1>2. /\ deferred' \in BOOLEAN /\ clock' \in {"none", "pending", "completed"}
        /\ wake' \in [Procs -> BOOLEAN] /\ resume' \in [Procs -> BOOLEAN]
        /\ timer' \in [Procs -> BOOLEAN] /\ stop' \in [Procs -> {"none", "due", "over"}]
    BY DEF CompleteDeferred, FireClock, ScheduleResume, CallerPolls, Sweep, durable, IInv, TypeOK
  <1>3. Tables'
    BY <1>1, <1>2 DEF IInv, TypeOK, Tables
  <1> QED
    BY <1>1, <1>3, StaysPut

(* A pulse, or its absence.                                                *)
LEMMA PulseSteps ==
  ASSUME IInv, GoStale \/ \E p \in Procs : Heartbeat(p) PROVE IInv'
  <1>1. /\ \E stale \in BOOLEAN : row' = [row EXCEPT !.stale = stale]
        /\ UNCHANGED <<setting, granted, deferred, clock, life, drive, wake, resume, timer, stop>>
        /\ row \in Row
    BY DEF GoStale, Heartbeat, local, IInv, TypeOK
  <1>2. /\ row' \in Row /\ row'.status = row.status
        /\ row'.owner = row.owner /\ row'.claim = row.claim
    BY <1>1 DEF Row
  <1>3. Tables'
    BY <1>1, <1>2 DEF IInv, TypeOK, Tables
  <1> QED
    BY <1>1, <1>2, <1>3, StaysPut

(* The request of a cancellation marks the row and owes this process a     *)
(* stop.                                                                   *)
LEMMA RequestCancelStep ==
  ASSUME IInv, NEW p \in Procs, RequestCancel(p) PROVE IInv'
  <1>1. /\ row' = [row EXCEPT !.cancel = TRUE] /\ row \in Row
        /\ stop' \in [Procs -> {"none", "due", "over"}]
        /\ UNCHANGED <<setting, granted, deferred, clock, life, drive, wake, resume, timer>>
    BY DEF RequestCancel, IInv, TypeOK
  <1>2. /\ row' \in Row /\ row'.status = row.status
        /\ row'.owner = row.owner /\ row'.claim = row.claim
    BY <1>1 DEF Row
  <1>3. Tables'
    BY <1>1, <1>2 DEF IInv, TypeOK, Tables
  <1> QED
    BY <1>1, <1>2, <1>3, StaysPut

(* What interrupting a drive leaves of it: the finalizer of a flow, or     *)
(* nothing.                                                                *)
LEMMA InterruptedIs ==
  ASSUME IInv, NEW p \in Procs, drive' = Interrupted(p)
  PROVE  \E d \in Drive :
            /\ drive' = [drive EXCEPT ![p] = d]
            /\ d.at # "idle" => drive[p].at # "idle"
            /\ d.at = "claimed" => d = drive[p]
            /\ d.at \notin Before => drive[p].at \notin Before
  <1>1. drive \in [Procs -> Drive] /\ NoDrive \in Drive /\ NoDrive.at = "idle"
    BY DEF IInv, TypeOK, NoDrive, Drive, Phases
  <1>2. CASE drive[p].at \in Uninterruptible
    <2>1. drive' = [drive EXCEPT ![p] = drive[p]]
      BY <1>2 DEF Interrupted
    <2> QED
      BY <1>1, <2>1
  <1>3. CASE drive[p].at \notin Uninterruptible /\ drive[p].at = "flow"
    <2> DEFINE d == [drive[p] EXCEPT !.at = "interrupted"]
    <2>1. drive' = [drive EXCEPT ![p] = d]
      BY <1>3 DEF Interrupted
    <2>2. d \in Drive /\ d.at = "interrupted"
      BY <1>1 DEF Drive, Phases
    <2> HIDE DEF d
    <2> QED
      BY <1>3, <2>1, <2>2 DEF Before
  <1>4. CASE drive[p].at \notin Uninterruptible /\ drive[p].at # "flow"
    <2>1. drive' = [drive EXCEPT ![p] = NoDrive]
      BY <1>4 DEF Interrupted
    <2> HIDE DEF NoDrive
    <2> QED
      BY <1>1, <2>1 DEF Before
  <1> QED
    BY <1>2, <1>3, <1>4

(* A process changes its life and its drive in a way that neither revives  *)
(* the dead nor lets a dead process drive; the run's row keeps its owner   *)
(* and claim.                                                              *)
LEMMA LifeMoves ==
  ASSUME IInv, NEW p \in Procs, NEW d \in Drive, Tables', UNCHANGED <<setting, granted>>,
         drive' = [drive EXCEPT ![p] = d],
         row'.status = row.status, row'.owner = row.owner, row'.claim = row.claim,
         life[p] = "dead" => life'[p] = "dead",
         \A q \in Procs \ {p} : life'[q] = life[q],
         d.at # "idle" => life'[p] \in {"up", "stopping"},
         d.at = "claimed" => d = drive[p],
         d.at \notin Before => drive[p].at \notin Before
  PROVE  IInv'
  <1>1. Truthful => \A q \in Procs :
          drive[q].at \notin Before => row'.status = "running" /\ row'.owner = q
    BY DEF IInv, FenceKept, Owns, Before
  <1>2. d.at = "claimed" => GoodSnapshot(d.seen) /\ Claimable(d.seen)
    BY DEF IInv, ClaimedClaimable, GoodSnapshot
  <1>3. row'.claim # None => granted' = row'.claim
    BY DEF IInv, ClaimBacked
  <1> QED
    BY <1>1, <1>2, <1>3, DriveMoves

(* interrupt and the closing of the coordinator's scope.                   *)
LEMMA InterruptSteps ==
  ASSUME IInv, NEW p \in Procs, StopDrive(p) \/ Shutdown(p) PROVE IInv'
  <1>1. /\ drive' = Interrupted(p) /\ life[p] = "up" /\ row \in Row
        /\ life' = life \/ life' = [life EXCEPT ![p] = "stopping"]
        /\ UNCHANGED <<setting, granted, deferred, clock, row>>
    BY DEF StopDrive, Shutdown, durable, IInv, TypeOK
  <1>2. /\ wake' \in [Procs -> BOOLEAN] /\ resume' \in [Procs -> BOOLEAN]
        /\ timer' \in [Procs -> BOOLEAN] /\ stop' \in [Procs -> {"none", "due", "over"}]
    BY DEF StopDrive, Shutdown, IInv, TypeOK
  <1>3. /\ life' \in [Procs -> {"new", "up", "stopping", "dead"}]
        /\ life'[p] \in {"up", "stopping"}
        /\ \A q \in Procs \ {p} : life'[q] = life[q]
    BY <1>1 DEF IInv, TypeOK
  <1>4. Tables'
    BY <1>1, <1>2, <1>3 DEF IInv, TypeOK, Tables
  <1>5. PICK d \in Drive :
            /\ drive' = [drive EXCEPT ![p] = d]
            /\ d.at # "idle" => drive[p].at # "idle"
            /\ d.at = "claimed" => d = drive[p]
            /\ d.at \notin Before => drive[p].at \notin Before
    BY <1>1, InterruptedIs
  <1> QED
    BY <1>1, <1>3, <1>4, <1>5, LifeMoves

(* A process starts, exits or is killed.                                   *)
LEMMA LifeSteps ==
  ASSUME IInv, NEW p \in Procs, Boot(p) \/ Exit(p) \/ Crash(p) PROVE IInv'
  <1>1. UNCHANGED <<setting, granted, deferred, clock, row>>
    BY DEF Boot, Exit, Crash, durable
  <1>2. /\ wake' \in [Procs -> BOOLEAN] /\ resume' \in [Procs -> BOOLEAN]
        /\ timer' \in [Procs -> BOOLEAN] /\ stop' \in [Procs -> {"none", "due", "over"}]
    BY DEF Boot, Exit, Crash, local, IInv, TypeOK
  <1>3. /\ life' \in [Procs -> {"new", "up", "stopping", "dead"}]
        /\ life[p] = "dead" => life'[p] = "dead"
        /\ \A q \in Procs \ {p} : life'[q] = life[q]
    BY DEF Boot, Exit, Crash, Alive, IInv, TypeOK
  <1>4. Tables'
    BY <1>1, <1>2, <1>3 DEF IInv, TypeOK, Tables
  <1>5. \E d \in Drive : drive' = [drive EXCEPT ![p] = d] /\ d.at = "idle"
    <2>1. drive \in [Procs -> Drive] /\ NoDrive \in Drive /\ NoDrive.at = "idle"
      BY DEF IInv, TypeOK, NoDrive, Drive, Phases
    <2>2. CASE Crash(p)
      BY <2>1, <2>2 DEF Crash
    <2>3. CASE Boot(p) \/ Exit(p)
      <3>1. drive[p].at = "idle"
        BY <2>3 DEF Boot, Exit, IInv, DriversLive, Alive
      <3>2. drive' = [drive EXCEPT ![p] = drive[p]]
        BY <2>1, <2>3 DEF Boot, Exit
      <3> QED
        BY <2>1, <3>1, <3>2
    <2> QED
      BY <2>2, <2>3
  <1> QED
    BY <1>1, <1>3, <1>4, <1>5, LifeMoves DEF Before

---------------------------------------------------------------------------
(* Every step of every process preserves the invariant.                    *)
LEMMA NextIInv == IInv /\ [Next]_vars => IInv'
  <1> SUFFICES ASSUME IInv, [Next]_vars PROVE IInv'
    OBVIOUS
  <1>1. CASE UNCHANGED vars
    <2>1. Tables'
      BY <1>1 DEF vars, IInv, TypeOK, Tables
    <2> QED
      BY <1>1, <2>1, StaysPut DEF vars
  <1>2. ASSUME NEW p \in Procs, DriveStep(p) PROVE IInv'
    BY <1>2, DriveBeginStep, ReadingSteps, ClaimOrStealStep, ActivateStep,
       ActivationLostStep, WaitingSteps, DeriveReasonStep, SettleRoundStep,
       CancelOwnedStep, ReleaseTransitionStep DEF DriveStep
  <1>3. ASSUME NEW p \in Procs, ~DriveStep(p),
               \/ ScheduleClock(p) \/ Heartbeat(p)
               \/ CompleteDeferred(p) \/ FireClock(p) \/ ScheduleResume(p)
               \/ CallerPolls(p) \/ Sweep(p) \/ Boot(p)
               \/ RequestCancel(p) \/ StopDrive(p) \/ Shutdown(p) \/ Exit(p) \/ Crash(p)
        PROVE  IInv'
    BY <1>3, ScheduleClockStep, PulseSteps, WakeSteps, RequestCancelStep, InterruptSteps, LifeSteps
  <1>4. CASE GoStale
    BY <1>4, PulseSteps
  <1> QED
    BY <1>1, <1>2, <1>3, <1>4 DEF Next

(* IInv holds in every state of every composition of the engine.           *)
THEOREM Invariance == Spec => []IInv
  BY InitIInv, NextIInv, PTL DEF Spec

(* With a probe that tells the truth, no two processes run the flow of a   *)
(* run at once, wherever they crash, are interrupted or are restarted.     *)
THEOREM FlowsExclude == Spec => []OneFlow
  <1>1. IInv => OneFlow
    BY DEF IInv, FenceKept, OneFlow, Owns
  <1> QED
    BY <1>1, Invariance, PTL

(* With such a probe a process that activated the run never meets a lost   *)
(* fence: the branches of settleRound, cancelOwned and releaseOwned that   *)
(* handle one run only when a living owner was declared dead.              *)
THEOREM FenceNeverLost == Spec => []FenceKept
  <1>1. IInv => FenceKept
    BY DEF IInv
  <1> QED
    BY <1>1, Invariance, PTL

(* Every activation is decided by the row: a claim the row still shows is  *)
(* one the lease strategy still holds.                                     *)
THEOREM ClaimsBacked == Spec => []ClaimBacked
  <1>1. IInv => ClaimBacked
    BY DEF IInv
  <1> QED
    BY <1>1, Invariance, PTL

(* No process reopens a settled run, whatever its probe answers: the       *)
(* snapshot of a claim is never one of a settled row.                      *)
THEOREM RunsSettleForGood == Spec => SettledForGood
  <1>1. IInv /\ [Next]_vars => [row.status \in Terminal => row'.status = row.status]_vars
    <2> SUFFICES ASSUME IInv, Next, row.status \in Terminal PROVE row'.status = row.status
      OBVIOUS
    <2>1. row \in Row /\ row.status # "running" /\ \A p \in Procs : ~Owns(p)
      BY DEF IInv, TypeOK, Owns, Terminal
    <2>2. ASSUME NEW p \in Procs PROVE ~Activate(p)
      <3> SUFFICES ASSUME Activate(p) PROVE FALSE
        OBVIOUS
      <3>1. Claimable(Snapshot(row))
        BY DEF Activate, IInv, ClaimedClaimable
      <3> QED
        BY <3>1 DEF Claimable, Snapshot, Terminal
    <2>3. ASSUME NEW p \in Procs, SettleRound(p) \/ CancelOwned(p) \/ ReleaseTransition(p)
          PROVE  row' = row
      BY <2>1, <2>3 DEF SettleRound, CancelOwned, ReleaseTransition
    <2>4. ASSUME NEW p \in Procs,
                 \/ ClaimOrSteal(p) \/ ActivationLost(p) \/ ClearWaiting(p) \/ Park(p)
                 \/ ReleasePark(p) \/ ClearMarker(p) \/ Heartbeat(p) \/ RequestCancel(p) \/ GoStale
          PROVE  row'.status = row.status
      BY <2>1, <2>4 DEF ClaimOrSteal, ActivationLost, ClearWaiting, Park, ReleasePark,
                        ClearMarker, Heartbeat, RequestCancel, GoStale, Row
    <2>5. ASSUME NEW p \in Procs,
                 \/ DriveBegin(p) \/ ClaimLost(p) \/ GuardedStart(p) \/ AwaitDeferred(p)
                 \/ CancelPolled(p) \/ HeartbeatLost(p) \/ DeriveReason(p)
                 \/ SettleInterrupted(p) \/ CheckMarker(p) \/ ScheduleClock(p)
                 \/ CompleteDeferred(p) \/ FireClock(p) \/ ScheduleResume(p)
                 \/ CallerPolls(p) \/ Sweep(p) \/ Boot(p) \/ StopDrive(p) \/ Shutdown(p) \/ Exit(p) \/ Crash(p)
          PROVE  row' = row
      BY <2>5 DEF DriveBegin, ClaimLost, GuardedStart, AwaitDeferred, CancelPolled,
                  HeartbeatLost, DeriveReason, SettleInterrupted, CheckMarker, ScheduleClock,
                  CompleteDeferred, FireClock, ScheduleResume, CallerPolls, Sweep, Boot,
                  StopDrive, Shutdown, Exit, Crash, durable
    <2>6. CASE GoStale
      BY <2>1, <2>6 DEF GoStale, Row
    <2> QED
      BY <2>2, <2>3, <2>4, <2>5, <2>6 DEF Next, DriveStep
  <1> QED
    BY <1>1, Invariance, PTL DEF Spec, SettledForGood
============================================================================
