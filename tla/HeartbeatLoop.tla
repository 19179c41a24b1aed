--------------------------- MODULE HeartbeatLoop ---------------------------
(***************************************************************************)
(* One owner's heartbeat loop racing a peer that waits to steal its run    *)
(* (Ownership.heartbeatLoop in packages/run-store/src/Ownership.ts, the    *)
(* constants in packages/journal/src/Consensus.ts).                        *)
(*                                                                         *)
(* time         the owner's clock; a peer's reads up to MaxOffset later    *)
(* phase        where the owner is: "starting" (the run is activated, the  *)
(*              loop and the flow have not begun), "sleeping" between two  *)
(*              pulses, "writing" a pulse, or "stopped"                    *)
(* nowMs        the reading the pulse in flight took before its write      *)
(* committed    the write in flight took effect                            *)
(* lastPulseMs  the loop's memory of its last acknowledged pulse           *)
(* wakeAt       when the current sleep ends                                *)
(* heartbeatAt  the heartbeat persisted on the row and the lease           *)
(* stolen       a peer has displaced the owner                             *)
(*                                                                         *)
(* The flow runs from the moment the loop starts until it is stopped.      *)
(* Time passes between any two steps, but a sleep ends on time, a pulse is *)
(* answered within WriteDelay (the busy timeout and the retries of         *)
(* WriteRetry.withWriteRetry are inside it), and the loop begins within    *)
(* StartDelay of the activation that stamped the row.                      *)
(***************************************************************************)
EXTENDS Integers

CONSTANTS Interval, StaleAfter, SkewAllowance,  \* Consensus.ts
          MaxOffset, WriteDelay, StartDelay,    \* the environment
          MaxTime                               \* bound of the model

ASSUME DurationAssumption ==
    /\ Interval \in Nat \ {0}
    /\ StaleAfter \in Nat /\ SkewAllowance \in Nat
    /\ SkewAllowance + Interval < StaleAfter
    /\ MaxOffset \in Nat /\ WriteDelay \in Nat /\ StartDelay \in Nat
    /\ MaxTime \in Nat

VARIABLES time, phase, nowMs, committed, lastPulseMs, wakeAt, heartbeatAt, stolen

loopVars == <<time, phase, nowMs, committed, lastPulseMs, wakeAt, heartbeatAt, stolen>>

(* heartbeatWriteTolerance                                                 *)
Tolerance == StaleAfter - SkewAllowance - Interval

LoopInit ==
    /\ time = 0 /\ phase = "starting"
    /\ nowMs = 0 /\ committed = FALSE
    /\ lastPulseMs = 0 /\ wakeAt = 0
    /\ heartbeatAt = 0 /\ stolen = FALSE

---------------------------------------------------------------------------
(* Time passes unless a step is due.                                       *)
Tick ==
    /\ time < MaxTime
    /\ phase = "starting" => time < heartbeatAt + StartDelay
    /\ phase = "sleeping" => time < wakeAt
    /\ phase = "writing" => time < nowMs + WriteDelay
    /\ time' = time + 1
    /\ UNCHANGED <<phase, nowMs, committed, lastPulseMs, wakeAt, heartbeatAt, stolen>>

Sleep ==
    /\ phase' = "sleeping"
    /\ wakeAt' = time + Interval

(* The loop takes its first reading, however old the row's stamp is.       *)
Begin ==
    /\ phase = "starting"
    /\ Sleep
    /\ lastPulseMs' = time
    /\ UNCHANGED <<time, nowMs, committed, heartbeatAt, stolen>>

Pulse ==
    /\ phase = "sleeping" /\ time = wakeAt
    /\ phase' = "writing"
    /\ nowMs' = time /\ committed' = FALSE
    /\ UNCHANGED <<time, lastPulseMs, wakeAt, heartbeatAt, stolen>>

(* The heartbeat transaction commits, if the fence still holds.            *)
Commit ==
    /\ phase = "writing" /\ ~committed /\ ~stolen
    /\ committed' = TRUE
    /\ heartbeatAt' = nowMs
    /\ UNCHANGED <<time, phase, nowMs, lastPulseMs, wakeAt, stolen>>

(* Mutant: the answer's time is taken for the stamp's.                     *)
UpdatedAtAnswer ==
    /\ phase = "writing" /\ committed
    /\ Sleep
    /\ lastPulseMs' = time
    /\ UNCHANGED <<time, nowMs, committed, heartbeatAt, stolen>>

Updated ==
    /\ phase = "writing" /\ committed
    /\ Sleep
    /\ lastPulseMs' = nowMs
    /\ UNCHANGED <<time, nowMs, committed, heartbeatAt, stolen>>

(* Any outcome but Updated is a lost fence and interrupts the flow.  A     *)
(* failed write is tolerated for a while, judged by the reading taken      *)
(* before the write; it may have committed all the same.                   *)
NotUpdated(fenceLost) ==
    /\ phase = "writing"
    /\ fenceLost => stolen /\ ~committed
    /\ IF fenceLost \/ nowMs - lastPulseMs >= Tolerance
       THEN phase' = "stopped" /\ UNCHANGED wakeAt
       ELSE Sleep
    /\ UNCHANGED <<time, nowMs, committed, lastPulseMs, heartbeatAt, stolen>>

(* The flow ends or is interrupted by someone else.                        *)
Finish ==
    /\ phase \in {"sleeping", "writing"}
    /\ phase' = "stopped"
    /\ UNCHANGED <<time, nowMs, committed, lastPulseMs, wakeAt, heartbeatAt, stolen>>

(* A peer displaces the owner: the stamp is stale by the peer's clock.     *)
Steal ==
    /\ ~stolen
    /\ \E offset \in 0..MaxOffset : heartbeatAt + StaleAfter < time + offset
    /\ stolen' = TRUE
    /\ UNCHANGED <<time, phase, nowMs, committed, lastPulseMs, wakeAt, heartbeatAt>>

LoopNext ==
    \/ Tick \/ Begin \/ Pulse \/ Commit \/ Updated \/ Finish \/ Steal
    \/ \E fenceLost \in BOOLEAN : NotUpdated(fenceLost)

LoopSpec == LoopInit /\ [][LoopNext]_loopVars

---------------------------------------------------------------------------
Phases == {"starting", "sleeping", "writing", "stopped"}

LoopTypeOK ==
    /\ time \in Nat /\ nowMs \in Nat /\ lastPulseMs \in Nat
    /\ wakeAt \in Nat /\ heartbeatAt \in Nat
    /\ phase \in Phases
    /\ committed \in BOOLEAN /\ stolen \in BOOLEAN

(* The skew allowance has room for the clock offset, two slow writes (the  *)
(* last one tolerated and the one that ends the loop) and a slow start.    *)
Budget == MaxOffset + 2 * WriteDelay + StartDelay <= SkewAllowance + 1

(* An owner whose pulses keep failing is interrupted before a peer may     *)
(* steal the run: its flow never runs side by side with the thief's.       *)
NoOverlap == stolen => phase = "stopped"

(* The inductive invariant: how late each phase can be, counted from the   *)
(* last acknowledged pulse, and how far that pulse can be ahead of the     *)
(* persisted stamp.                                                        *)
LastReading == Tolerance - 1 + WriteDelay + Interval

LoopIInv ==
    /\ LoopTypeOK
    /\ NoOverlap
    /\ lastPulseMs <= time
    /\ lastPulseMs <= heartbeatAt + StartDelay
    /\ phase = "starting" => time <= heartbeatAt + StartDelay
    /\ phase = "sleeping" => time <= wakeAt /\ wakeAt <= lastPulseMs + LastReading
    /\ phase = "writing" =>
          /\ lastPulseMs <= nowMs /\ nowMs <= lastPulseMs + LastReading
          /\ nowMs <= time /\ time <= nowMs + WriteDelay
          /\ committed => heartbeatAt = nowMs
===========================================================================
