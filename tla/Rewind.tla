------------------------------- MODULE Rewind -------------------------------
(***************************************************************************)
(* Rewinding a run: the protocol of time-travel's Rewind.ts, the handlers  *)
(* and workspace moves of Compensation.ts, the startup recovery of         *)
(* Recovery.ts and the store operations of SqlTimeTravelStore.ts they use. *)
(*                                                                         *)
(* One run, one frame; what lies behind the frame is the suffix. A process *)
(* is one time-travel service: it recovers when it is built and rewinds    *)
(* afterwards. The engine is the other owner the run may have. What the    *)
(* run store makes of a claim, a steal and an activation is RunStore's     *)
(* matter: here a claim keeps everybody else out until it is activated,    *)
(* and one that nobody activates stays.                                    *)
(***************************************************************************)
EXTENDS Integers, Sequences, FiniteSetsExt

CONSTANTS
    Procs,
    Last,            \* bound on the entries behind the frame
    Initial,         \* how many of them are there at first
    Irreversible,    \* the entries of effects that a handler compensates
    Compensable,     \* the entries of effects in the workspace
    SpawnEntry,           \* the entry that spawned a detached child, 0 if none did
    MaxRewinds,
    Settings         \* how the services are composed, and what befalls them

Entries == 1..Last
Engine == "engine"
Dead == "dead"        \* the owner that a process which died was
Nobody == "nobody"

ASSUME RewindAssumption ==
    /\ Last \in Nat /\ Initial \in 0..Last /\ SpawnEntry \in 0..Last
    /\ Irreversible \subseteq Entries /\ Compensable \subseteq Entries
    /\ MaxRewinds \in Nat
    /\ Procs # {} /\ Procs \cap {Engine, Dead, Nobody} = {}
    /\ \A s \in Settings :
        /\ s.policy \in {"block", "cancel"} /\ {s.probe, s.lapsed, s.concurrent} \subseteq BOOLEAN
        /\ s.drives \subseteq Procs \cup {Dead, Nobody}
        /\ s.faults \subseteq {"revert", "rollback", "jj", "store", "interrupt"}
        /\ s.maxFaults \in Nat

VARIABLES
    run,        \* status, owner and claim of the row in flows_runs
    live,       \* the suffix: replay-owned entries of the journal behind the frame
    tail,       \* the last sequence the journal gave out
    archive,    \* flows_time_travel_archive
    effect,     \* how often the effect of an entry stands in the outside world
    workspace,  \* "head", or "frame" when it is that of the frame
    child,      \* status of the detached child
    audits,     \* flows_time_travel_audits
    at,         \* where each process is
    mine,       \* what its rewind, or its recovery of one audit, holds in memory
    list,       \* the pending audits it has read and not resolved yet
    faults,
    setting     \* the member of Settings this behaviour is about

outside == <<effect, workspace>>
journal == <<live, tail, archive>>
memory == <<at, mine, list>>
rewindVars == <<run, journal, outside, child, audits, memory, faults, setting>>

Policy == setting.policy            \* detachedChildPolicy
Probe == setting.probe              \* recovery is given livenessEvidence
Lapsed == setting.lapsed            \* a dead owner's heartbeat is stale when it is judged
Drives == setting.drives            \* the owners an engine takes the run from
Concurrent == setting.concurrent    \* services are built while another is up
CrashAt == setting.crashAt          \* the steps at which a process may die
MaxFaults == setting.maxFaults

NoComp == [done |-> {}, back |-> FALSE]

Detail(original) ==
    [phase |-> "audit_written", original |-> original, suffix |-> 0, comp |-> NoComp]

Nothing ==
    [audit |-> 0, det |-> Detail("suspended"), owned |-> FALSE,
     todo |-> {}, back |-> FALSE, bad |-> FALSE, then |-> "giveback", kid |-> "none"]

Phases == {"audit_written", "preflight_complete", "compensated", "archive_committed",
           "completed", "rolled_back", "terminal_failure"}
Comps == [done : SUBSET Entries, back : BOOLEAN]
Details == [phase : Phases, original : {"pending", "suspended"}, suffix : 0..Last, comp : Comps]
Children == {"none", "suspended", "running", "done", "cancelled"}
Audits == [status : {"in_progress", "completed", "failed"}, detail : Details]
Memories == [audit : Nat, det : Details, owned : BOOLEAN, todo : SUBSET Entries, back : BOOLEAN,
             bad : BOOLEAN, then : {"again", "giveback", "reinstate"}, kid : Children]

RunRows == [status : {"pending", "suspended", "running"}, owner : Procs \cup {Engine, Dead, Nobody},
            claim : Procs \cup {Dead, Nobody}]

Rewinding == {"audit", "preflight", "revert", "restore", "save", "archive",
              "commit", "children", "suspend", "complete", "giveback", "report"}
Recovering == {"recover", "reactivate", "judge", "resuspend", "finish", "reinstate", "record", "terminal"}

RewindTypeOK ==
    /\ run \in RunRows
    /\ live \subseteq Entries /\ archive \subseteq Entries /\ tail \in 0..Last
    /\ effect \in [Entries -> Int] /\ workspace \in {"head", "frame"} /\ child \in Children
    /\ audits \in Seq(Audits) /\ Len(audits) <= MaxRewinds
    /\ at \in [Procs -> {"down", "idle", "activate", "undo"} \cup Rewinding \cup Recovering]
    /\ mine \in [Procs -> Memories] /\ DOMAIN list = Procs
    /\ \A p \in Procs : /\ DOMAIN list[p] \subseteq 1..MaxRewinds
                       /\ \A a \in DOMAIN list[p] : list[p][a] \in Details
    /\ faults \in 0..MaxFaults /\ setting \in Settings

RewindInit ==
    /\ run \in [status : {"pending", "suspended"}, owner : {Nobody}, claim : {Nobody}]
    /\ live = 1..Initial /\ tail = Initial /\ archive = {}
    /\ effect = [e \in Entries |-> IF e \in Irreversible /\ e <= Initial THEN 1 ELSE 0]
    /\ workspace = IF (1..Initial) \cap Compensable = {} THEN "frame" ELSE "head"
    /\ child \in IF SpawnEntry = 0 THEN {"none"} ELSE {"suspended", "running", "done"}
    /\ audits = <<>>
    /\ at = [p \in Procs |-> "down"]
    /\ mine = [p \in Procs |-> Nothing] /\ list = [p \in Procs |-> <<>>]
    /\ faults = 0 /\ setting \in Settings

-----------------------------------------------------------------------------
(* Helpers *)

Goto(p, to) == at' = [at EXCEPT ![p] = to]
Hold(p, m) == mine' = [mine EXCEPT ![p] = m]

(* updateAudit: the patch replaces the detail, and the status if it has one. *)
Update(a, status, detail) == audits' = [audits EXCEPT ![a] = [status |-> status, detail |-> detail]]

SaveDetail(p, detail) ==
    /\ Update(mine[p].audit, audits[mine[p].audit].status, detail)
    /\ Hold(p, [mine[p] EXCEPT !.det = detail])

(* transitionOwned, which a process that lost the run is refused. *)
Owns(p) == run.owner = p
Release(status) == run' = [run EXCEPT !.status = status, !.owner = Nobody]

(* runs.activate: the claim becomes ownership. *)
Activated(p) == run' = [status |-> "running", owner |-> p, claim |-> Nobody]

(* The rollback of a compensation result begins, and where it leads. *)
Undo(p, m, comp, to) ==
    /\ Hold(p, [m EXCEPT !.todo = comp.done, !.back = comp.back, !.bad = FALSE, !.then = to])
    /\ Goto(p, "undo")

Fault(f) == f \in setting.faults /\ faults < MaxFaults /\ faults' = faults + 1

-----------------------------------------------------------------------------
(* Rewind.rewind *)

(* A mutant of Claimable: a run that is held is claimed as well. *)
ClaimableHeld == run.status \in {"pending", "suspended", "running"} /\ run.claim = Nobody

Claimable == run.status \in {"pending", "suspended"} /\ run.owner = Nobody /\ run.claim = Nobody

Claim(p) ==
    /\ at[p] = "idle" /\ Len(audits) < MaxRewinds
    /\ Claimable
    /\ run' = [run EXCEPT !.claim = p]
    /\ Hold(p, [Nothing EXCEPT !.det = Detail(run.status)])
    /\ Goto(p, "activate")
    /\ UNCHANGED <<journal, outside, child, audits, list, faults, setting>>

Activate(p) ==
    /\ at[p] = "activate" /\ run.claim = p
    /\ Activated(p)
    /\ Goto(p, "audit")
    /\ UNCHANGED <<journal, outside, child, audits, mine, list, faults, setting>>

WriteAudit(p) ==
    /\ at[p] = "audit" /\ Len(audits) < MaxRewinds
    /\ audits' = Append(audits, [status |-> "in_progress", detail |-> mine[p].det])
    /\ Hold(p, [mine[p] EXCEPT !.audit = Len(audits')])
    /\ Goto(p, "preflight")
    /\ UNCHANGED <<run, journal, outside, child, list, faults, setting>>

(* assessChildren: a detached child whose spawn the rewind crosses. *)
Crossed == IF SpawnEntry \in live THEN child ELSE "none"

(* The suffix is read and assessed before anything is compensated. *)
Preflight(p) ==
    /\ at[p] = "preflight"
    /\ IF Policy = "block" /\ Crossed \in {"suspended", "running"}
       THEN Undo(p, mine[p], NoComp, "giveback") /\ UNCHANGED audits
       ELSE LET det == [mine[p].det EXCEPT !.phase = "preflight_complete",
                                           !.suffix = IF live = {} THEN 0 ELSE Max(live)]
            IN  /\ Update(mine[p].audit, audits[mine[p].audit].status, det)
                /\ Hold(p, [mine[p] EXCEPT !.det = det, !.kid = Crossed,
                                           !.todo = live \cap Irreversible,
                                           !.back = live \cap Compensable # {}])
                /\ Goto(p, "revert")
    /\ UNCHANGED <<run, journal, outside, child, list, faults, setting>>

(* Compensation.compensate: the handlers in reverse journal order. The        *)
(* receipts are those of the entries done.                                    *)
Revert(p) ==
    /\ at[p] = "revert"
    /\ IF mine[p].todo = {}
       THEN Goto(p, "restore") /\ UNCHANGED <<mine, effect>>
       ELSE LET e == Max(mine[p].todo)
            IN  /\ effect' = [effect EXCEPT ![e] = @ - 1]
                /\ Hold(p, [mine[p] EXCEPT !.todo = @ \ {e}, !.det.comp.done = @ \cup {e}])
                /\ UNCHANGED at
    /\ UNCHANGED <<run, journal, workspace, child, audits, list, faults, setting>>

(* A handler fails: the receipts so far are rolled back inside compensate, and *)
(* the rewind, which has been given none, rolls nothing back.                  *)
RevertFails(p) ==
    /\ at[p] = "revert" /\ mine[p].todo # {}
    /\ Fault("revert")
    /\ Undo(p, [mine[p] EXCEPT !.det.comp = NoComp], mine[p].det.comp, "again")
    /\ UNCHANGED <<run, journal, outside, child, audits, list, setting>>

(* Compensation.restoreWorkspace *)
Restore(p) ==
    /\ at[p] = "restore"
    /\ IF mine[p].back
       THEN workspace' = "frame" /\ Hold(p, [mine[p] EXCEPT !.det.comp.back = TRUE])
       ELSE UNCHANGED <<workspace, mine>>
    /\ Goto(p, "save")
    /\ UNCHANGED <<run, journal, effect, child, audits, list, faults, setting>>

(* jj fails: the handlers are rolled back inside restoreWorkspace, and again   *)
(* by the rewind, which still holds their receipts.                            *)
RestoreFails(p) ==
    /\ at[p] = "restore" /\ mine[p].back
    /\ Fault("jj")
    /\ Undo(p, mine[p], mine[p].det.comp, "again")
    /\ UNCHANGED <<run, journal, outside, child, audits, list, setting>>

(* An interrupt that lands inside the uninterruptible region of compensate or *)
(* restoreWorkspace is raised where the region ends: its result is not kept.  *)
Interrupted(p) ==
    /\ \/ /\ at[p] = "revert" /\ mine[p].todo = {}
          /\ Undo(p, [mine[p] EXCEPT !.det.comp = NoComp], NoComp, "giveback")
          /\ UNCHANGED workspace
       \/ /\ at[p] = "restore" /\ mine[p].back
          /\ workspace' = "frame"
          /\ Undo(p, mine[p], mine[p].det.comp, "giveback")
    /\ Fault("interrupt")
    /\ UNCHANGED <<run, journal, effect, child, audits, list, setting>>

Save(p) ==
    /\ at[p] = "save"
    /\ SaveDetail(p, [mine[p].det EXCEPT !.phase = "compensated"])
    /\ Goto(p, "archive")
    /\ UNCHANGED <<run, journal, outside, child, list, faults, setting>>

(* archiveAndTruncate, one transaction: it cuts what is behind the frame now. *)
Archive(p) ==
    /\ at[p] = "archive"
    /\ archive' = archive \cup live /\ live' = {}
    /\ Goto(p, "commit")
    /\ UNCHANGED <<run, tail, outside, child, audits, mine, list, faults, setting>>

Commit(p) ==
    /\ at[p] = "commit"
    /\ SaveDetail(p, [mine[p].det EXCEPT !.phase = "archive_committed"])
    /\ Goto(p, "children")
    /\ UNCHANGED <<run, journal, outside, child, list, faults, setting>>

(* cancelChild, with the row that the preflight read: a running child needs   *)
(* evidence nobody supplies, and a child that moved on is not claimed. Behind *)
(* the commit a failure leaves everything as it is.                           *)
CancelChild(p) ==
    /\ at[p] = "children"
    /\ CASE mine[p].kid \in {"none", "done", "cancelled"} -> Goto(p, "suspend") /\ UNCHANGED child
         [] mine[p].kid = "suspended" /\ child = "suspended" -> Goto(p, "suspend") /\ child' = "cancelled"
         [] OTHER -> Goto(p, "idle") /\ UNCHANGED child
    /\ UNCHANGED <<run, journal, outside, audits, mine, list, faults, setting>>

Suspend(p) ==
    /\ at[p] = "suspend"
    /\ IF Owns(p) THEN Release("suspended") /\ Goto(p, "complete")
                  ELSE Goto(p, "idle") /\ UNCHANGED run
    /\ UNCHANGED <<journal, outside, child, audits, mine, list, faults, setting>>

Complete(p) ==
    /\ at[p] = "complete"
    /\ Update(mine[p].audit, "completed", [mine[p].det EXCEPT !.phase = "completed"])
    /\ Goto(p, "idle")
    /\ UNCHANGED <<run, journal, outside, child, mine, list, faults, setting>>

-----------------------------------------------------------------------------
(* Compensation.rollback: the workspace first, then the receipts in the       *)
(* reverse of the order in which the handlers ran.                            *)

NextUndo(p) == Min(mine[p].todo)

UndoStep(p) ==
    /\ at[p] = "undo"
    /\ \/ /\ mine[p].back
          /\ workspace' = "head" /\ Hold(p, [mine[p] EXCEPT !.back = FALSE])
          /\ UNCHANGED effect
       \/ /\ ~mine[p].back /\ mine[p].todo # {}
          /\ effect' = [effect EXCEPT ![NextUndo(p)] = @ + 1]
          /\ Hold(p, [mine[p] EXCEPT !.todo = @ \ {NextUndo(p)}])
          /\ UNCHANGED workspace
    /\ UNCHANGED <<run, journal, child, audits, at, list, faults, setting>>

UndoFails(p) ==
    /\ at[p] = "undo"
    /\ \/ /\ mine[p].back /\ Fault("jj")
          /\ Hold(p, [mine[p] EXCEPT !.back = FALSE, !.bad = TRUE])
       \/ /\ ~mine[p].back /\ mine[p].todo # {} /\ Fault("rollback")
          /\ Hold(p, [mine[p] EXCEPT !.todo = @ \ {NextUndo(p)}, !.bad = TRUE])
    /\ UNCHANGED <<run, journal, outside, child, audits, at, list, setting>>

(* The rollback is over. One inside Compensation is followed by the one of the *)
(* rewind, which alone decides the phase, and recovery stops at a failure.     *)
UndoEnds(p) ==
    /\ at[p] = "undo" /\ ~mine[p].back /\ mine[p].todo = {}
    /\ CASE mine[p].then = "again" -> Undo(p, mine[p], mine[p].det.comp, "giveback")
         [] mine[p].then = "reinstate" /\ mine[p].bad -> Goto(p, "terminal") /\ UNCHANGED mine
         [] OTHER -> Goto(p, mine[p].then) /\ UNCHANGED mine
    /\ UNCHANGED <<run, journal, outside, child, audits, list, faults, setting>>

(* The rewind restores the status it claimed, if it still may. *)
GiveBack(p) ==
    /\ at[p] = "giveback"
    /\ IF Owns(p) THEN Release(mine[p].det.original) ELSE UNCHANGED run
    /\ Goto(p, IF mine[p].audit = 0 THEN "idle" ELSE "report")
    /\ UNCHANGED <<journal, outside, child, audits, mine, list, faults, setting>>

RolledBackDetail(m) ==
    [m.det EXCEPT !.phase = IF m.bad THEN "terminal_failure" ELSE "rolled_back", !.comp = NoComp]

Report(p) ==
    /\ at[p] = "report"
    /\ Update(mine[p].audit, "failed", RolledBackDetail(mine[p]))
    /\ Goto(p, "idle")
    /\ UNCHANGED <<run, journal, outside, child, mine, list, faults, setting>>

-----------------------------------------------------------------------------
(* Recovery.recover, when the service is built *)

(* A mutant of Pending: audits past their first phase are left alone. *)
PendingEarly ==
    {a \in DOMAIN audits : audits[a].status = "in_progress" /\ audits[a].detail.phase = "audit_written"}

Pending == {a \in DOMAIN audits : audits[a].status = "in_progress"}

Boot(p) ==
    /\ at[p] = "down"
    /\ Concurrent \/ \A q \in Procs : at[q] = "down"
    /\ list' = [list EXCEPT ![p] = [a \in Pending |-> audits[a].detail]]
    /\ Goto(p, "recover")
    /\ UNCHANGED <<run, journal, outside, child, audits, mine, faults, setting>>

Recovered(p) ==
    /\ at[p] = "recover" /\ DOMAIN list[p] = {}
    /\ Goto(p, "idle")
    /\ UNCHANGED <<run, journal, outside, child, audits, mine, list, faults, setting>>

(* steal, with evidence, takes the run of an owner that is dead. *)
Stealable == run.status = "running" /\ Probe /\ run.owner = Dead

(* Why acquire gives up: a claim is pending; or the run is owned by somebody *)
(* else, and there is no evidence, the owner lives, or it has not been dead  *)
(* for long enough.                                                          *)
Busy(p) ==
    \/ run.claim # Nobody
    \/ run.status = "running" /\ run.owner # p /\ ~(Stealable /\ Lapsed)

Recovers(p, a) == [Nothing EXCEPT !.audit = a, !.det = list[p][a]]

(* acquire: a suspended run needs no fence, and a run that an earlier audit's *)
(* recovery failed to give back is this process's already.                    *)
Acquire(p) ==
    /\ at[p] = "recover" /\ DOMAIN list[p] # {}
    /\ LET m == Recovers(p, Min(DOMAIN list[p]))
       IN  \/ /\ run.status = "suspended" /\ run.claim = Nobody
              /\ Hold(p, m) /\ Goto(p, "judge") /\ UNCHANGED run
           \/ /\ Owns(p)
              /\ Hold(p, [m EXCEPT !.owned = TRUE]) /\ Goto(p, "judge") /\ UNCHANGED run
           \/ /\ run.claim = Nobody /\ (run.status = "pending" \/ Stealable)
              /\ run' = [run EXCEPT !.claim = p]
              /\ Hold(p, [m EXCEPT !.owned = TRUE]) /\ Goto(p, "reactivate")
           \/ /\ Busy(p)
              /\ Hold(p, m) /\ Goto(p, "terminal") /\ UNCHANGED run
    /\ UNCHANGED <<journal, outside, child, audits, list, faults, setting>>

Reactivate(p) ==
    /\ at[p] = "reactivate" /\ run.claim = p
    /\ Activated(p)
    /\ Goto(p, "judge")
    /\ UNCHANGED <<journal, outside, child, audits, mine, list, faults, setting>>

(* A mutant of Committed: the phase alone decides. *)
CommittedByPhase(det) == det.phase \in {"archive_committed", "completed"}

(* archiveCommitted: the phase says so, or the suffix has left the journal and *)
(* is in the archive.                                                          *)
Committed(det) ==
    \/ det.phase \in {"archive_committed", "completed"}
    \/ det.suffix > 0 /\ live = {} /\ det.suffix \in archive

Judge(p) ==
    /\ at[p] = "judge"
    /\ IF Committed(mine[p].det)
       THEN Goto(p, IF mine[p].owned THEN "resuspend" ELSE "finish") /\ UNCHANGED mine
       ELSE Undo(p, mine[p], mine[p].det.comp, "reinstate")
    /\ UNCHANGED <<run, journal, outside, child, audits, list, faults, setting>>

Resuspend(p) ==
    /\ at[p] = "resuspend"
    /\ IF Owns(p) THEN Release("suspended") /\ Goto(p, "finish")
                  ELSE Goto(p, "terminal") /\ UNCHANGED run
    /\ UNCHANGED <<journal, outside, child, audits, mine, list, faults, setting>>

Reinstate(p) ==
    /\ at[p] = "reinstate"
    /\ IF ~mine[p].owned \/ Owns(p)
       THEN /\ Goto(p, "record")
            /\ IF mine[p].owned THEN Release(mine[p].det.original) ELSE UNCHANGED run
       ELSE Goto(p, "terminal") /\ UNCHANGED run
    /\ UNCHANGED <<journal, outside, child, audits, mine, list, faults, setting>>

(* The next audit of the list. *)
Onward(p) ==
    /\ list' = [list EXCEPT ![p] = [a \in DOMAIN @ \ {mine[p].audit} |-> @[a]]]
    /\ Goto(p, "recover")

Resolve(p, status, detail) ==
    /\ Update(mine[p].audit, status, detail)
    /\ Onward(p)
    /\ UNCHANGED <<run, journal, outside, child, mine, faults, setting>>

Finish(p) ==
    at[p] = "finish" /\ Resolve(p, "completed", [mine[p].det EXCEPT !.phase = "completed"])

Record(p) ==
    at[p] = "record" /\ Resolve(p, "failed", RolledBackDetail(mine[p]))

TerminalFailure(p) ==
    at[p] = "terminal" /\ Resolve(p, "failed", [mine[p].det EXCEPT !.phase = "terminal_failure"])

-----------------------------------------------------------------------------
(* The environment *)

(* A read or a write of the database fails, or the fiber is interrupted. The  *)
(* failure path of a rewind goes on as if it had given the run back, and a     *)
(* claim that was not activated stays. Where the failure of an audit itself    *)
(* cannot be recorded, the audit stays open and the next one is taken up.      *)
StoreFails(p) ==
    /\ Fault("store")
    /\ \/ /\ at[p] \in {"audit", "preflight", "save", "archive"}
          /\ Undo(p, mine[p], mine[p].det.comp, "giveback") /\ UNCHANGED list
       \/ /\ at[p] \in {"activate", "commit", "children", "suspend", "complete", "report"}
          /\ Goto(p, "idle") /\ UNCHANGED <<mine, list>>
       \/ /\ at[p] = "giveback"
          /\ Goto(p, IF mine[p].audit = 0 THEN "idle" ELSE "report") /\ UNCHANGED <<mine, list>>
       \/ /\ at[p] = "recover" /\ DOMAIN list[p] # {}
          /\ Hold(p, Recovers(p, Min(DOMAIN list[p]))) /\ Goto(p, "terminal") /\ UNCHANGED list
       \/ /\ at[p] \in {"reactivate", "judge", "resuspend", "finish", "reinstate", "record"}
          /\ Goto(p, "terminal") /\ UNCHANGED <<mine, list>>
       \/ at[p] = "terminal" /\ Onward(p) /\ UNCHANGED mine
    /\ UNCHANGED <<run, journal, outside, child, audits, setting>>

(* What a process held when it ends belongs to a dead owner: the next service *)
(* mints an owner of its own.                                                 *)
Orphaned(p) ==
    run' = [run EXCEPT !.owner = IF @ = p THEN Dead ELSE @, !.claim = IF @ = p THEN Dead ELSE @]

Crash(p) ==
    /\ at[p] \in CrashAt
    /\ faults < MaxFaults /\ faults' = faults + 1
    /\ Goto(p, "down")
    /\ Orphaned(p)
    /\ Hold(p, Nothing) /\ list' = [list EXCEPT ![p] = <<>>]
    /\ UNCHANGED <<journal, outside, child, audits, setting>>

(* The service is closed, between rewinds. *)
Close(p) ==
    /\ at[p] = "idle"
    /\ Goto(p, "down")
    /\ Orphaned(p)
    /\ Hold(p, Nothing)
    /\ UNCHANGED <<journal, outside, child, audits, list, faults, setting>>

(* The engine drives the run: one that is free, one whose owner died and, as  *)
(* a rewind does not renew its heartbeat, one that a slow rewind still holds. *)
EngineTakes ==
    /\ run.owner \in Drives /\ run.claim = Nobody
    /\ run' = [run EXCEPT !.status = "running", !.owner = Engine]
    /\ UNCHANGED <<journal, outside, child, audits, memory, faults, setting>>

EngineActs ==
    /\ run.owner = Engine /\ tail < Last
    /\ tail' = tail + 1 /\ live' = live \cup {tail'}
    /\ effect' = [effect EXCEPT ![tail'] = IF tail' \in Irreversible THEN 1 ELSE 0]
    /\ workspace' = IF tail' \in Compensable THEN "head" ELSE workspace
    /\ UNCHANGED <<run, archive, child, audits, memory, faults, setting>>

EngineReleases ==
    /\ run.owner = Engine
    /\ Release("suspended")
    /\ UNCHANGED <<journal, outside, child, audits, memory, faults, setting>>

ChildMoves ==
    /\ \/ child = "suspended" /\ child' = "running"
       \/ child = "running" /\ child' \in {"suspended", "done"}
    /\ UNCHANGED <<run, journal, outside, audits, memory, faults, setting>>

RewindStep(p) ==
    \/ Activate(p) \/ WriteAudit(p) \/ Preflight(p) \/ Revert(p) \/ Restore(p) \/ Save(p) \/ Archive(p)
    \/ Commit(p) \/ CancelChild(p) \/ Suspend(p) \/ Complete(p)
    \/ UndoStep(p) \/ UndoEnds(p) \/ GiveBack(p) \/ Report(p)

RecoveryStep(p) ==
    \/ Recovered(p) \/ Acquire(p) \/ Reactivate(p) \/ Judge(p) \/ Resuspend(p) \/ Reinstate(p)
    \/ Finish(p) \/ Record(p) \/ TerminalFailure(p)

FaultStep(p) ==
    RevertFails(p) \/ RestoreFails(p) \/ Interrupted(p) \/ UndoFails(p) \/ StoreFails(p) \/ Crash(p)

RewindNext ==
    \/ \E p \in Procs : Boot(p) \/ Close(p) \/ Claim(p) \/ RewindStep(p) \/ RecoveryStep(p) \/ FaultStep(p)
    \/ EngineTakes \/ EngineActs \/ EngineReleases \/ ChildMoves

RewindSpec == RewindInit /\ [][RewindNext]_rewindVars

(* A service that is up goes on, one that died is built again, and the engine *)
(* gives the run back.                                                        *)
FairSpec ==
    /\ RewindSpec
    /\ \A p \in Procs : WF_rewindVars(Boot(p)) /\ WF_rewindVars(RewindStep(p) \/ RecoveryStep(p))
    /\ WF_rewindVars(EngineReleases)

-----------------------------------------------------------------------------
Quiet == \A p \in Procs : at[p] \in {"down", "idle"}

(* What the protocol is built for: one service at a time, one failure of a    *)
(* handler or of the database, or one death at a step where the audit says    *)
(* all that has been done; no engine takes the run from its owner.            *)
Tolerated ==
    /\ ~Concurrent /\ MaxFaults <= 1 /\ Drives \subseteq {Nobody}
    /\ setting.faults \subseteq {"revert", "store"}
    /\ CrashAt \subseteq {"activate", "audit", "preflight", "archive", "commit", "children", "suspend", "complete"}

(* When every rewind is over and none ended in a disclosed terminal failure,  *)
(* the journal and the world agree: the effects of the entries it holds stand *)
(* exactly once, those it archived do not, and the workspace is that of the   *)
(* last entry.                                                                *)
Consistent ==
    (Tolerated /\ Quiet /\ \A a \in DOMAIN audits : audits[a].detail.phase \in {"completed", "rolled_back"}) =>
        /\ \A e \in Irreversible : effect[e] = IF e \in live THEN 1 ELSE 0
        /\ workspace = IF live \cap Compensable = {} THEN "frame" ELSE "head"

(* No engine takes a run from a service that lives. *)
Undisplaced == Drives \cap Procs = {}

(* History is cut only by the process that owns the run, whichever rewinds    *)
(* and recoveries overlap and whatever fails in them, unless an engine takes  *)
(* the run from a rewind that is only slow.                                   *)
Fenced ==
    [][(Undisplaced /\ archive' # archive) => \E p \in Procs : at[p] = "archive" /\ Owns(p)]_rewindVars

(* Recovery can take a run from an owner that died. TimeTravel.layer, which   *)
(* hands recover no livenessEvidence, cannot.                                 *)
Recoverable == Probe /\ Lapsed

(* Every rewind is completed or rolled back, if need be by the recovery of a  *)
(* later service that can take the run from the dead one, as long as the run  *)
(* is the rewind's and no write is lost. A recovery that cannot, that of the  *)
(* shipped composition, closes every audit too, some as terminal failures.    *)
Resolved ==
    \A a \in 1..MaxRewinds :
        (a \in DOMAIN audits /\ Tolerated /\ Policy = "block" /\ Drives = {} /\ "store" \notin setting.faults) ~>
        (a \in DOMAIN audits /\ audits[a].detail.phase \in
            {"completed", "rolled_back"} \cup IF Recoverable THEN {} ELSE {"terminal_failure"})

-----------------------------------------------------------------------------
(* The inductive invariant of Consistent. Services follow one another, so it *)
(* speaks of the one process p that may be up.                               *)

Alone(p) == \A q \in Procs : at[q] # "down" => q = p

(* A rewind that has its run, and a recovery past its judgement. *)
Rewinds(p) == at[p] \in Rewinding \/ (at[p] = "undo" /\ mine[p].then # "reinstate")
Settling(p) ==
    \/ at[p] \in {"resuspend", "finish", "reinstate", "record", "terminal"}
    \/ at[p] = "undo" /\ mine[p].then = "reinstate"

(* A rewind owns its run until it is released, and so does a recovery that   *)
(* had to take it; before, a claim keeps everybody else out.                 *)
Holds(p) ==
    \/ Rewinds(p) /\ at[p] \notin {"complete", "report"}
    \/ mine[p].owned /\ (at[p] \in {"judge", "resuspend", "reinstate"} \/ (Settling(p) /\ at[p] = "undo"))
Ownership(p) ==
    /\ run.status = "running" <=> run.owner # Nobody
    /\ Holds(p) => run.owner = p
    /\ at[p] = "activate" => run.claim = p /\ run.owner = Nobody
    /\ at[p] = "reactivate" => run.claim = p /\ run.owner \in {Nobody, Dead} /\ mine[p].owned
    /\ at[p] = "resuspend" => mine[p].owned

(* What the audits say of the work in memory. *)
OpenPhases == {"audit_written", "preflight_complete", "compensated", "archive_committed"}
Books(p) ==
    /\ \A a \in Pending : audits[a].detail.phase \in OpenPhases
    /\ Rewinds(p) => mine[p].audit \in Pending \cup {0}
    /\ at[p] \in {"activate", "audit"} => mine[p].audit = 0
    /\ at[p] \in Rewinding \ {"audit", "giveback"} => mine[p].audit # 0
    /\ at[p] \in {"recover", "reactivate", "judge"} \/ Settling(p) =>
          DOMAIN list[p] \subseteq Pending /\ \A a \in DOMAIN list[p] : list[p][a] = audits[a].detail
    /\ at[p] \in {"reactivate", "judge"} \/ Settling(p) =>
          mine[p].audit \in Pending /\ mine[p].det = audits[mine[p].audit].detail
    /\ at[p] \in {"activate", "audit", "preflight"} => mine[p].det.comp = NoComp /\ mine[p].det.phase = "audit_written"
    /\ at[p] = "preflight" => audits[mine[p].audit].detail.comp = NoComp
    /\ at[p] \in {"archive", "commit"} =>
          audits[mine[p].audit].detail = mine[p].det /\ mine[p].det.phase = "compensated"
    /\ at[p] \in {"children", "suspend", "complete"} =>
          audits[mine[p].audit].detail.phase = "archive_committed"

(* Before the one fault, at most one audit is open, its run is not free, and *)
(* a rewind that gives up has nothing to undo.                               *)
Calm == faults < MaxFaults
Orderly(p) == Calm =>
    /\ \A a, b \in Pending : a = b
    /\ Rewinds(p) => Pending \subseteq {mine[p].audit}
    /\ Rewinds(p) /\ at[p] \in {"undo", "giveback", "report"} =>
          mine[p].audit = 0 \/ audits[mine[p].audit].detail.comp = NoComp
    /\ Pending # {} /\ ~Rewinds(p) =>
          run.owner \notin {Nobody, Engine} \/ at[p] \in {"finish", "record", "terminal"}

(* The world, but for the effects in S and, if B, the workspace, which have  *)
(* been compensated and are still in the journal.                            *)
Debt(S, B) ==
    /\ \A e \in Irreversible :
          effect[e] = (IF e \in live THEN 1 ELSE 0) - (IF e \in S THEN 1 ELSE 0)
    /\ workspace = IF live \cap Compensable = {} \/ B THEN "frame" ELSE "head"
    /\ B => live \cap Compensable # {}
Clean == Debt({}, FALSE)

(* An audit whose recovery changes nothing in the world, and one whose       *)
(* recovery finds the world as it was left.                                  *)
Plain(a) == audits[a].detail.comp = NoComp \/ audits[a].detail.phase = "archive_committed"
Settleable(det) ==
    \/ Clean /\ (det.comp = NoComp \/ Committed(det))
    \/ Debt(det.comp.done, det.comp.back) /\ ~Committed(det)

Rested(p) ==
    \/ Clean /\ \A a \in Pending : Plain(a)
    \/ \E a \in Pending :
          /\ Pending = {a} /\ audits[a].detail.phase = "compensated"
          /\ Settleable(audits[a].detail)
          /\ run.owner \notin {Nobody, Engine}
          /\ at[p] = "judge" => mine[p].owned

(* What the suffix of the detail says while the run is the rewind's. *)
Measured(det) == det.suffix \in live \/ (det.suffix = 0 /\ live = {})

Undisturbed == {"audit", "preflight", "children", "suspend", "complete", "giveback", "report",
                "resuspend", "finish", "reinstate", "record"}
Stage(p) ==
    LET m == mine[p]
        comp == m.det.comp
    IN
    /\ at[p] \in Undisturbed => Clean
    /\ at[p] \in {"revert", "restore"} =>
          /\ Debt(comp.done, FALSE) /\ ~comp.back /\ Measured(m.det)
          /\ comp.done \subseteq live \cap Irreversible /\ m.todo = (live \cap Irreversible) \ comp.done
          /\ m.back = (live \cap Compensable # {})
    /\ at[p] = "restore" => m.todo = {}
    /\ at[p] \in {"save", "archive"} =>
          /\ Debt(comp.done, comp.back) /\ Measured(m.det)
          /\ comp.done = live \cap Irreversible /\ comp.back = (live \cap Compensable # {})
    /\ at[p] = "commit" => Clean /\ live = {} /\ (comp = NoComp \/ m.det.suffix \in archive)
    /\ at[p] = "undo" =>
          /\ Debt(m.todo, m.back) /\ ~m.bad
          /\ m.then = "again" => comp = NoComp
          /\ m.then = "reinstate" => m.owned \/ (m.todo = {} /\ ~m.back)

Disclosed == \E a \in DOMAIN audits : audits[a].detail.phase = "terminal_failure"
World(p) == ~Disclosed =>
    /\ at[p] \in {"down", "idle", "activate", "recover", "reactivate", "judge"} => Rested(p)
    /\ at[p] = "terminal" /\ Calm => Rested(p)
    /\ Stage(p)
    /\ Rewinds(p) \/ Settling(p) => \A b \in Pending \ {mine[p].audit} : Plain(b)

Sound(p) == Alone(p) /\ Ownership(p) /\ Books(p) /\ Orderly(p) /\ World(p)

RewindIInv == RewindTypeOK /\ (Tolerated => \E p \in Procs : Sound(p))
=============================================================================
