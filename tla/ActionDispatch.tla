--------------------------- MODULE ActionDispatch ---------------------------
(***************************************************************************)
(* One action of one run, from the engine's retry loop (FlowEngine/make.ts *)
(* actionExecute) through ActionPersistence.ts to the attempt rows of      *)
(* AttemptStore.ts and the effect records of EffectRecords.ts.             *)
(*                                                                         *)
(* owner      the process the run row names                                *)
(* live       the processes that have not crashed                          *)
(* rows[a]    flows_attempts: state, outcome and the pre-image snapshot    *)
(* journal    the attemptFinished records                                  *)
(* effects    the effect boundary records, in journal order                *)
(* tree       the working copy: "clean", or "dirty" with partial writes    *)
(* expired    the retry budget has run out (its origin is durable)         *)
(* crossed[a] how often a body of attempt a began to act                   *)
(* given      what dispatches have returned to the flow of the owner       *)
(* f          the dispatching fibers: pc, attempt, the pre-image in hand,  *)
(*            the engine's own snapshot (actionState.snapshots), the exit  *)
(* faults     crashes, interruptions, steals and host failures so far      *)
(* setting    the member of Settings this behaviour is about               *)
(*                                                                         *)
(* A process is one incarnation: one that restarts is another process.     *)
(* Each durable transaction is one step.  Sealed actions that carry a      *)
(* boundary go through the cache first, which is StepCache's.              *)
(***************************************************************************)
EXTENDS Naturals, Sequences, FiniteSets

CONSTANTS
    Procs, Fibers, None,
    MaxAttempts,  \* the policy's maxAttempts
    Settings      \* what the action declares and what befalls its dispatches

ASSUME DispatchAssumption ==
    /\ MaxAttempts \in Nat \ {0} /\ None \notin Procs \cup {"clean", "dirty"}
    /\ \A s \in Settings :
        /\ s.home \in [Fibers -> Procs \cup {None}]
        /\ s.tier \in {"sealed", "compensable", "irreversible"}
        /\ {s.keyed, s.steals, s.hostFails, s.expires} \subseteq BOOLEAN
        /\ s.maxFaults \in Nat
        /\ s.results \cap {None, "failed", "fatal", "exhausted", "expired", "refused"} = {}

VARIABLES owner, live, rows, journal, effects, tree, expired, crossed, given, f, faults, setting

store == <<rows, journal, effects>>
world == <<tree, crossed>>
vars == <<owner, live, store, world, expired, given, f, faults, setting>>

Home == setting.home            \* the process of each fiber, None if it has none
Tier == setting.tier
Results == setting.results      \* what a body may return
Keyed == setting.keyed          \* the action declares an idempotency key
Steals == setting.steals        \* a live process may lose the run
HostFails == setting.hostFails  \* a jj call may fail
Expires == setting.expires      \* the policy has an expirationMs
MaxFaults == setting.maxFaults  \* crashes, interruptions, steals, host failures

Attempts == 1..MaxAttempts

(* How an attempt fails: with an error the policy retries, or with one it   *)
(* names non-retryable or a defect.  And what a dispatch fails with: that   *)
(* error, or the engine's verdict on the last attempt.                      *)
Failures == {"failed", "fatal"}
Verdicts == {"fatal", "exhausted", "expired", "refused"}

Row == [state : {"none", "running", "succeeded", "failed"},
        outcome : Results \cup Failures \cup {None},
        snap : {"clean", "dirty", None}]

NoRow == [state |-> "none", outcome |-> None, snap |-> None]

Idle == [pc |-> "idle", attempt |-> 1, adopted |-> FALSE, snap |-> None, memo |-> None, exit |-> None]

(* Tiers whose body is wrapped in effect boundary records.                 *)
Effectful == Tier \in {"compensable", "irreversible"}

(* withPermit: the span of a dispatch that holds the process's permit for  *)
(* the key, and the uninterruptible part of it.                            *)
Permitted == {"read", "admit", "preimage", "announce", "intend", "body", "crossed", "effect", "settle"}
Uninterruptible == {"intend", "effect"}

Init ==
    /\ setting \in Settings
    /\ live = {Home[x] : x \in Fibers} \ {None}
    /\ owner \in live
    /\ rows = [a \in Attempts |-> NoRow]
    /\ journal = {}
    /\ effects = <<>>
    /\ tree = "clean"
    /\ expired = FALSE
    /\ crossed = [a \in Attempts |-> 0]
    /\ given = {}
    /\ f = [x \in Fibers |-> Idle]
    /\ faults = 0

Owned(x) == owner = Home[x]

At(x, pc) == Home[x] \in live /\ f[x].pc = pc

Goto(x, pc) == f' = [f EXCEPT ![x].pc = pc]

(* Effect.interrupt: the dispatch ends without a result.                   *)
Parked(x) == f' = [f EXCEPT ![x] = Idle]

(* The dispatch returns to the flow; what the flow of a process that lost  *)
(* the run makes of it is never settled.                                   *)
Gives(x, exit) ==
    /\ f' = [f EXCEPT ![x].pc = "done", ![x].exit = exit]
    /\ given' = IF Owned(x) THEN given \cup {exit} ELSE given

---------------------------------------------------------------------------
(* The engine's loop.                                                      *)

(* probeAttempts: the last of the contiguous attempts, none pruned.        *)
Latest ==
    IF rows[1].state = "none" THEN 1
    ELSE CHOOSE a \in Attempts :
            /\ \A b \in 1..a : rows[b].state # "none"
            /\ a < MaxAttempts => rows[a + 1].state = "none"

(* An action that is attempted once.                                       *)
Unrepeatable == Tier = "irreversible" /\ ~Keyed

(* The loop head: an irreversible action is not retried without a key; a   *)
(* compensable one restores and retakes the engine's snapshot, which lives *)
(* in the memory of the instance.                                          *)
Attempt(x, a) ==
    IF a > 1 /\ Unrepeatable
      THEN /\ Gives(x, "refused")
           /\ UNCHANGED tree
      ELSE LET restored == IF a > 1 /\ f[x].memo # None THEN f[x].memo ELSE tree
           IN  /\ tree' = IF Tier = "compensable" THEN restored ELSE tree
               /\ f' = [f EXCEPT ![x].pc = "fence", ![x].attempt = a,
                                 ![x].memo = IF Tier = "compensable" THEN restored ELSE None]
               /\ UNCHANGED given

(* A drive of the run reaches the action.                                  *)
Enter(x) ==
    /\ At(x, "idle")
    /\ Owned(x)
    /\ Attempt(x, Latest)
    /\ UNCHANGED <<setting, owner, live, store, expired, crossed, faults>>

(* Why RetryPolicy.decide gives up: the error itself, asked first; the     *)
(* attempts, whatever the time; or the time.                               *)
Verdict(x) ==
    IF f[x].exit = "fatal" THEN "fatal"
    ELSE IF f[x].attempt = MaxAttempts THEN "exhausted" ELSE "expired"

(* RetryPolicy.decide on a failed attempt.                                 *)
Retry(x) ==
    /\ At(x, "retry")
    /\ IF f[x].exit # "fatal" /\ f[x].attempt < MaxAttempts /\ ~expired
         THEN Attempt(x, f[x].attempt + 1)
         ELSE Gives(x, Verdict(x)) /\ UNCHANGED tree
    /\ UNCHANGED <<setting, owner, live, store, expired, crossed, faults>>

(* The flow parks and its owner drives it again: every dispatch is         *)
(* replayed by a new instance.                                             *)
Redrive(x) ==
    /\ At(x, "done")
    /\ Owned(x)
    /\ Parked(x)
    /\ UNCHANGED <<setting, owner, live, store, world, expired, given, faults>>

Expire ==
    /\ Expires /\ ~expired
    /\ expired' = TRUE
    /\ UNCHANGED <<setting, owner, live, store, world, given, f, faults>>

---------------------------------------------------------------------------
(* AttemptStore: put inserts an absent row, finish moves a running one,    *)
(* patch keeps the state; each only while the run row names the process.   *)
CanPut(x) == Owned(x) /\ rows[f[x].attempt].state = "none"
CanFinish(x) == Owned(x) /\ rows[f[x].attempt].state = "running"
Patch(x) == rows' = [rows EXCEPT ![f[x].attempt].snap = f[x].snap]

---------------------------------------------------------------------------
(* ActionPersistence.                                                      *)

(* The heartbeat that fences the dispatch.                                 *)
Fence(x) ==
    /\ At(x, "fence")
    /\ IF Owned(x) THEN Goto(x, "permit") ELSE Parked(x)
    /\ UNCHANGED <<setting, owner, live, store, world, expired, given, faults>>

AcquireFree(x) ==
    /\ At(x, "permit")
    /\ Goto(x, "read")
    /\ UNCHANGED <<setting, owner, live, store, world, expired, given, faults>>

Acquire(x) ==
    /\ At(x, "permit")
    /\ \A y \in Fibers : Home[y] = Home[x] => f[y].pc \notin Permitted
    /\ Goto(x, "read")
    /\ UNCHANGED <<setting, owner, live, store, world, expired, given, faults>>

(* A terminal row is replayed, after a fenced emit of its record, with the *)
(* failure it carries; any other dispatch goes on to admission.            *)
Read(x) ==
    LET a == f[x].attempt
    IN  /\ At(x, "read")
        /\ \/ /\ rows[a].state \in {"none", "running"}
              /\ f' = [f EXCEPT ![x].pc = "admit", ![x].adopted = rows[a].state = "running",
                                ![x].snap = rows[a].snap]
              /\ UNCHANGED <<journal, given>>
           \/ /\ rows[a].state = "succeeded"
              /\ IF Owned(x)
                   THEN /\ journal' = journal \cup {a}
                        /\ Gives(x, rows[a].outcome)
                   ELSE Parked(x) /\ UNCHANGED <<journal, given>>
           \/ /\ rows[a].state = "failed"
              /\ IF Owned(x)
                   THEN /\ journal' = journal \cup {a}
                        /\ f' = [f EXCEPT ![x].pc = "retry", ![x].exit = rows[a].outcome]
                   ELSE Parked(x) /\ UNCHANGED journal
              /\ UNCHANGED given
        /\ UNCHANGED <<setting, owner, live, rows, effects, world, expired, faults>>

(* put of a new row, or the heartbeat and patch that re-home one a dead    *)
(* fiber left running; the announcement is in the same transaction.        *)
Admit(x) ==
    LET a == f[x].attempt
        next == IF Tier = "compensable" THEN "preimage" ELSE "announce"
    IN  /\ At(x, "admit")
        /\ CASE ~Owned(x) -> Parked(x) /\ UNCHANGED rows
             [] Owned(x) /\ f[x].adopted -> Goto(x, next) /\ UNCHANGED rows
             [] ~f[x].adopted /\ CanPut(x) ->
                    /\ rows' = [rows EXCEPT ![a].state = "running"]
                    /\ Goto(x, next)
             [] OTHER -> /\ f' = [f EXCEPT ![x].pc = "retry", ![x].exit = "rejected"]
                         /\ UNCHANGED rows
        /\ UNCHANGED <<setting, owner, live, journal, effects, world, expired, given, faults>>

PreImageOfAttempt(x) ==
    LET restored == IF f[x].adopted /\ f[x].snap # None THEN f[x].snap ELSE tree
    IN  /\ At(x, "preimage")
        /\ tree' = restored
        /\ f' = [f EXCEPT ![x].pc = "announce", ![x].snap = restored]
        /\ UNCHANGED <<setting, owner, live, store, crossed, expired, given, faults>>

(* Restore the attempt's own pre-image, or the previous attempt's and take *)
(* one: jj calls, outside any transaction.                                 *)
TakePreImage(x) ==
    LET a == f[x].attempt
        previous == IF a > 1 THEN rows[a - 1].snap ELSE None
        wanted == IF f[x].adopted /\ f[x].snap # None THEN f[x].snap ELSE previous
        restored == IF wanted = None THEN tree ELSE wanted
    IN  /\ At(x, "preimage")
        /\ tree' = restored
        /\ f' = [f EXCEPT ![x].pc = "announce", ![x].snap = restored]
        /\ UNCHANGED <<setting, owner, live, store, crossed, expired, given, faults>>

(* A jj call fails; its error is the dispatch's, and the row stays as it   *)
(* is.                                                                     *)
PreImageFails(x) ==
    /\ At(x, "preimage")
    /\ HostFails /\ faults < MaxFaults
    /\ faults' = faults + 1
    /\ f' = [f EXCEPT ![x].pc = "retry", ![x].snap = None, ![x].exit = "failed"]
    /\ UNCHANGED <<setting, owner, live, store, world, expired, given>>

(* The fenced snapshot record: with the pre-image patched into the row, or *)
(* carrying the lineage's last one.                                        *)
Announce(x) ==
    /\ At(x, "announce")
    /\ IF Owned(x)
         THEN /\ Goto(x, IF Effectful THEN "intend" ELSE "body")
              /\ Patch(x)
         ELSE Parked(x) /\ UNCHANGED rows
    /\ UNCHANGED <<setting, owner, live, journal, effects, world, expired, given, faults>>

(* emitDurable of a boundary record: the identity is the attempt and the   *)
(* status, an equal record is a duplicate and a different one a conflict.  *)
Recorded(a, status) ==
    {i \in 1..Len(effects) : effects[i].attempt = a /\ effects[i].status = status}

Conflicts(a, status, output) == \E i \in Recorded(a, status) : effects[i].output # output

Emit(a, status, output) ==
    effects' = IF Recorded(a, status) # {} THEN effects
               ELSE Append(effects, [attempt |-> a, status |-> status, output |-> output])

Intend(x) ==
    /\ At(x, "intend")
    /\ IF Owned(x)
         THEN Emit(f[x].attempt, "intended", None) /\ Goto(x, "body")
         ELSE Parked(x) /\ UNCHANGED effects
    /\ UNCHANGED <<setting, owner, live, rows, journal, world, expired, given, faults>>

(* The body acts on the outside world or on the working copy.              *)
Cross(x) ==
    /\ At(x, "body")
    /\ crossed' = [crossed EXCEPT ![f[x].attempt] = @ + 1]
    /\ tree' = IF Tier = "compensable" THEN "dirty" ELSE tree
    /\ Goto(x, "crossed")
    /\ UNCHANGED <<setting, owner, live, store, expired, given, faults>>

BodyEnds(x) ==
    /\ \/ At(x, "crossed") /\ \E v \in Results : f' = [f EXCEPT ![x].pc = "effect", ![x].exit = v]
       \/ /\ At(x, "body") \/ At(x, "crossed")
          /\ \E e \in Failures : f' = [f EXCEPT ![x].pc = "effect", ![x].exit = e]
    /\ UNCHANGED <<setting, owner, live, store, world, expired, given, faults>>

SettleEffectIgnored(x) ==
    LET a == f[x].attempt
        v == f[x].exit
    IN  /\ At(x, "effect")
        /\ IF Effectful /\ Owned(x)
             THEN Emit(a, IF v \in Failures THEN "unknown" ELSE "succeeded",
                          IF v \in Failures THEN None ELSE v)
             ELSE UNCHANGED effects
        /\ Goto(x, "settle")
        /\ UNCHANGED <<setting, owner, live, rows, journal, world, expired, given, faults>>

(* The terminal boundary record.  A conflicting success fails the attempt; *)
(* what happens to an unknown is ignored.                                  *)
SettleEffect(x) ==
    LET a == f[x].attempt
        v == f[x].exit
    IN  /\ At(x, "effect")
        /\ CASE ~Effectful -> Goto(x, "settle") /\ UNCHANGED effects
             [] Effectful /\ v \in Failures ->
                    /\ IF Owned(x) THEN Emit(a, "unknown", None) ELSE UNCHANGED effects
                    /\ Goto(x, "settle")
             [] Effectful /\ v \notin Failures /\ ~Owned(x) -> Parked(x) /\ UNCHANGED effects
             [] OTHER ->
                    /\ Emit(a, "succeeded", v)
                    /\ f' = [f EXCEPT ![x].pc = "settle",
                                      ![x].exit = IF Conflicts(a, "succeeded", v) THEN "failed" ELSE v]
        /\ UNCHANGED <<setting, owner, live, rows, journal, world, expired, given, faults>>

(* The terminal row: a failed one carries the failure.                     *)
Settled(x) ==
    [state |-> IF f[x].exit \in Failures THEN "failed" ELSE "succeeded",
     outcome |-> f[x].exit, snap |-> f[x].snap]

SettleUnfenced(x) ==
    LET a == f[x].attempt
        v == f[x].exit
    IN  /\ At(x, "settle")
        /\ journal' = journal \cup {a}
        /\ rows' = [rows EXCEPT ![a] = Settled(x)]
        /\ IF v \in Failures THEN Goto(x, "retry") /\ UNCHANGED given ELSE Gives(x, v)
        /\ UNCHANGED <<setting, owner, live, effects, world, expired, faults>>

(* settleAttempt: the fenced finish and the record of it.                  *)
Settle(x) ==
    LET a == f[x].attempt
        v == f[x].exit
    IN  /\ At(x, "settle")
        /\ IF CanFinish(x)
             THEN /\ journal' = journal \cup {a}
                  /\ rows' = [rows EXCEPT ![a] = Settled(x)]
                  /\ IF v \in Failures THEN Goto(x, "retry") /\ UNCHANGED given ELSE Gives(x, v)
             ELSE Parked(x) /\ UNCHANGED <<rows, journal, given>>
        /\ UNCHANGED <<setting, owner, live, effects, world, expired, faults>>

---------------------------------------------------------------------------
(* Faults.                                                                 *)

(* A fiber is interrupted; a body that had begun settles as unknown.       *)
Interrupt(x) ==
    /\ Home[x] \in live
    /\ f[x].pc \notin {"idle", "done"} \cup Uninterruptible
    /\ faults < MaxFaults
    /\ faults' = faults + 1
    /\ Parked(x)
    /\ IF Effectful /\ f[x].pc \in {"body", "crossed"} /\ Owned(x)
         THEN Emit(f[x].attempt, "unknown", None)
         ELSE UNCHANGED effects
    /\ UNCHANGED <<setting, owner, live, rows, journal, world, expired, given>>

Crash(p) ==
    /\ p \in live /\ live # {p}
    /\ faults < MaxFaults
    /\ faults' = faults + 1
    /\ live' = live \ {p}
    /\ f' = [x \in Fibers |-> IF Home[x] = p THEN Idle ELSE f[x]]
    /\ UNCHANGED <<setting, owner, store, world, expired, given>>

(* Another process takes the run of a dead owner, or of one it believes    *)
(* dead.  The coordinator starts no drive of a run beside an older one of  *)
(* the same process.                                                       *)
TakeOver(q) ==
    /\ q \in live /\ q # owner
    /\ \A x \in Fibers : Home[x] = q => f[x].pc \in {"idle", "done"}
    /\ IF owner \in live
         THEN Steals /\ faults < MaxFaults /\ faults' = faults + 1
         ELSE UNCHANGED faults
    /\ owner' = q
    /\ f' = [x \in Fibers |-> IF Home[x] = q THEN Idle ELSE f[x]]
    /\ UNCHANGED <<setting, live, store, world, expired, given>>

Step(x) ==
    \/ Enter(x) \/ Retry(x) \/ Fence(x) \/ Acquire(x) \/ Read(x) \/ Admit(x) \/ TakePreImage(x)
    \/ Announce(x) \/ Intend(x) \/ Cross(x) \/ BodyEnds(x) \/ SettleEffect(x) \/ Settle(x)

Next ==
    \/ \E x \in Fibers : Step(x) \/ Redrive(x) \/ PreImageFails(x) \/ Interrupt(x)
    \/ \E p \in Procs : Crash(p) \/ TakeOver(p)
    \/ Expire

Spec == Init /\ [][Next]_vars

---------------------------------------------------------------------------
Phases == {"idle", "fence", "permit", "read", "admit", "preimage", "announce", "intend",
           "body", "crossed", "effect", "settle", "retry", "done"}

Fiber == [pc : Phases, attempt : Attempts, adopted : BOOLEAN,
          snap : {"clean", "dirty", None}, memo : {"clean", "dirty", None},
          exit : Results \cup Failures \cup Verdicts \cup {"rejected", None}]

Effect == [attempt : Attempts, status : {"intended", "succeeded", "unknown"},
           output : Results \cup {None}]

TypeOK ==
    /\ owner \in Procs /\ live \subseteq Procs
    /\ rows \in [Attempts -> Row]
    /\ journal \subseteq Attempts
    /\ effects \in Seq(Effect)
    /\ tree \in {"clean", "dirty"}
    /\ expired \in BOOLEAN
    /\ crossed \in [Attempts -> Nat] /\ faults \in Nat
    /\ given \subseteq Results \cup Verdicts
    /\ f \in [Fibers -> Fiber]
    /\ setting \in Settings

(* Dispatches that share a retry budget may see it run out at different    *)
(* attempts, and one that is refused a second attempt may find on replay   *)
(* that the time has run out instead.                                      *)
Solo == \A x, y \in Fibers : (x # y /\ Home[x] = Home[y]) => Home[x] = None
OneBudget == ~Expires \/ (Solo /\ ~Unrepeatable)

(* Whatever is crashed, stolen, interrupted or dispatched twice, the flow  *)
(* is only ever given one outcome for the action, the same value, failure  *)
(* or verdict, and a value it was given is the durable outcome of an       *)
(* attempt: a replay cannot take another branch than the drive before it.  *)
(* A host that fails is an exception, as its error is returned and its     *)
(* attempt stays running, and so is a budget of which more than one        *)
(* verdict can be the first to fall (OneBudget).                           *)
OneOutcome ==
    (~HostFails /\ OneBudget) =>
        /\ Cardinality(given) <= 1
        /\ \A v \in given \cap Results :
              \E a \in Attempts : rows[a].state = "succeeded" /\ rows[a].outcome = v

(* The permit and the fence together: at most one fiber that can still     *)
(* settle is inside the body, whoever adopts an attempt left running.      *)
OneBody ==
    \A x, y \in Fibers :
        (x # y /\ Owned(x) /\ Owned(y)) => ~({f[x].pc, f[y].pc} \subseteq {"body", "crossed", "effect", "settle"})

(* A body whose success is a durable row has said so in the journal, with  *)
(* the outcome that the row carries, which a rewind goes by.               *)
SuccessRecorded ==
    Effectful => \A a \in Attempts : rows[a].state = "succeeded" =>
                    \E i \in Recorded(a, "succeeded") : effects[i].output = rows[a].outcome

(* Processes that follow one another, with one dispatch each and a host    *)
(* that does not fail, over a working copy.                                *)
Orderly == Tier = "compensable" /\ Solo /\ ~Steals /\ ~HostFails

(* The body of a compensable action begins on the tree the first attempt   *)
(* found, whoever died or failed in the middle of an earlier one.  The     *)
(* exceptions are in the premise: two bodies that are under way together   *)
(* share the working copy, and where the host fails, an attempt whose      *)
(* pre-image it refused has none on record and the attempt after it looks  *)
(* no further back.                                                        *)
CleanStart == Orderly => \A x \in Fibers : At(x, "body") => tree = "clean"

---------------------------------------------------------------------------
(* The strengthenings under which the properties above are inductive.      *)

(* Fibers of one process that hold the permit of the key.                  *)
PermitHeld ==
    \A x, y \in Fibers :
        (x # y /\ Home[x] = Home[y]) => ~({f[x].pc, f[y].pc} \subseteq Permitted)

(* From its admission to its settlement, the attempt of a fiber whose      *)
(* process still owns the run is a running row; until its admission it is  *)
(* as the fiber read it, so that the admission is never rejected.          *)
Working == {"preimage", "announce", "intend", "body", "crossed", "effect", "settle"}

RunningHeld ==
    \A x \in Fibers : Owned(x) =>
        /\ f[x].pc \in Working => rows[f[x].attempt].state = "running"
        /\ f[x].pc = "admit" =>
             rows[f[x].attempt].state = IF f[x].adopted THEN "running" ELSE "none"

(* A fiber whose process is dead, or has none, is nowhere.                 *)
DeadIdle == \A x \in Fibers : Home[x] \notin live => f[x].pc = "idle"

(* What a row, and a fiber about to write one, say of the outcome.         *)
OutcomeKnown ==
    /\ \A a \in Attempts : rows[a].state = "succeeded" => rows[a].outcome \in Results
    /\ \A x \in Fibers : f[x].pc \in {"effect", "settle"} => f[x].exit \in Results \cup Failures

(* A success that is about to be settled is in the journal.                *)
RecordedFirst ==
    Effectful => \A x \in Fibers : (f[x].pc = "settle" /\ f[x].exit \notin Failures) =>
        \E i \in Recorded(f[x].attempt, "succeeded") : effects[i].output = f[x].exit

(* A value that was given is durable.                                      *)
GivenDurable ==
    \A v \in given \cap Results :
        \E a \in Attempts : rows[a].state = "succeeded" /\ rows[a].outcome = v

(* Where no host call fails, an attempt is made only after all before it   *)
(* have failed durably, with errors that are retried, and the failure that *)
(* a dispatch decides on is that of its row.                               *)
Retryable(a) == rows[a].state = "failed" /\ rows[a].outcome # "fatal"

Chained ==
    ~HostFails =>
        /\ \A a, b \in Attempts : (a < b /\ rows[b].state # "none") => Retryable(a)
        /\ \A x \in Fibers, b \in Attempts : b < f[x].attempt => Retryable(b)
        /\ \A x \in Fibers : f[x].pc = "retry" =>
              rows[f[x].attempt].state = "failed" /\ rows[f[x].attempt].outcome = f[x].exit

(* An irreversible action without a key is attempted once.                 *)
AttemptedOnce ==
    Unrepeatable =>
        /\ \A x \in Fibers : f[x].attempt = 1
        /\ \A a \in Attempts : a > 1 => rows[a].state = "none"

(* The only dispatch of the owner is at the last attempt there is.         *)
AtLatest ==
    (Solo /\ ~HostFails) =>
        \A x \in Fibers, b \in Attempts :
            (Owned(x) /\ f[x].pc \notin {"idle", "done"} /\ b > f[x].attempt) => rows[b].state = "none"

(* A budget that has run out was declared.                                 *)
BudgetDeclared == expired => Expires

(* Attempt a was the last, and v is what is made of its failure.           *)
Final(a, v) ==
    /\ \A b \in Attempts : rows[b].state = IF b <= a THEN "failed" ELSE "none"
    /\ v = "fatal" <=> rows[a].outcome = "fatal"
    /\ v = "exhausted" <=> (rows[a].outcome # "fatal" /\ a = MaxAttempts)
    /\ v = "expired" => expired
    /\ v = "refused" => Unrepeatable

(* A failure that was given is final: nothing is running, and no dispatch  *)
(* of the owner is at an attempt that has not failed.                      *)
FailureFinal ==
    (~HostFails /\ OneBudget) =>
        \A v \in given \cap Verdicts :
            /\ \E a \in Attempts : Final(a, v)
            /\ \A x \in Fibers : (Owned(x) /\ f[x].pc \notin {"idle", "done"}) =>
                  rows[f[x].attempt].state = "failed"

(* Only the owner's dispatch is under way.                                 *)
OwnerOnly == Orderly => \A x \in Fibers : f[x].pc # "idle" => Owned(x)

(* Every pre-image is the tree the first attempt found, every failed       *)
(* attempt has one, and if the tree is not that tree the first attempt     *)
(* has one.                                                                *)
PreImagesClean ==
    Orderly =>
        /\ \A a \in Attempts : rows[a].snap \in {None, "clean"}
        /\ \A a \in Attempts : rows[a].state = "failed" => rows[a].snap = "clean"
        /\ \A a \in Attempts : rows[a].state = "none" => rows[a].snap = None
        /\ "dirty" \in {tree} \cup {f[x].memo : x \in Fibers} => rows[1].snap = "clean"
        /\ \A x \in Fibers :
            /\ f[x].pc \in {"admit", "preimage"} =>
                 IF f[x].adopted THEN f[x].snap = rows[f[x].attempt].snap
                                 ELSE rows[f[x].attempt].snap = None
            /\ f[x].pc \in Working \ {"preimage"} => f[x].snap = "clean"
            /\ f[x].pc \in Working \ {"preimage", "announce"} => rows[f[x].attempt].snap = "clean"
            /\ f[x].pc \in {"announce", "intend", "body"} => tree = "clean"

IInv ==
    /\ TypeOK /\ DeadIdle /\ PermitHeld /\ RunningHeld
    /\ OutcomeKnown /\ RecordedFirst /\ SuccessRecorded /\ GivenDurable
    /\ Chained /\ AttemptedOnce /\ AtLatest /\ BudgetDeclared /\ FailureFinal
    /\ OwnerOnly /\ PreImagesClean
============================================================================
