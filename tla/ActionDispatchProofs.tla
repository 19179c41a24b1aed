------------------------ MODULE ActionDispatchProofs ------------------------
(***************************************************************************)
(* Proofs, for every set of processes and fibers, every policy and every   *)
(* setting of the action, of the safety properties of ActionDispatch.      *)
(***************************************************************************)
EXTENDS ActionDispatch, FiniteSetTheorems, TLAPS

(* A nonempty set of naturals has a least element.                         *)
LEMMA LeastElement ==
  ASSUME NEW T, T \subseteq Nat, T # {}
  PROVE  \E m \in T : \A n \in T : m <= n
  <1>1. PICK m \in T : \A n \in T : ~(<<n, m>> \in OpToRel(<, Nat))
    BY WFMin, NatLessThanWellFounded, Zenon
  <1>2. \A n \in T : n \in Nat /\ m \in Nat /\ ~(n < m)
    BY <1>1 DEF OpToRel
  <1> QED
    BY <1>2

(* probeAttempts ends at the last of the attempts made without a gap.      *)
LEMMA LatestEnds ==
  ASSUME TypeOK
  PROVE  /\ Latest \in Attempts
         /\ rows[1].state = "none" => Latest = 1
         /\ rows[1].state # "none" =>
              /\ \A b \in 1..Latest : rows[b].state # "none"
              /\ Latest < MaxAttempts => rows[Latest + 1].state = "none"
  <1> DEFINE T == {a \in Attempts : a < MaxAttempts => rows[a + 1].state = "none"}
             Last(a) == /\ \A b \in 1..a : rows[b].state # "none"
                        /\ a < MaxAttempts => rows[a + 1].state = "none"
  <1>1. MaxAttempts \in Nat /\ MaxAttempts >= 1
    BY DispatchAssumption
  <1>2. MaxAttempts \in T /\ T \subseteq Nat
    BY <1>1 DEF Attempts
  <1>3. PICK m \in T : \A n \in T : m <= n
    <2> HIDE DEF T
    <2> QED BY <1>2, LeastElement
  <1>4. CASE rows[1].state = "none"
    BY <1>1, <1>4 DEF Latest, Attempts
  <1>5. CASE rows[1].state # "none"
    <2>1. \A b \in 1..m : rows[b].state # "none"
      <3> SUFFICES ASSUME NEW b \in 1..m, b # 1 PROVE rows[b].state # "none"
        BY <1>5
      <3>1. b - 1 \in Attempts /\ b - 1 \notin T
        BY <1>1, <1>3 DEF Attempts
      <3> QED
        BY <1>1, <3>1 DEF Attempts
    <2>2. m \in Attempts /\ Last(m)
      BY <1>3, <2>1
    <2>3. Latest = CHOOSE a \in Attempts : Last(a)
      BY <1>5 DEF Latest
    <2>4. Latest \in Attempts /\ Last(Latest)
      <3> HIDE DEF Last
      <3> QED BY <2>2, <2>3, Zenon
    <2> QED
      BY <1>5, <2>4
  <1> QED
    BY <1>4, <1>5

(* The setting of a behaviour never changes.                               *)
LEMMA SettingKept ==
  ASSUME setting' = setting
  PROVE  /\ Home' = Home /\ Tier' = Tier /\ Results' = Results /\ Keyed' = Keyed
         /\ Steals' = Steals /\ HostFails' = HostFails /\ Expires' = Expires
         /\ Row' = Row /\ Fiber' = Fiber /\ Effect' = Effect /\ Effectful' = Effectful
         /\ Solo' = Solo /\ OneBudget' = OneBudget /\ Orderly' = Orderly
         /\ Unrepeatable' = Unrepeatable
  BY DEF Home, Tier, Results, Keyed, Steals, HostFails, Expires, Row, Fiber, Effect,
         Effectful, Solo, OneBudget, Orderly, Attempts, Unrepeatable

(* What TypeOK says of the setting.                                        *)
LEMMA SettingTypes ==
  ASSUME setting \in Settings
  PROVE  /\ Home \in [Fibers -> Procs \cup {None}] /\ None \notin Procs
         /\ None \notin Results /\ Results \cap (Failures \cup Verdicts) = {}
  BY DispatchAssumption DEF Home, Results, Failures, Verdicts

(* Some dispatch of the owner has failed.                                  *)
GaveUp == given \cap Verdicts # {}

(* A failure that is final remains so.                                     *)
LEMMA FinalKept ==
  ASSUME setting' = setting, rows' = rows, expired => expired', NEW a, NEW v, Final(a, v)
  PROVE  Final(a, v)'
  BY SettingKept DEF Final

(* Initially nothing is attempted and every fiber is idle.                 *)
LEMMA InitIInv == Init => IInv
  <1> SUFFICES ASSUME Init PROVE IInv
    OBVIOUS
  <1>1. /\ Idle \in Fiber /\ Idle.pc = "idle" /\ Idle.attempt = 1 /\ Idle.memo = None
        /\ NoRow \in Row /\ NoRow.state = "none" /\ NoRow.snap = None
    BY DispatchAssumption DEF Idle, Fiber, Phases, Attempts, NoRow, Row
  <1>2. /\ \A x \in Fibers : f[x].pc = "idle" /\ f[x].attempt = 1 /\ f[x].memo = None
        /\ \A a \in Attempts : rows[a].state = "none" /\ rows[a].snap = None
    BY <1>1 DEF Init
  <1>3. TypeOK
    <2>1. live \subseteq Procs /\ owner \in Procs
      BY SettingTypes DEF Init
    <2>2. effects \in Seq(Effect) /\ crossed \in [Attempts -> Nat] /\ given = {} /\ journal = {}
      BY DEF Init
    <2> QED
      BY <1>1, <2>1, <2>2 DEF Init, TypeOK
  <1>4. Chained /\ AttemptedOnce /\ AtLatest
    BY <1>2 DEF Chained, AttemptedOnce, AtLatest, Attempts
  <1>5. PreImagesClean /\ OwnerOnly
    BY <1>2, DispatchAssumption DEF PreImagesClean, OwnerOnly, Init, Working
  <1>6. DeadIdle /\ PermitHeld /\ RunningHeld /\ OutcomeKnown /\ RecordedFirst /\ SuccessRecorded
    BY <1>2 DEF DeadIdle, PermitHeld, RunningHeld, OutcomeKnown, RecordedFirst, SuccessRecorded,
                Permitted, Working
  <1>7. GivenDurable /\ BudgetDeclared /\ FailureFinal
    BY DEF Init, GivenDurable, BudgetDeclared, FailureFinal
  <1> QED
    BY <1>3, <1>4, <1>5, <1>6, <1>7 DEF IInv

---------------------------------------------------------------------------
(* A step of fiber x leaves the other fibers, the owner and the setting.   *)
Alone(x) ==
    /\ Home[x] \in live
    /\ \A y \in Fibers \ {x} : f'[y] = f[y]
    /\ setting' = setting /\ owner' = owner /\ live' = live

(* Only the fiber that moved can lose the permit's exclusion.              *)
LEMMA PermitKept ==
  ASSUME IInv, NEW x \in Fibers, Alone(x),
         f'[x].pc \in Permitted =>
            \/ f[x].pc \in Permitted
            \/ \A y \in Fibers \ {x} : Home[y] = Home[x] => f[y].pc \notin Permitted
  PROVE  DeadIdle' /\ PermitHeld'
  BY SettingKept DEF IInv, DeadIdle, PermitHeld, Alone

(* The parts of the invariant that speak of one fiber.                     *)
FiberInv(x) ==
    /\ f[x] \in Fiber
    /\ Owned(x) =>
        /\ f[x].pc \in Working => rows[f[x].attempt].state = "running"
        /\ f[x].pc = "admit" =>
             rows[f[x].attempt].state = IF f[x].adopted THEN "running" ELSE "none"
    /\ f[x].pc \in {"effect", "settle"} => f[x].exit \in Results \cup Failures
    /\ (Effectful /\ f[x].pc = "settle" /\ f[x].exit \notin Failures) =>
         \E i \in Recorded(f[x].attempt, "succeeded") : effects[i].output = f[x].exit
    /\ ~HostFails =>
        /\ \A b \in Attempts : b < f[x].attempt => Retryable(b)
        /\ f[x].pc = "retry" =>
             rows[f[x].attempt].state = "failed" /\ rows[f[x].attempt].outcome = f[x].exit
    /\ Unrepeatable => f[x].attempt = 1
    /\ (Solo /\ ~HostFails /\ Owned(x) /\ f[x].pc \notin {"idle", "done"}) =>
         \A b \in Attempts : b > f[x].attempt => rows[b].state = "none"
    /\ (~HostFails /\ OneBudget /\ GaveUp /\ Owned(x) /\ f[x].pc \notin {"idle", "done"}) =>
         rows[f[x].attempt].state = "failed"
    /\ Orderly =>
        /\ f[x].pc # "idle" => Owned(x)
        /\ f[x].memo = "dirty" => rows[1].snap = "clean"
        /\ f[x].pc \in {"admit", "preimage"} =>
             IF f[x].adopted THEN f[x].snap = rows[f[x].attempt].snap
                             ELSE rows[f[x].attempt].snap = None
        /\ f[x].pc \in Working \ {"preimage"} => f[x].snap = "clean"
        /\ f[x].pc \in Working \ {"preimage", "announce"} => rows[f[x].attempt].snap = "clean"
        /\ f[x].pc \in {"announce", "intend", "body"} => tree = "clean"

(* The parts that speak of the attempt rows, the journal and the world.    *)
StoreInv ==
    /\ owner \in Procs /\ live \subseteq Procs
    /\ rows \in [Attempts -> Row]
    /\ journal \subseteq Attempts
    /\ effects \in Seq(Effect)
    /\ tree \in {"clean", "dirty"}
    /\ expired \in BOOLEAN
    /\ crossed \in [Attempts -> Nat] /\ faults \in Nat
    /\ given \subseteq Results \cup Verdicts
    /\ setting \in Settings
    /\ \A a \in Attempts : rows[a].state = "succeeded" => rows[a].outcome \in Results
    /\ SuccessRecorded /\ GivenDurable /\ BudgetDeclared
    /\ ~HostFails => \A a, b \in Attempts :
          (a < b /\ rows[b].state # "none") => Retryable(a)
    /\ Unrepeatable => \A a \in Attempts : a > 1 => rows[a].state = "none"
    /\ (~HostFails /\ OneBudget) => \A v \in given \cap Verdicts : \E a \in Attempts : Final(a, v)
    /\ Orderly =>
        /\ \A a \in Attempts : rows[a].snap \in {None, "clean"}
        /\ \A a \in Attempts : rows[a].state = "failed" => rows[a].snap = "clean"
        /\ \A a \in Attempts : rows[a].state = "none" => rows[a].snap = None
        /\ tree = "dirty" => rows[1].snap = "clean"

(* The invariant, part by part.                                            *)
LEMMA Parts ==
  IInv <=> f \in [Fibers -> Fiber] /\ DeadIdle /\ PermitHeld /\ StoreInv /\ \A x \in Fibers : FiberInv(x)
  <1>1. IInv => StoreInv
    BY DEF IInv, TypeOK, StoreInv, OutcomeKnown, Chained, AttemptedOnce, FailureFinal, PreImagesClean
  <1>2. ASSUME IInv, NEW x \in Fibers PROVE FiberInv(x)
    BY <1>2 DEF IInv, TypeOK, FiberInv, RunningHeld, OutcomeKnown, RecordedFirst, Chained, AttemptedOnce,
              AtLatest, FailureFinal, OwnerOnly, PreImagesClean, GaveUp, Retryable
  <1>3. ASSUME f \in [Fibers -> Fiber], DeadIdle, PermitHeld, StoreInv, \A x \in Fibers : FiberInv(x)
        PROVE  IInv
    <2>1. TypeOK
      BY <1>3 DEF StoreInv, TypeOK
    <2>2. RunningHeld /\ OutcomeKnown /\ RecordedFirst
      BY <1>3 DEF FiberInv, RunningHeld, StoreInv, OutcomeKnown, RecordedFirst
    <2>3. Chained /\ AttemptedOnce
      BY <1>3 DEF FiberInv, StoreInv, Chained, AttemptedOnce
    <2>4. AtLatest /\ FailureFinal
      BY <1>3 DEF FiberInv, StoreInv, AtLatest, FailureFinal, GaveUp, Retryable
    <2>5. OwnerOnly
      BY <1>3 DEF FiberInv, OwnerOnly
    <2>6. PreImagesClean
      BY <1>3 DEF FiberInv, StoreInv, PreImagesClean
    <2> QED
      BY <1>3, <2>1, <2>2, <2>3, <2>4, <2>5, <2>6 DEF IInv, StoreInv
  <1>4. IInv => f \in [Fibers -> Fiber] /\ DeadIdle /\ PermitHeld
    BY DEF IInv, TypeOK
  <1> QED
    BY <1>1, <1>2, <1>3, <1>4

(* The same of the next state.                                             *)
LEMMA PartsNext ==
  (f \in [Fibers -> Fiber] /\ DeadIdle /\ PermitHeld /\ StoreInv /\ \A x \in Fibers : FiberInv(x))' => IInv'
  BY Parts, PTL

(* The success of attempt a is in the journal, with output v.              *)
Told(a, v) == \E i \in Recorded(a, "succeeded") : effects[i].output = v

(* The journal forgets no success.                                         *)
Grows == \A a \in Attempts, v \in Results : Told(a, v) => Told(a, v)'

(* emitDurable appends at most one record; without a conflict the success  *)
(* it was asked for is in the journal.                                     *)
LEMMA Emits ==
  ASSUME effects \in Seq(Effect), NEW a \in Attempts, NEW output \in Results \cup {None},
         NEW status \in {"intended", "succeeded", "unknown"}, setting' = setting,
         Emit(a, status, output)
  PROVE  /\ effects' \in Seq(Effect) /\ Grows
         /\ (status = "succeeded" /\ ~Conflicts(a, "succeeded", output)) => Told(a, output)'
  <1> DEFINE e == [attempt |-> a, status |-> status, output |-> output]
  <1>1. e \in Effect /\ e.attempt = a /\ e.status = status /\ e.output = output
    BY DEF Effect
  <1>2. CASE Recorded(a, status) # {}
    BY <1>2 DEF Emit, Grows, Told, Conflicts, Recorded
  <1>3. CASE Recorded(a, status) = {}
    <2> HIDE DEF e
    <2>1. effects' = Append(effects, e)
      BY <1>3 DEF Emit, e
    <2>2. /\ effects' \in Seq(Effect) /\ Len(effects') = Len(effects) + 1 /\ Len(effects) \in Nat
          /\ \A i \in 1..Len(effects) : effects'[i] = effects[i]
          /\ effects'[Len(effects) + 1] = e
      BY <1>1, <2>1
    <2>3. Grows
      BY <2>2 DEF Grows, Told, Recorded
    <2>4. status = "succeeded" => Told(a, output)'
      BY <1>1, <2>2 DEF Told, Recorded
    <2> QED
      BY <2>2, <2>3, <2>4
  <1> QED
    BY <1>2, <1>3

(* What a step that gives anything must satisfy.                           *)
GivesWell ==
    /\ given' \subseteq Results \cup Verdicts
    /\ \A v \in given' : v \in Verdicts \/ v \in given
          \/ \E a \in Attempts : rows'[a].state = "succeeded" /\ rows'[a].outcome = v
    /\ (~HostFails /\ OneBudget) =>
          \A v \in given' \cap Verdicts : v \in given \/ \E a \in Attempts : Final(a, v)

(* A step that leaves the attempt rows.                                    *)
LEMMA StoreKept ==
  ASSUME StoreInv, setting' = setting, owner' \in Procs, live' \subseteq Procs,
         rows' = rows, expired' = expired,
         journal' \subseteq Attempts, effects' \in Seq(Effect), Grows,
         crossed' \in [Attempts -> Nat], faults' \in Nat, GivesWell,
         tree' \in {"clean", "dirty"},
         Orderly /\ tree' = "dirty" => rows[1].snap = "clean"
  PROVE  StoreInv'
  <1>1. SuccessRecorded'
    <2> SUFFICES ASSUME Effectful, NEW a \in Attempts, rows[a].state = "succeeded"
                 PROVE  Told(a, rows[a].outcome)'
      BY SettingKept DEF SuccessRecorded, Told
    <2>1. Told(a, rows[a].outcome) /\ rows[a].outcome \in Results
      BY DEF StoreInv, SuccessRecorded, Told
    <2> QED
      BY <2>1 DEF Grows
  <1>2. GivenDurable' /\ BudgetDeclared'
    <2>1. GivenDurable'
      BY SettingTypes, SettingKept, SMTT(30) DEF StoreInv, GivenDurable, GivesWell
    <2>2. BudgetDeclared /\ Expires' = Expires
      BY SettingKept DEF StoreInv
    <2> QED
      BY <2>1, <2>2, Zenon DEF BudgetDeclared
  <1>3. (~HostFails /\ OneBudget) => \A v \in given' \cap Verdicts : \E a \in Attempts : Final(a, v)'
    BY FinalKept DEF StoreInv, GivesWell
  <1> QED
    BY <1>1, <1>2, <1>3, SettingKept DEF StoreInv, GivesWell, Retryable

(* What a step of fiber x may do to the attempt rows: put the one it was   *)
(* admitted to, patch it, and finish it.                                   *)
RowsMove(x) ==
    /\ \A a \in Attempts \ {f[x].attempt} : rows'[a] = rows[a]
    /\ Orderly /\ rows[1].snap = "clean" => rows'[1].snap = "clean"
    /\ rows[f[x].attempt].state = "failed" => rows'[f[x].attempt] = rows[f[x].attempt]
    /\ LET before == rows[f[x].attempt].state
           after == rows'[f[x].attempt].state
       IN  \/ after = before
           \/ Owned(x) /\ f[x].pc \in Permitted /\ before = "none" /\ after = "running"
           \/ Owned(x) /\ f[x].pc \in Permitted /\ before = "running" /\ after \in {"succeeded", "failed"}

(* When a failure is final, every dispatch under way that shares its       *)
(* owner is at an attempt that has failed.                                 *)
LEMMA AtFinal ==
  ASSUME IInv, ~HostFails, OneBudget, NEW a \in Attempts, NEW v \in Verdicts, Final(a, v),
         NEW y \in Fibers, ~Solo
  PROVE  rows[f[y].attempt].state = "failed"
  <1>1. FiberInv(y) /\ StoreInv /\ f[y].attempt \in Attempts
    BY Parts DEF FiberInv, Fiber
  <1>2. Attempts \subseteq Nat /\ \A b \in Attempts : b <= MaxAttempts
    BY DispatchAssumption DEF Attempts
  <1>3. CASE f[y].attempt <= a
    BY <1>1, <1>3 DEF Final
  <1>4. ASSUME f[y].attempt > a PROVE FALSE
    <2>1. rows[a].outcome # "fatal"
      BY <1>1, <1>4 DEF FiberInv, Retryable
    <2>2. v # "fatal" /\ v # "exhausted"
      BY <1>1, <1>2, <1>4, <2>1, DispatchAssumption DEF Final, Attempts
    <2>3. v # "expired"
      BY <1>1 DEF Final, StoreInv, BudgetDeclared, OneBudget
    <2>4. v # "refused"
      BY <1>1, <1>2, <1>4, DispatchAssumption DEF Final, FiberInv, Attempts
    <2> QED
      BY <2>2, <2>3, <2>4 DEF Verdicts
  <1>5. f[y].attempt <= a \/ f[y].attempt > a
    <2>1. f[y].attempt \in Nat /\ a \in Nat
      BY <1>1, <1>2
    <2> QED
      BY <2>1
  <1> QED
    BY <1>3, <1>4, <1>5

(* A step of fiber x disturbs nothing the others rely on.                  *)
LEMMA OthersKept ==
  ASSUME IInv, NEW x \in Fibers, NEW y \in Fibers \ {x}, Alone(x), RowsMove(x), Grows,
         Orderly => Owned(x),
         (~HostFails /\ OneBudget /\ GaveUp' /\ ~GaveUp) =>
            Owned(x) /\ rows' = rows /\ \E a \in Attempts, v \in Verdicts : Final(a, v)
  PROVE  FiberInv(y)'
  <1>1. /\ f'[y] = f[y] /\ f[y] \in Fiber /\ f[x].attempt \in Attempts /\ f[y].attempt \in Attempts
        /\ FiberInv(y)
    BY Parts DEF Alone, Fiber, FiberInv
  <1>2. Owned(y)' = Owned(y)
    BY SettingKept DEF Alone, Owned
  <1>3. \A a \in Attempts : rows[a].state = "failed" => rows'[a].state = "failed" /\ rows'[a].outcome = rows[a].outcome
    BY <1>1 DEF RowsMove
  <1>4. Solo /\ Owned(y) => ~Owned(x)
    BY SettingTypes DEF Solo, Owned, IInv, TypeOK
  <1>5. Owned(y) /\ f[y].pc \in Permitted => \A a \in Attempts : rows'[a].state = rows[a].state
    BY <1>1 DEF RowsMove, Owned, IInv, PermitHeld
  <1>6. Solo /\ Owned(y) => \A a \in Attempts : rows'[a].state = rows[a].state
    BY <1>1, <1>4 DEF RowsMove
  <1>7. Orderly => f[y].pc = "idle"
    BY <1>1, <1>4 DEF FiberInv, Orderly
  <1>8. (Effectful /\ f[y].pc = "settle" /\ f[y].exit \notin Failures) => Told(f[y].attempt, f[y].exit)'
    BY <1>1 DEF FiberInv, Told, Grows
  <1>9. (~HostFails /\ OneBudget /\ GaveUp' /\ Owned(y) /\ f[y].pc \notin {"idle", "done"}) =>
           rows'[f[y].attempt].state = "failed"
    BY <1>1, <1>3, <1>4, AtFinal DEF FiberInv
  <1>10. \A p : p \in Working \/ p = "admit" => p \in Permitted
    BY DEF Working, Permitted
  <1>11. Alone(x) => setting' = setting
    BY DEF Alone
  <1> QED
    BY <1>1, <1>2, <1>3, <1>5, <1>6, <1>7, <1>8, <1>9, <1>10, <1>11, SettingKept
    DEF FiberInv, RowsMove, Told, Working, GaveUp, Retryable

(* A step of fiber x keeps the invariant when it keeps x's part and the    *)
(* store's.                                                                *)
LEMMA FiberStep ==
  ASSUME IInv, NEW x \in Fibers, NEW r \in Fiber, Home[x] \in live,
         f' = [f EXCEPT ![x] = r], setting' = setting, owner' = owner, live' = live,
         r.pc \in Permitted =>
            \/ f[x].pc \in Permitted
            \/ \A y \in Fibers \ {x} : Home[y] = Home[x] => f[y].pc \notin Permitted,
         RowsMove(x), Grows, Orderly => Owned(x),
         (~HostFails /\ OneBudget /\ GaveUp' /\ ~GaveUp) =>
            Owned(x) /\ rows' = rows /\ \E a \in Attempts, v \in Verdicts : Final(a, v),
         StoreInv', FiberInv(x)'
  PROVE  IInv'
  <1>1. f \in [Fibers -> Fiber]
    BY DEF IInv, TypeOK
  <1>2. Alone(x) /\ f'[x] = r /\ f' \in [Fibers -> Fiber']
    BY <1>1, SettingKept DEF Alone
  <1>3. DeadIdle' /\ PermitHeld'
    BY <1>2, PermitKept
  <1>4. \A y \in Fibers \ {x} : FiberInv(y)'
    BY <1>2, OthersKept
  <1>5. \A y \in Fibers : FiberInv(y)'
    BY <1>4
  <1> QED
    BY <1>2, <1>3, <1>5, PartsNext

(* A step that writes no row and gives nothing.                            *)
LEMMA QuietStep ==
  ASSUME IInv, NEW x \in Fibers, NEW r \in Fiber, Home[x] \in live,
         f' = [f EXCEPT ![x] = r],
         setting' = setting, owner' = owner, live' = live, rows' = rows, expired' = expired, given' = given,
         r.pc \in Permitted =>
            \/ f[x].pc \in Permitted
            \/ \A y \in Fibers \ {x} : Home[y] = Home[x] => f[y].pc \notin Permitted,
         journal' \subseteq Attempts, effects' \in Seq(Effect), Grows,
         crossed' \in [Attempts -> Nat], faults' \in Nat, tree' \in {"clean", "dirty"},
         Orderly /\ tree' = "dirty" => rows[1].snap = "clean",
         Orderly => Owned(x), FiberInv(x)'
  PROVE  IInv'
  <1>1. StoreInv /\ owner' \in Procs /\ live' \subseteq Procs /\ GivenDurable /\ given \subseteq Results \cup Verdicts
    BY Parts DEF StoreInv
  <1>2. GivesWell /\ RowsMove(x)
    BY <1>1 DEF GivesWell, RowsMove
  <1>3. StoreInv'
    BY <1>1, <1>2, StoreKept
  <1> QED
    BY <1>2, <1>3, FiberStep DEF GaveUp

(* A journal that is left alone forgets nothing.                           *)
LEMMA NoGrowth == effects' = effects => Grows
  BY DEF Grows, Told, Recorded

(* The dispatch of a fiber ends without a result.                          *)
LEMMA ParkStep ==
  ASSUME IInv, NEW x \in Fibers, Home[x] \in live, f[x].pc # "idle", Parked(x),
         setting' = setting, owner' = owner, live' = live, rows' = rows, expired' = expired, given' = given,
         journal' = journal, effects' \in Seq(Effect), Grows, tree' = tree, crossed' = crossed, faults' \in Nat
  PROVE  IInv'
  <1>1. /\ Idle \in Fiber /\ Idle.pc = "idle" /\ Idle.attempt = 1 /\ Idle.memo = None /\ 1 \in Attempts
    BY DispatchAssumption DEF Idle, Fiber, Phases, Attempts
  <1>2. f' = [f EXCEPT ![x] = Idle] /\ f'[x] = Idle /\ "idle" \notin Permitted \cup Working
    BY DEF Parked, IInv, TypeOK, Permitted, Working
  <1>3. FiberInv(x)'
    BY <1>1, <1>2, SettingKept, DispatchAssumption DEF FiberInv, Attempts
  <1>4. StoreInv /\ FiberInv(x)
    BY Parts
  <1> QED
    BY <1>1, <1>2, <1>3, <1>4, QuietStep, ZenonT(60) DEF StoreInv, FiberInv

(* The attempts are the numbers from 1 to MaxAttempts.                     *)
LEMMA AttemptFacts ==
  /\ Attempts \subseteq Nat /\ MaxAttempts \in Attempts /\ 1 \in Attempts
  /\ \A a \in Attempts : a = 1 \/ (a > 1 /\ a - 1 \in Attempts /\ a - 1 < a)
  /\ \A a \in Attempts : a <= MaxAttempts /\ (a < MaxAttempts => a + 1 \in Attempts)
  BY DispatchAssumption DEF Attempts

(* What the parts say of a fiber and of the store.                         *)
LEMMA FiberFacts ==
  ASSUME IInv, NEW x \in Fibers
  PROVE  /\ StoreInv /\ FiberInv(x) /\ f \in [Fibers -> Fiber] /\ f[x] \in Fiber
         /\ f[x].attempt \in Attempts /\ rows[f[x].attempt] \in Row /\ rows \in [Attempts -> Row]
         /\ effects \in Seq(Effect) /\ journal \subseteq Attempts /\ crossed \in [Attempts -> Nat]
         /\ faults \in Nat /\ tree \in {"clean", "dirty"} /\ setting \in Settings
         /\ owner \in Procs /\ live \subseteq Procs /\ given \subseteq Results \cup Verdicts
         /\ Attempts \subseteq Nat /\ 1 \in Attempts
         /\ Orderly => f[x].pc = "idle" \/ Owned(x)
         /\ Orderly /\ tree = "dirty" => rows[1].snap = "clean"
  BY Parts, DispatchAssumption, SMTT(30) DEF StoreInv, FiberInv, Fiber, Attempts

(* The fields of a fiber that only moves on.                               *)
LEMMA GotoFields ==
  ASSUME f \in [Fibers -> Fiber], NEW x \in Fibers, NEW pc \in Phases, Goto(x, pc)
  PROVE  \E r \in Fiber :
            /\ f' = [f EXCEPT ![x] = r] /\ f'[x] = r
            /\ r.pc = pc /\ r.attempt = f[x].attempt /\ r.adopted = f[x].adopted
            /\ r.snap = f[x].snap /\ r.memo = f[x].memo /\ r.exit = f[x].exit
  <1> DEFINE r == [f[x] EXCEPT !.pc = pc]
  <1>1. r \in Fiber /\ r.pc = pc /\ r.attempt = f[x].attempt /\ r.adopted = f[x].adopted
        /\ r.snap = f[x].snap /\ r.memo = f[x].memo /\ r.exit = f[x].exit
    BY DEF Fiber
  <1>2. f' = [f EXCEPT ![x] = r] /\ f'[x] = r
    BY DEF Goto
  <1> QED
    BY <1>1, <1>2

(* A heartbeat that finds the run lost ends the dispatch.                  *)
LEMMA FenceStep ==
  ASSUME IInv, NEW x \in Fibers, Fence(x)
  PROVE  IInv'
  <1>1. /\ Home[x] \in live /\ f[x].pc = "fence" /\ setting' = setting /\ owner' = owner /\ live' = live
        /\ rows' = rows /\ journal' = journal /\ effects' = effects /\ tree' = tree /\ crossed' = crossed
        /\ expired' = expired /\ given' = given /\ faults' = faults
    BY DEF Fence, At, store, world
  <1>2. CASE ~Owned(x)
    BY <1>1, <1>2, FiberFacts, NoGrowth, ParkStep DEF Fence
  <1>3. CASE Owned(x)
    <2>1. PICK r \in Fiber :
            /\ f' = [f EXCEPT ![x] = r] /\ f'[x] = r
            /\ r.pc = "permit" /\ r.attempt = f[x].attempt /\ r.adopted = f[x].adopted
            /\ r.snap = f[x].snap /\ r.memo = f[x].memo /\ r.exit = f[x].exit
      BY <1>3, FiberFacts, GotoFields DEF Fence, Phases
    <2>2. FiberInv(x)'
      BY <1>1, <2>1, FiberFacts, SettingKept, SMTT(30) DEF FiberInv, Owned, Working, GaveUp, Retryable
    <2> QED
      BY <1>1, <1>3, <2>1, <2>2, FiberFacts, NoGrowth, QuietStep DEF Permitted
  <1> QED
    BY <1>2, <1>3

(* The permit is taken only while no fiber of the process holds it.        *)
LEMMA AcquireStep ==
  ASSUME IInv, NEW x \in Fibers, Acquire(x)
  PROVE  IInv'
  <1>1. /\ Home[x] \in live /\ f[x].pc = "permit" /\ setting' = setting /\ owner' = owner /\ live' = live
        /\ rows' = rows /\ journal' = journal /\ effects' = effects /\ tree' = tree /\ crossed' = crossed
        /\ expired' = expired /\ given' = given /\ faults' = faults
        /\ \A y \in Fibers : Home[y] = Home[x] => f[y].pc \notin Permitted
    BY DEF Acquire, At, store, world
  <1>2. PICK r \in Fiber :
          /\ f' = [f EXCEPT ![x] = r] /\ f'[x] = r
          /\ r.pc = "read" /\ r.attempt = f[x].attempt /\ r.adopted = f[x].adopted
          /\ r.snap = f[x].snap /\ r.memo = f[x].memo /\ r.exit = f[x].exit
    BY FiberFacts, GotoFields DEF Acquire, Phases
  <1>3. FiberInv(x)'
    BY <1>1, <1>2, FiberFacts, SettingKept, SMTT(30) DEF FiberInv, Owned, Working, GaveUp, Retryable
  <1> QED
    BY <1>1, <1>2, <1>3, FiberFacts, NoGrowth, QuietStep

(* A new drive of the flow starts its dispatches again.                    *)
LEMMA RedriveStep ==
  ASSUME IInv, NEW x \in Fibers, Redrive(x)
  PROVE  IInv'
  BY FiberFacts, NoGrowth, ParkStep DEF Redrive, At, store, world

(* A host that fails ends the attempt, and is not Orderly.                 *)
LEMMA PreImageFailsStep ==
  ASSUME IInv, NEW x \in Fibers, PreImageFails(x)
  PROVE  IInv'
  <1>1. /\ Home[x] \in live /\ f[x].pc = "preimage" /\ setting' = setting /\ owner' = owner /\ live' = live
        /\ rows' = rows /\ journal' = journal /\ effects' = effects /\ tree' = tree /\ crossed' = crossed
        /\ expired' = expired /\ given' = given /\ faults' = faults + 1 /\ HostFails
    BY DEF PreImageFails, At, store, world
  <1> DEFINE r == [f[x] EXCEPT !.pc = "retry", !.snap = None, !.exit = "failed"]
  <1>2. r \in Fiber /\ r.pc = "retry" /\ r.attempt = f[x].attempt
    BY FiberFacts, ZenonT(60) DEF Fiber, Phases, Failures
  <1>3. f' = [f EXCEPT ![x] = r] /\ f'[x] = r
    BY FiberFacts DEF PreImageFails
  <1> HIDE DEF r
  <1>4. FiberInv(x)' /\ ~Orderly
    BY <1>1, <1>2, <1>3, FiberFacts, SettingKept, SMTT(30) DEF FiberInv, Owned, Working, Orderly
  <1>5. faults' \in Nat /\ Grows /\ r.pc \notin Permitted
    BY <1>1, <1>2, FiberFacts, NoGrowth DEF Permitted
  <1> QED
    BY <1>1, <1>2, <1>3, <1>4, <1>5, FiberFacts, QuietStep

(* The intention is recorded before the body may act.                      *)
LEMMA IntendStep ==
  ASSUME IInv, NEW x \in Fibers, Intend(x)
  PROVE  IInv'
  <1>1. /\ Home[x] \in live /\ f[x].pc = "intend" /\ setting' = setting /\ owner' = owner /\ live' = live
        /\ rows' = rows /\ journal' = journal /\ tree' = tree /\ crossed' = crossed
        /\ expired' = expired /\ given' = given /\ faults' = faults
    BY DEF Intend, At, world
  <1>2. CASE ~Owned(x)
    BY <1>1, <1>2, FiberFacts, NoGrowth, ParkStep DEF Intend
  <1>3. CASE Owned(x)
    <2>1. PICK r \in Fiber :
            /\ f' = [f EXCEPT ![x] = r] /\ f'[x] = r
            /\ r.pc = "body" /\ r.attempt = f[x].attempt /\ r.adopted = f[x].adopted
            /\ r.snap = f[x].snap /\ r.memo = f[x].memo /\ r.exit = f[x].exit
      BY <1>3, FiberFacts, GotoFields DEF Intend, Phases
    <2>2. effects' \in Seq(Effect) /\ Grows
      BY <1>1, <1>3, FiberFacts, Emits DEF Intend
    <2>3. FiberInv(x)'
      BY <1>1, <2>1, FiberFacts, SettingKept, SMTT(30) DEF FiberInv, Owned, Working, GaveUp, Retryable
    <2> QED
      BY <1>1, <1>3, <2>1, <2>2, <2>3, FiberFacts, QuietStep DEF Permitted
  <1> QED
    BY <1>2, <1>3

(* The body acts, on a working copy only of a compensable action.          *)
LEMMA CrossStep ==
  ASSUME IInv, NEW x \in Fibers, Cross(x)
  PROVE  IInv'
  <1>1. /\ Home[x] \in live /\ f[x].pc = "body" /\ setting' = setting /\ owner' = owner /\ live' = live
        /\ rows' = rows /\ journal' = journal /\ effects' = effects
        /\ expired' = expired /\ given' = given /\ faults' = faults
        /\ tree' = IF Tier = "compensable" THEN "dirty" ELSE tree
    BY DEF Cross, At, store
  <1>2. PICK r \in Fiber :
          /\ f' = [f EXCEPT ![x] = r] /\ f'[x] = r
          /\ r.pc = "crossed" /\ r.attempt = f[x].attempt /\ r.adopted = f[x].adopted
          /\ r.snap = f[x].snap /\ r.memo = f[x].memo /\ r.exit = f[x].exit
    BY FiberFacts, GotoFields DEF Cross, Phases
  <1>3. crossed' \in [Attempts -> Nat]
    BY FiberFacts DEF Cross
  <1>4. FiberInv(x)'
    <2>1. FiberInv(x) /\ Owned(x)' = Owned(x) /\ GaveUp' = GaveUp
      BY <1>1, FiberFacts, SettingKept DEF Owned, GaveUp, Verdicts
    <2>2. \A b \in Attempts : Retryable(b)' = Retryable(b)
      BY <1>1 DEF Retryable
    <2>3. "crossed" \in Working \ {"preimage", "announce"} /\ "body" \in Working \ {"preimage", "announce"}
      BY DEF Working
    <2> QED
      BY <1>1, <1>2, <2>1, <2>2, <2>3, SettingKept, SMTT(30) DEF FiberInv
  <1>5. Orderly => rows[1].snap = "clean" /\ Owned(x)
    <2> SUFFICES ASSUME Orderly PROVE rows[1].snap = "clean" /\ Owned(x)
      OBVIOUS
    <2>1. rows[f[x].attempt].snap = "clean" /\ Owned(x)
      BY <1>1, FiberFacts DEF FiberInv, Working
    <2>2. CASE f[x].attempt = 1
      BY <2>1, <2>2
    <2>3. CASE f[x].attempt # 1
      BY <2>1, <2>3, FiberFacts DEF FiberInv, StoreInv, Orderly, Attempts, GaveUp, Retryable
    <2> QED
      BY <2>2, <2>3
  <1>6. tree' \in {"clean", "dirty"} /\ Grows
    BY <1>1, FiberFacts, NoGrowth
  <1> QED
    BY <1>1, <1>2, <1>3, <1>4, <1>5, <1>6, FiberFacts, QuietStep DEF Permitted

(* The body returns one of its results, or fails.                          *)
LEMMA BodyEndsStep ==
  ASSUME IInv, NEW x \in Fibers, BodyEnds(x)
  PROVE  IInv'
  <1>1. /\ Home[x] \in live /\ f[x].pc \in {"body", "crossed"}
        /\ setting' = setting /\ owner' = owner /\ live' = live
        /\ rows' = rows /\ journal' = journal /\ effects' = effects /\ tree' = tree /\ crossed' = crossed
        /\ expired' = expired /\ given' = given /\ faults' = faults
    BY DEF BodyEnds, At, store, world
  <1>2. PICK v \in Results \cup Failures : f' = [f EXCEPT ![x].pc = "effect", ![x].exit = v]
    BY DEF BodyEnds
  <1> DEFINE r == [f[x] EXCEPT !.pc = "effect", !.exit = v]
  <1>3. /\ r \in Fiber /\ r.pc = "effect" /\ r.attempt = f[x].attempt
        /\ r.snap = f[x].snap /\ r.memo = f[x].memo /\ r.exit = v
    BY FiberFacts DEF Fiber, Phases
  <1>4. f' = [f EXCEPT ![x] = r] /\ f'[x] = r
    BY <1>2, FiberFacts
  <1> HIDE DEF r
  <1>5. FiberInv(x)'
    <2>1. FiberInv(x) /\ v \in Results \cup Failures /\ Owned(x)' = Owned(x)
      BY <1>1, FiberFacts, SettingKept DEF Owned
    <2> QED
      BY <1>1, <1>3, <1>4, <2>1, SettingKept DEF FiberInv, Working, GaveUp, Retryable
  <1> QED
    BY <1>1, <1>3, <1>4, <1>5, FiberFacts, NoGrowth, QuietStep DEF Permitted

(* The boundary record of a success is in the journal when the fiber goes  *)
(* on to settle it.                                                        *)
LEMMA SettleEffectStep ==
  ASSUME IInv, NEW x \in Fibers, SettleEffect(x)
  PROVE  IInv'
  <1> DEFINE a == f[x].attempt
             v == f[x].exit
  <1>1. /\ Home[x] \in live /\ f[x].pc = "effect" /\ setting' = setting /\ owner' = owner /\ live' = live
        /\ rows' = rows /\ journal' = journal /\ tree' = tree /\ crossed' = crossed
        /\ expired' = expired /\ given' = given /\ faults' = faults
    BY DEF SettleEffect, At, world
  <1>2. CASE Effectful /\ v \notin Failures /\ ~Owned(x)
    <2>1. Parked(x) /\ effects' = effects
      BY <1>2 DEF SettleEffect
    <2> QED
      BY <1>1, <2>1, FiberFacts, NoGrowth, ParkStep
  <1>3. CASE ~Effectful \/ v \in Failures
    <2>1. Goto(x, "settle")
      BY <1>3 DEF SettleEffect
    <2>2. effects' = effects \/ Emit(a, "unknown", None)
      BY <1>3 DEF SettleEffect
    <2>3. effects' \in Seq(Effect) /\ Grows
      BY <1>1, <2>2, FiberFacts, Emits, NoGrowth
    <2>4. PICK r \in Fiber :
            /\ f' = [f EXCEPT ![x] = r] /\ f'[x] = r
            /\ r.pc = "settle" /\ r.attempt = f[x].attempt /\ r.adopted = f[x].adopted
            /\ r.snap = f[x].snap /\ r.memo = f[x].memo /\ r.exit = f[x].exit
      BY <2>1, FiberFacts, GotoFields DEF Phases
    <2>5. FiberInv(x)'
      BY <1>1, <1>3, <2>4, FiberFacts, SettingKept, SMTT(30) DEF FiberInv, Owned, Working, GaveUp, Retryable
    <2> QED
      BY <1>1, <2>3, <2>4, <2>5, FiberFacts, QuietStep DEF Permitted
  <1>4. CASE Effectful /\ v \notin Failures /\ Owned(x)
    <2> DEFINE w == IF Conflicts(a, "succeeded", v) THEN "failed" ELSE v
               r == [f[x] EXCEPT !.pc = "settle", !.exit = w]
    <2>1. Emit(a, "succeeded", v) /\ f' = [f EXCEPT ![x].pc = "settle", ![x].exit = w]
      BY <1>4 DEF SettleEffect
    <2>2. v \in Results
      BY <1>1, <1>4, FiberFacts DEF FiberInv
    <2>3. effects' \in Seq(Effect) /\ Grows /\ (w \notin Failures => w = v /\ Told(a, v)')
      BY <1>1, <2>1, <2>2, FiberFacts, Emits DEF Failures
    <2>4. w \in Results \cup Failures
      BY <2>2 DEF Failures
    <2> HIDE DEF w
    <2>5. /\ r \in Fiber /\ r.pc = "settle" /\ r.attempt = a /\ r.adopted = f[x].adopted
          /\ r.snap = f[x].snap /\ r.memo = f[x].memo /\ r.exit = w
      BY <2>4, FiberFacts DEF Fiber, Phases
    <2>6. f' = [f EXCEPT ![x] = r] /\ f'[x] = r
      BY <2>1, FiberFacts
    <2> HIDE DEF r
    <2>7. FiberInv(x)'
      BY <1>1, <2>3, <2>4, <2>5, <2>6, FiberFacts, SettingKept, SMTT(60) DEF FiberInv, Owned, Working, Told, GaveUp, Retryable
    <2> QED
      BY <1>1, <2>3, <2>5, <2>6, <2>7, FiberFacts, QuietStep DEF Permitted
  <1> QED
    BY <1>2, <1>3, <1>4

(* Under Orderly the tree that is restored is the one the first attempt    *)
(* found.                                                                  *)
LEMMA TakePreImageStep ==
  ASSUME IInv, NEW x \in Fibers, TakePreImage(x)
  PROVE  IInv'
  <1> DEFINE a == f[x].attempt
             previous == IF a > 1 THEN rows[a - 1].snap ELSE None
             wanted == IF f[x].adopted /\ f[x].snap # None THEN f[x].snap ELSE previous
             restored == IF wanted = None THEN tree ELSE wanted
             r == [f[x] EXCEPT !.pc = "announce", !.snap = restored]
  <1>0. a \in Attempts /\ (a = 1 \/ (a > 1 /\ a - 1 \in Attempts /\ a - 1 < a))
    <2>1. a \in Attempts
      BY FiberFacts
    <2> QED
      BY <2>1, AttemptFacts
  <1>1. /\ Home[x] \in live /\ f[x].pc = "preimage" /\ setting' = setting /\ owner' = owner /\ live' = live
        /\ rows' = rows /\ journal' = journal /\ effects' = effects /\ crossed' = crossed
        /\ expired' = expired /\ given' = given /\ faults' = faults /\ tree' = restored
        /\ f' = [f EXCEPT ![x].pc = "announce", ![x].snap = restored]
    BY DEF TakePreImage, At, store
  <1>2. restored \in {"clean", "dirty"}
    <2>1. a > 1 => rows[a - 1] \in Row
      BY <1>0, FiberFacts
    <2>2. tree \in {"clean", "dirty"} /\ f[x].snap \in {"clean", "dirty", None}
      BY FiberFacts DEF Fiber
    <2> QED
      BY <2>1, <2>2 DEF Row
  <1>3. Orderly => restored = "clean"
    <2> SUFFICES ASSUME Orderly PROVE restored = "clean"
      OBVIOUS
    <2>1. IF f[x].adopted THEN f[x].snap = rows[a].snap ELSE rows[a].snap = None
      BY <1>1, FiberFacts DEF FiberInv
    <2>2. rows[a].snap \in {None, "clean"}
      BY FiberFacts DEF StoreInv
    <2>3. a > 1 => rows[a - 1].snap = "clean"
      BY <1>0, FiberFacts DEF StoreInv, FiberInv, Orderly, GaveUp, Retryable
    <2>4. a = 1 /\ rows[a].snap = None => tree = "clean"
      BY FiberFacts, DispatchAssumption
    <2> QED
      BY <1>0, <2>1, <2>2, <2>3, <2>4, DispatchAssumption
  <1> HIDE DEF restored
  <1>4. /\ r \in Fiber /\ r.pc = "announce" /\ r.attempt = f[x].attempt
        /\ r.snap = restored /\ r.memo = f[x].memo
    BY <1>2, FiberFacts, ZenonT(60) DEF Fiber, Phases
  <1>5. f' = [f EXCEPT ![x] = r] /\ f'[x] = r
    BY <1>1, FiberFacts
  <1> HIDE DEF r
  <1>6. FiberInv(x)'
    BY <1>1, <1>3, <1>4, <1>5, FiberFacts, SettingKept, SMTT(30) DEF FiberInv, Owned, Working, GaveUp, Retryable
  <1>7. tree' \in {"clean", "dirty"} /\ Grows /\ (Orderly => tree' # "dirty")
    BY <1>1, <1>2, <1>3, NoGrowth
  <1> QED
    BY <1>1, <1>4, <1>5, <1>6, <1>7, FiberFacts, QuietStep DEF Permitted

(* An interrupted fiber may leave a record of an unknown effect.           *)
LEMMA InterruptStep ==
  ASSUME IInv, NEW x \in Fibers, Interrupt(x)
  PROVE  IInv'
  <1>1. /\ Home[x] \in live /\ f[x].pc # "idle" /\ Parked(x)
        /\ setting' = setting /\ owner' = owner /\ live' = live
        /\ rows' = rows /\ journal' = journal /\ tree' = tree /\ crossed' = crossed
        /\ expired' = expired /\ given' = given /\ faults' = faults + 1
    BY DEF Interrupt, world
  <1>2. effects' = effects \/ Emit(f[x].attempt, "unknown", None)
    BY DEF Interrupt
  <1>3. effects' \in Seq(Effect) /\ Grows /\ faults' \in Nat
    BY <1>1, <1>2, FiberFacts, Emits, NoGrowth
  <1> QED
    BY <1>1, <1>3, ParkStep

(* The fields of a fiber whose dispatch returns.                           *)
LEMMA GivesFields ==
  ASSUME f \in [Fibers -> Fiber], NEW x \in Fibers, NEW exit \in Results \cup Verdicts, Gives(x, exit)
  PROVE  \E r \in Fiber :
            /\ f' = [f EXCEPT ![x] = r] /\ f'[x] = r
            /\ r.pc = "done" /\ r.attempt = f[x].attempt /\ r.memo = f[x].memo
  <1> DEFINE r == [f[x] EXCEPT !.pc = "done", !.exit = exit]
  <1>1. r \in Fiber /\ r.pc = "done" /\ r.attempt = f[x].attempt /\ r.memo = f[x].memo
    BY ZenonT(60) DEF Fiber, Phases
  <1>2. f' = [f EXCEPT ![x] = r] /\ f'[x] = r
    BY DEF Gives
  <1> QED
    BY <1>1, <1>2

(* A dispatch returns what a row says, or a failure that is final.         *)
LEMMA GiveStep ==
  ASSUME IInv, NEW x \in Fibers, NEW exit \in Results \cup Verdicts, Gives(x, exit),
         Home[x] \in live, f[x].pc # "idle",
         setting' = setting, owner' = owner, live' = live, rows' = rows, expired' = expired,
         effects' = effects, tree' = tree, crossed' = crossed, faults' = faults,
         journal' \subseteq Attempts,
         exit \notin Verdicts => \E a \in Attempts : rows[a].state = "succeeded" /\ rows[a].outcome = exit,
         (exit \in Verdicts /\ Owned(x) /\ ~HostFails /\ OneBudget) => \E a \in Attempts : Final(a, exit)
  PROVE  IInv'
  <1>1. PICK r \in Fiber :
            /\ f' = [f EXCEPT ![x] = r] /\ f'[x] = r
            /\ r.pc = "done" /\ r.attempt = f[x].attempt /\ r.memo = f[x].memo
    BY FiberFacts, GivesFields
  <1>2. given' = IF Owned(x) THEN given \cup {exit} ELSE given
    BY DEF Gives
  <1>3. GaveUp' /\ ~GaveUp => exit \in Verdicts /\ Owned(x)
    BY <1>2 DEF GaveUp
  <1>4. GivesWell
    BY <1>2, <1>3, FiberFacts DEF GivesWell
  <1>5. Grows /\ RowsMove(x) /\ (Orderly => Owned(x))
    BY FiberFacts, NoGrowth DEF RowsMove
  <1>6. StoreInv'
    BY <1>4, <1>5, FiberFacts, StoreKept
  <1>7. FiberInv(x)'
    <2>1. FiberInv(x) /\ Owned(x)' = Owned(x)
      BY FiberFacts, SettingKept DEF Owned
    <2> QED
      BY <1>1, <1>5, <2>1, SettingKept DEF FiberInv, Working, GaveUp, Retryable
  <1>8. r.pc \notin Permitted
    BY <1>1 DEF Permitted
  <1>9. (~HostFails /\ OneBudget /\ GaveUp' /\ ~GaveUp) =>
            Owned(x) /\ rows' = rows /\ \E a \in Attempts, v \in Verdicts : Final(a, v)
    BY <1>3
  <1> QED
    BY <1>1, <1>5, <1>6, <1>7, <1>8, <1>9, FiberStep

(* The loop goes on to attempt a.                                          *)
LEMMA BeginStep ==
  ASSUME IInv, NEW x \in Fibers, NEW a \in Attempts, Attempt(x, a),
         ~(a > 1 /\ Unrepeatable),
         Home[x] \in live, Orderly => Owned(x),
         setting' = setting, owner' = owner, live' = live, rows' = rows, expired' = expired,
         journal' = journal, effects' = effects, crossed' = crossed, faults' = faults,
         ~HostFails => \A b \in Attempts : b < a => Retryable(b),
         (Solo /\ ~HostFails /\ Owned(x)) => \A b \in Attempts : b > a => rows[b].state = "none",
         (~HostFails /\ OneBudget /\ GaveUp /\ Owned(x)) => rows[a].state = "failed"
  PROVE  IInv'
  <1> DEFINE restored == IF a > 1 /\ f[x].memo # None THEN f[x].memo ELSE tree
             memo == IF Tier = "compensable" THEN restored ELSE None
             r == [f[x] EXCEPT !.pc = "fence", !.attempt = a, !.memo = memo]
  <1>1. /\ tree' = IF Tier = "compensable" THEN restored ELSE tree
        /\ f' = [f EXCEPT ![x].pc = "fence", ![x].attempt = a, ![x].memo = memo]
        /\ given' = given
    BY DEF Attempt
  <1>2. restored \in {"clean", "dirty"} /\ (Orderly /\ restored = "dirty" => rows[1].snap = "clean")
    <2>1. f[x].memo \in {"clean", "dirty", None} /\ tree \in {"clean", "dirty"}
      BY FiberFacts DEF Fiber
    <2> QED
      BY <2>1, FiberFacts DEF FiberInv
  <1>3. Orderly => Tier = "compensable"
    BY DEF Orderly
  <1> HIDE DEF restored
  <1>4. /\ memo \in {"clean", "dirty", None} /\ (Orderly /\ memo = "dirty" => rows[1].snap = "clean")
        /\ tree' \in {"clean", "dirty"} /\ (Orderly /\ tree' = "dirty" => rows[1].snap = "clean")
    BY <1>1, <1>2, <1>3, FiberFacts
  <1> HIDE DEF memo
  <1>5. r \in Fiber /\ r.pc = "fence" /\ r.attempt = a /\ r.memo = memo
    BY <1>4, FiberFacts, ZenonT(60) DEF Fiber, Phases
  <1>6. f' = [f EXCEPT ![x] = r] /\ f'[x] = r
    BY <1>1, FiberFacts
  <1> HIDE DEF r
  <1>7. Unrepeatable => a = 1
    BY AttemptFacts
  <1>8. FiberInv(x)'
    <2>1. Owned(x)' = Owned(x)
      BY SettingKept DEF Owned
    <2>2. /\ f'[x] \in Fiber' /\ f'[x].pc = "fence" /\ f'[x].attempt = a /\ f'[x].memo = memo
          /\ "fence" \notin Working
      BY <1>5, <1>6, SettingKept DEF Working
    <2>3. ~HostFails' => \A b \in Attempts : b < f'[x].attempt => Retryable(b)'
      BY <2>2, SettingKept DEF Retryable
    <2>4. Unrepeatable' => f'[x].attempt = 1
      BY <1>7, <2>2, SettingKept
    <2>5. (Solo' /\ ~HostFails' /\ Owned(x)') => \A b \in Attempts : b > f'[x].attempt => rows'[b].state = "none"
      BY <2>1, <2>2, SettingKept
    <2>6. (~HostFails' /\ OneBudget' /\ GaveUp' /\ Owned(x)') => rows'[f'[x].attempt].state = "failed"
      BY <1>1, <2>1, <2>2, SettingKept DEF GaveUp
    <2>7. Orderly' => Owned(x)' /\ (f'[x].memo = "dirty" => rows'[1].snap = "clean")
      BY <1>4, <2>1, <2>2, SettingKept
    <2> QED
      BY <2>2, <2>3, <2>4, <2>5, <2>6, <2>7 DEF FiberInv
  <1> QED
    BY <1>1, <1>4, <1>5, <1>6, <1>8, FiberFacts, NoGrowth, QuietStep DEF Permitted

(* Where no host call fails, the probed attempt is the last one made, and  *)
(* an irreversible action without a key has only one.                      *)
LEMMA LatestIsLast ==
  ASSUME IInv
  PROVE  /\ Latest \in Attempts
         /\ Unrepeatable => Latest = 1
         /\ ~HostFails => /\ \A b \in Attempts : b < Latest => Retryable(b)
                          /\ \A b \in Attempts : b > Latest => rows[b].state = "none"
         /\ rows[1].state # "none" => rows[Latest].state # "none"
  <1>1. /\ Latest \in Attempts
        /\ rows[1].state = "none" => Latest = 1
        /\ rows[1].state # "none" =>
              /\ \A b \in 1..Latest : rows[b].state # "none"
              /\ Latest < MaxAttempts => rows[Latest + 1].state = "none"
    BY LatestEnds DEF IInv
  <1>2. Latest \in Nat /\ Latest >= 1 /\ Latest \in 1..Latest
    BY <1>1, DispatchAssumption DEF Attempts
  <1>3. Unrepeatable => Latest = 1
    BY <1>1, <1>2 DEF IInv, AttemptedOnce
  <1>4. ~HostFails => \A b \in Attempts : b < Latest => Retryable(b)
    <2> SUFFICES ASSUME ~HostFails, NEW b \in Attempts, b < Latest PROVE Retryable(b)
      OBVIOUS
    <2>1. rows[Latest].state # "none"
      BY <1>1, <1>2, DispatchAssumption DEF Attempts
    <2> QED
      BY <1>1, <2>1 DEF IInv, Chained
  <1>5. ~HostFails => \A b \in Attempts : b > Latest => rows[b].state = "none"
    <2> SUFFICES ASSUME ~HostFails, NEW b \in Attempts, b > Latest, rows[b].state # "none" PROVE FALSE
      OBVIOUS
    <2>1. \A a \in Attempts : a < b => rows[a].state = "failed"
      BY DEF IInv, Chained, Retryable
    <2>2. 1 \in Attempts /\ 1 < b /\ Latest < b /\ b <= MaxAttempts /\ b \in Nat /\ MaxAttempts \in Nat
      BY <1>2, DispatchAssumption DEF Attempts
    <2>3. Latest < MaxAttempts /\ Latest + 1 \in Attempts /\ (Latest + 1 = b \/ Latest + 1 < b)
      BY <1>2, <2>2 DEF Attempts
    <2>4. rows[1].state = "failed" /\ rows[Latest + 1].state = "none"
      BY <1>1, <2>1, <2>2, <2>3
    <2> QED
      BY <2>1, <2>3, <2>4
  <1> QED
    BY <1>1, <1>2, <1>3, <1>4, <1>5

(* A drive enters the action at the attempt the probe ends at.             *)
LEMMA EnterStep ==
  ASSUME IInv, NEW x \in Fibers, Enter(x)
  PROVE  IInv'
  <1>1. /\ Home[x] \in live /\ Owned(x) /\ Attempt(x, Latest)
        /\ setting' = setting /\ owner' = owner /\ live' = live /\ rows' = rows /\ expired' = expired
        /\ journal' = journal /\ effects' = effects /\ crossed' = crossed /\ faults' = faults
    BY DEF Enter, At, store
  <1>2. Latest \in Attempts /\ ~(Latest > 1 /\ Unrepeatable)
    BY LatestIsLast
  <1>3. (~HostFails /\ OneBudget /\ GaveUp) => rows[Latest].state = "failed"
    <2> SUFFICES ASSUME ~HostFails, OneBudget, GaveUp PROVE rows[Latest].state = "failed"
      OBVIOUS
    <2>1. PICK v \in Verdicts, a \in Attempts : Final(a, v)
      BY Parts DEF StoreInv, GaveUp
    <2>2. rows[1].state # "none"
      BY <2>1, AttemptFacts DEF Final
    <2> QED
      BY <1>2, <2>1, <2>2, LatestIsLast DEF Final
  <1>4. ~HostFails => /\ \A b \in Attempts : b < Latest => Retryable(b)
                     /\ \A b \in Attempts : b > Latest => rows[b].state = "none"
    BY LatestIsLast
  <1> QED
    BY <1>1, <1>2, <1>3, <1>4, BeginStep

(* What a dispatch that gives up fails with is final.                      *)
LEMMA GivesUpFinal ==
  ASSUME IInv, NEW x \in Fibers, f[x].pc = "retry", Owned(x), ~HostFails, OneBudget, NEW v \in Verdicts,
         v = "fatal" <=> f[x].exit = "fatal",
         v = "exhausted" <=> (f[x].exit # "fatal" /\ f[x].attempt = MaxAttempts),
         v = "expired" => expired, v = "refused" => Unrepeatable
  PROVE  Final(f[x].attempt, v)
  <1> DEFINE a == f[x].attempt
  <1>1. a \in Attempts /\ FiberInv(x) /\ StoreInv /\ Attempts \subseteq Nat
    BY FiberFacts
  <1>2. /\ rows[a].state = "failed" /\ rows[a].outcome = f[x].exit
        /\ \A b \in Attempts : b < a => rows[b].state = "failed"
    BY <1>1 DEF FiberInv, Retryable
  <1>3. ASSUME NEW b \in Attempts, b > a PROVE rows[b].state = "none"
    <2>1. CASE v = "fatal"
      BY <1>1, <1>2, <1>3, <2>1 DEF StoreInv, Retryable
    <2>2. CASE v = "exhausted"
      BY <1>1, <1>3, <2>2, AttemptFacts, DispatchAssumption
    <2>3. CASE v = "expired"
      BY <1>1, <1>3, <2>3 DEF StoreInv, BudgetDeclared, OneBudget, FiberInv
    <2>4. CASE v = "refused"
      BY <1>1, <1>3, <2>4 DEF StoreInv, FiberInv
    <2> QED
      BY <2>1, <2>2, <2>3, <2>4 DEF Verdicts
  <1>4. \A b \in Attempts : rows[b].state = IF b <= a THEN "failed" ELSE "none"
    BY <1>1, <1>2, <1>3
  <1> QED
    BY <1>2, <1>4 DEF Final

(* A failure is given when it is fatal, when the attempts or the budget    *)
(* are used up, or when the action cannot be repeated.                     *)
LEMMA RetryStep ==
  ASSUME IInv, NEW x \in Fibers, Retry(x)
  PROVE  IInv'
  <1> DEFINE a == f[x].attempt
             more == f[x].exit # "fatal" /\ a < MaxAttempts /\ ~expired
  <1>1. /\ Home[x] \in live /\ f[x].pc = "retry"
        /\ setting' = setting /\ owner' = owner /\ live' = live /\ rows' = rows /\ expired' = expired
        /\ journal' = journal /\ effects' = effects /\ crossed' = crossed /\ faults' = faults
    BY DEF Retry, At, store
  <1>2. a \in Attempts /\ FiberInv(x) /\ StoreInv /\ (Orderly => Owned(x)) /\ journal \subseteq Attempts
    BY <1>1, FiberFacts
  <1>3. a \in Nat /\ a >= 1 /\ MaxAttempts \in Nat /\ a <= MaxAttempts /\ (a < MaxAttempts => a + 1 \in Attempts)
    BY <1>2, DispatchAssumption DEF Attempts
  <1>4. ~HostFails => rows[a].state = "failed" /\ rows[a].outcome = f[x].exit
    BY <1>1, <1>2 DEF FiberInv
  <1>5. CASE more /\ ~Unrepeatable
    <2>1. Attempt(x, a + 1) /\ a + 1 \in Attempts
      BY <1>3, <1>5 DEF Retry
    <2>2. ~HostFails => \A b \in Attempts : b < a + 1 => Retryable(b)
      <3>1. \A b \in Attempts : b < a + 1 => b < a \/ b = a
        BY <1>3 DEF Attempts
      <3> QED
        BY <1>2, <1>4, <1>5, <3>1 DEF FiberInv, Retryable
    <2>3. (Solo /\ ~HostFails /\ Owned(x)) => \A b \in Attempts : b > a + 1 => rows[b].state = "none"
      BY <1>1, <1>2, <1>3, AttemptFacts DEF FiberInv
    <2>4. ASSUME ~HostFails, OneBudget, GaveUp PROVE rows[a + 1].state = "failed"
      <3>1. PICK v \in Verdicts, b \in Attempts : Final(b, v)
        BY <1>2, <2>4 DEF StoreInv, GaveUp
      <3>2. a <= b /\ b \in Nat
        BY <1>2, <1>4, <2>4, <3>1, AttemptFacts DEF Final
      <3>3. a # b
        BY <1>3, <1>4, <1>5, <2>4, <3>1 DEF Final, Verdicts
      <3> QED
        BY <1>3, <2>1, <3>1, <3>2, <3>3 DEF Final
    <2> QED
      BY <1>1, <1>2, <1>5, <2>1, <2>2, <2>3, <2>4, BeginStep
  <1>6. CASE ~more \/ Unrepeatable
    <2> DEFINE v == IF more THEN "refused" ELSE Verdict(x)
    <2>1. Gives(x, v) /\ tree' = tree
      <3>1. CASE ~more
        BY <3>1 DEF Retry
      <3>2. CASE more /\ Unrepeatable
        <4>1. Attempt(x, a + 1) /\ a + 1 > 1
          BY <1>3, <3>2 DEF Retry
        <4> QED
          BY <3>2, <4>1 DEF Attempt
      <3> QED
        BY <1>6, <3>1, <3>2
    <2>2. /\ v \in Verdicts
          /\ v = "fatal" <=> f[x].exit = "fatal"
          /\ v = "exhausted" <=> (f[x].exit # "fatal" /\ a = MaxAttempts)
          /\ v = "expired" => expired
          /\ v = "refused" => Unrepeatable
      BY <1>3, <1>6 DEF Verdict, Verdicts
    <2> HIDE DEF v
    <2>3. (Owned(x) /\ ~HostFails /\ OneBudget) => \E b \in Attempts : Final(b, v)
      BY <1>1, <1>2, <2>2, GivesUpFinal
    <2>4. v \in Results \cup Verdicts /\ f[x].pc # "idle" /\ journal' \subseteq Attempts
      BY <1>1, <1>2, <2>2
    <2> QED
      BY <1>1, <2>1, <2>2, <2>3, <2>4, GiveStep
  <1> QED
    BY <1>5, <1>6

(* A terminal row is replayed; any other leads to the admission.           *)
LEMMA ReadStep ==
  ASSUME IInv, NEW x \in Fibers, Read(x)
  PROVE  IInv'
  <1> DEFINE a == f[x].attempt
  <1>1. /\ Home[x] \in live /\ f[x].pc = "read" /\ setting' = setting /\ owner' = owner /\ live' = live
        /\ rows' = rows /\ effects' = effects /\ tree' = tree /\ crossed' = crossed
        /\ expired' = expired /\ faults' = faults
    BY DEF Read, At, world
  <1>2. a \in Attempts /\ FiberInv(x) /\ StoreInv
    BY FiberFacts
  <1>3. CASE rows[a].state \in {"none", "running"}
    <2> DEFINE r == [f[x] EXCEPT !.pc = "admit", !.adopted = rows[a].state = "running", !.snap = rows[a].snap]
    <2>1. /\ f' = [f EXCEPT ![x].pc = "admit", ![x].adopted = rows[a].state = "running",
                            ![x].snap = rows[a].snap]
          /\ journal' = journal /\ given' = given
      BY <1>3 DEF Read
    <2>2. /\ r \in Fiber /\ r.pc = "admit" /\ r.attempt = a /\ r.adopted = (rows[a].state = "running")
          /\ r.snap = rows[a].snap /\ r.memo = f[x].memo
      BY FiberFacts, ZenonT(60) DEF Fiber, Phases, Row
    <2>3. f' = [f EXCEPT ![x] = r] /\ f'[x] = r
      BY <2>1, FiberFacts
    <2> HIDE DEF r
    <2>4. FiberInv(x)'
      <3>1. Owned(x)' = Owned(x) /\ "admit" \notin Working
        BY <1>1, SettingKept DEF Owned, Working
      <3>2. Orderly /\ rows[a].state = "none" => rows[a].snap = None
        BY <1>2 DEF StoreInv
      <3>3. /\ f'[x] \in Fiber' /\ f'[x].pc = "admit" /\ f'[x].attempt = a /\ f'[x].memo = f[x].memo
            /\ rows'[a].state = IF f'[x].adopted THEN "running" ELSE "none"
        BY <1>1, <1>3, <2>2, <2>3, SettingKept
      <3>4. Orderly => IF f'[x].adopted THEN f'[x].snap = rows'[a].snap ELSE rows'[a].snap = None
        BY <1>1, <1>3, <2>2, <2>3, <3>2
      <3>5. (~HostFails /\ OneBudget /\ GaveUp) => ~Owned(x)
        BY <1>1, <1>2, <1>3 DEF FiberInv
      <3>6. ~HostFails' => \A b \in Attempts : b < f'[x].attempt => Retryable(b)'
        BY <1>1, <1>2, <3>3, SettingKept DEF FiberInv, GaveUp, Retryable
      <3>7. Unrepeatable' => f'[x].attempt = 1
        BY <1>1, <1>2, <3>3, SettingKept DEF FiberInv
      <3>8. (Solo' /\ ~HostFails' /\ Owned(x)') =>
               \A b \in Attempts : b > f'[x].attempt => rows'[b].state = "none"
        BY <1>1, <1>2, <3>1, <3>3, SettingKept DEF FiberInv
      <3>9. ~(~HostFails' /\ OneBudget' /\ GaveUp' /\ Owned(x)')
        BY <1>1, <2>1, <3>1, <3>5, SettingKept DEF GaveUp
      <3>10. Orderly' =>
              /\ Owned(x)' /\ (f'[x].memo = "dirty" => rows'[1].snap = "clean")
              /\ IF f'[x].adopted THEN f'[x].snap = rows'[a].snap ELSE rows'[a].snap = None
        BY <1>1, <1>2, <3>1, <3>3, <3>4, SettingKept DEF FiberInv
      <3> QED
        BY <3>1, <3>3, <3>6, <3>7, <3>8, <3>9, <3>10 DEF FiberInv
    <2> QED
      BY <1>1, <2>1, <2>2, <2>3, <2>4, FiberFacts, NoGrowth, QuietStep DEF Permitted
  <1>4. CASE rows[a].state \in {"succeeded", "failed"} /\ ~Owned(x)
    <2>1. Parked(x) /\ journal' = journal /\ given' = given
      BY <1>4 DEF Read
    <2> QED
      BY <1>1, <2>1, FiberFacts, NoGrowth, ParkStep
  <1>5. CASE rows[a].state = "succeeded" /\ Owned(x)
    <2>1. journal' = journal \cup {a} /\ Gives(x, rows[a].outcome)
      BY <1>5 DEF Read
    <2>2. rows[a].outcome \in Results /\ rows[a].outcome \notin Verdicts /\ journal' \subseteq Attempts
      BY <1>2, <1>5, <2>1, FiberFacts, SettingTypes DEF StoreInv
    <2> QED
      BY <1>1, <1>2, <1>5, <2>1, <2>2, GiveStep
  <1>6. CASE rows[a].state = "failed" /\ Owned(x)
    <2> DEFINE r == [f[x] EXCEPT !.pc = "retry", !.exit = rows[a].outcome]
    <2>1. /\ journal' = journal \cup {a} /\ given' = given
          /\ f' = [f EXCEPT ![x].pc = "retry", ![x].exit = rows[a].outcome]
      BY <1>6 DEF Read
    <2>2. /\ f' = [f EXCEPT ![x] = r] /\ f'[x] = r /\ r \in Fiber
          /\ r.pc = "retry" /\ r.attempt = f[x].attempt /\ r.adopted = f[x].adopted
          /\ r.snap = f[x].snap /\ r.memo = f[x].memo /\ r.exit = rows[a].outcome
      <3>1. rows[a].outcome \in Results \cup Failures \cup {None}
        BY <1>2 DEF StoreInv, Row
      <3>2. r \in Fiber
        BY <3>1, FiberFacts DEF Fiber, Phases
      <3>3. f[x] \in Fiber /\ f \in [Fibers -> Fiber]
        BY FiberFacts
      <3> QED
        BY <2>1, <3>2, <3>3 DEF Fiber
    <2> HIDE DEF r
    <2>3. FiberInv(x)'
      <3>1. Owned(x)' = Owned(x) /\ "retry" \notin Working
        BY <1>1, SettingKept DEF Owned, Working
      <3>2. /\ f'[x] \in Fiber' /\ f'[x].pc = "retry" /\ f'[x].attempt = a /\ f'[x].memo = f[x].memo
            /\ rows'[a].state = "failed" /\ rows'[a].outcome = f'[x].exit
        BY <1>1, <1>6, <2>2, SettingKept
      <3>3. ~HostFails' => \A b \in Attempts : b < f'[x].attempt => Retryable(b)'
        BY <1>1, <1>2, <3>2, SettingKept DEF FiberInv, Retryable
      <3>4. Unrepeatable' => f'[x].attempt = 1
        BY <1>1, <1>2, <3>2, SettingKept DEF FiberInv
      <3>5. (Solo' /\ ~HostFails' /\ Owned(x)') =>
               \A b \in Attempts : b > f'[x].attempt => rows'[b].state = "none"
        BY <1>1, <1>2, <3>1, <3>2, SettingKept DEF FiberInv
      <3>6. Orderly' => Owned(x)' /\ (f'[x].memo = "dirty" => rows'[1].snap = "clean")
        BY <1>1, <1>2, <3>1, <3>2, SettingKept DEF FiberInv
      <3> QED
        BY <3>1, <3>2, <3>3, <3>4, <3>5, <3>6 DEF FiberInv
    <2>4. journal' \subseteq Attempts /\ Grows /\ r.pc \notin Permitted
      BY <1>1, <1>2, <2>1, <2>2, FiberFacts, NoGrowth DEF Permitted
    <2> QED
      BY <1>1, <1>6, <2>1, <2>2, <2>3, <2>4, FiberFacts, QuietStep
  <1> QED
    BY <1>3, <1>4, <1>5, <1>6 DEF Read

(* A step that writes the row of attempt a, which is not terminal, after   *)
(* every attempt before it has failed.                                     *)
LEMMA RowWritten ==
  ASSUME StoreInv, NEW a \in Attempts, NEW w \in Row, rows' = [rows EXCEPT ![a] = w],
         rows[a].state \in {"none", "running"}, w.state # "none",
         setting' = setting, owner' = owner, live' = live, expired' = expired, effects' = effects,
         tree' = tree, crossed' = crossed, faults' = faults, journal' \subseteq Attempts,
         given' = given \/ (w.state = "succeeded" /\ given' = given \cup {w.outcome}),
         w.state = "succeeded" => w.outcome \in Results /\ (Effectful => Told(a, w.outcome)),
         ~HostFails => \A b \in Attempts : b < a => Retryable(b),
         Unrepeatable => a = 1,
         (~HostFails /\ OneBudget) => ~GaveUp,
         Orderly => /\ w.snap \in {None, "clean"} /\ (w.state = "failed" => w.snap = "clean")
                    /\ (a = 1 /\ tree = "dirty" => w.snap = "clean")
  PROVE  StoreInv'
  <1>1. rows \in [Attempts -> Row] /\ Attempts \subseteq Nat /\ setting \in Settings /\ Results \cap Verdicts = {}
    BY AttemptFacts, SettingTypes DEF StoreInv
  <1>2. rows' \in [Attempts -> Row'] /\ rows'[a] = w /\ \A b \in Attempts : b # a => rows'[b] = rows[b]
    BY <1>1, SettingKept
  <1>3. SuccessRecorded'
    <2>1. \A b \in Attempts : Effectful /\ rows'[b].state = "succeeded" => Told(b, rows'[b].outcome)
      BY <1>2 DEF StoreInv, SuccessRecorded, Told
    <2> QED
      BY <2>1, SettingKept, ZenonT(60) DEF SuccessRecorded, Told, Recorded
  <1>4. GivenDurable' /\ given' \subseteq Results \cup Verdicts
    BY <1>2, SettingKept, SMTT(30) DEF StoreInv, GivenDurable
  <1>5. BudgetDeclared'
    <2>1. BudgetDeclared /\ Expires' = Expires
      BY SettingKept DEF StoreInv
    <2> QED
      BY <2>1, Zenon DEF BudgetDeclared
  <1>6. \A b \in Attempts : rows'[b].state = "succeeded" => rows'[b].outcome \in Results
    BY <1>2 DEF StoreInv
  <1>7. ~HostFails => \A b, c \in Attempts : (b < c /\ rows'[c].state # "none") => Retryable(b)'
    <2> SUFFICES ASSUME ~HostFails, NEW b \in Attempts, NEW c \in Attempts, b < c, rows'[c].state # "none"
                 PROVE  Retryable(b)'
      OBVIOUS
    <2>1. CASE c = a
      BY <1>1, <1>2, <2>1 DEF Retryable
    <2>2. CASE c # a
      BY <1>1, <1>2, <2>2 DEF StoreInv, Retryable
    <2> QED
      BY <2>1, <2>2
  <1>8. Unrepeatable => \A b \in Attempts : b > 1 => rows'[b].state = "none"
    BY <1>1, <1>2 DEF StoreInv
  <1>9. (~HostFails /\ OneBudget) => given' \cap Verdicts = {}
    BY <1>1 DEF GaveUp
  <1>10. Orderly => /\ \A b \in Attempts : rows'[b].snap \in {None, "clean"}
                    /\ \A b \in Attempts : rows'[b].state = "failed" => rows'[b].snap = "clean"
                    /\ \A b \in Attempts : rows'[b].state = "none" => rows'[b].snap = None
                    /\ tree' = "dirty" => rows'[1].snap = "clean"
    BY <1>2, AttemptFacts, SMTT(30) DEF StoreInv
  <1>11. /\ owner' \in Procs /\ live' \subseteq Procs /\ effects' \in Seq(Effect') /\ tree' \in {"clean", "dirty"}
         /\ expired' \in BOOLEAN /\ crossed' \in [Attempts -> Nat] /\ faults' \in Nat /\ setting' \in Settings
    BY SettingKept DEF StoreInv
  <1> QED
    BY <1>2, <1>3, <1>4, <1>5, <1>6, <1>7, <1>8, <1>9, <1>10, <1>11, SettingKept DEF StoreInv

(* put inserts the row; a row that was running is adopted as it is; and    *)
(* the put of a row that is there by now is never attempted.               *)
LEMMA AdmitStep ==
  ASSUME IInv, NEW x \in Fibers, Admit(x)
  PROVE  IInv'
  <1> DEFINE a == f[x].attempt
             next == IF Tier = "compensable" THEN "preimage" ELSE "announce"
  <1>1. /\ Home[x] \in live /\ f[x].pc = "admit" /\ setting' = setting /\ owner' = owner /\ live' = live
        /\ journal' = journal /\ effects' = effects /\ tree' = tree /\ crossed' = crossed
        /\ expired' = expired /\ given' = given /\ faults' = faults
    BY DEF Admit, At, world
  <1>2. a \in Attempts /\ FiberInv(x) /\ StoreInv /\ rows \in [Attempts -> Row]
    BY FiberFacts
  <1>3. CASE ~Owned(x)
    <2>1. Parked(x) /\ rows' = rows
      BY <1>3 DEF Admit, CanPut
    <2> QED
      BY <1>1, <2>1, FiberFacts, NoGrowth, ParkStep
  <1>4. CASE Owned(x)
    <2> DEFINE w == [rows[a] EXCEPT !.state = "running"]
    <2>1. rows[a].state = IF f[x].adopted THEN "running" ELSE "none"
      BY <1>1, <1>2, <1>4 DEF FiberInv
    <2>2. /\ w \in Row /\ w.state = "running" /\ w.snap = rows[a].snap
          /\ (rows[a].state = "running" => w = rows[a])
      BY <1>2 DEF Row
    <2>3. Goto(x, next) /\ rows' = [rows EXCEPT ![a] = w]
      <3>1. CASE f[x].adopted
        <4>1. Goto(x, next) /\ rows' = rows
          BY <1>4, <3>1 DEF Admit
        <4> QED
          BY <1>2, <2>1, <2>2, <3>1, <4>1
      <3>2. CASE ~f[x].adopted
        <4>1. CanPut(x)
          BY <1>4, <2>1, <3>2 DEF CanPut
        <4> QED
          BY <1>4, <3>2, <4>1 DEF Admit
      <3> QED
        BY <3>1, <3>2
    <2> HIDE DEF w
    <2>4. PICK r \in Fiber :
            /\ f' = [f EXCEPT ![x] = r] /\ f'[x] = r
            /\ r.pc = next /\ r.attempt = f[x].attempt /\ r.adopted = f[x].adopted
            /\ r.snap = f[x].snap /\ r.memo = f[x].memo /\ r.exit = f[x].exit
      BY <2>3, FiberFacts, GotoFields DEF Phases
    <2>5. (~HostFails /\ OneBudget) => ~GaveUp
      BY <1>1, <1>2, <1>4, <2>1 DEF FiberInv
    <2>6. Orderly => /\ w.snap \in {None, "clean"} /\ (a = 1 /\ tree = "dirty" => w.snap = "clean")
      BY <1>2, <2>2 DEF StoreInv
    <2>7. StoreInv'
      BY <1>1, <1>2, <2>1, <2>2, <2>3, <2>5, <2>6, FiberFacts, RowWritten DEF FiberInv
    <2>8. /\ rows'[a] = w /\ \A b \in Attempts \ {a} : rows'[b] = rows[b]
      BY <1>2, <2>3
    <2>9. RowsMove(x) /\ Grows
      BY <1>1, <1>2, <1>4, <2>1, <2>2, <2>8, NoGrowth, AttemptFacts DEF RowsMove, Permitted
    <2>10. FiberInv(x)'
      <3>1. Owned(x)' /\ Owned(x)
        BY <1>1, <1>4, SettingKept DEF Owned
      <3>2. /\ f'[x] \in Fiber' /\ f'[x].pc = next /\ f'[x].attempt = a /\ f'[x].memo = f[x].memo
            /\ rows'[a].state = "running" /\ next \in {"preimage", "announce"} /\ a \in Nat
        BY <1>1, <1>2, <2>2, <2>4, <2>8, SettingKept, AttemptFacts
      <3>3. ~HostFails' => \A b \in Attempts : b < f'[x].attempt => Retryable(b)'
        BY <1>1, <1>2, <2>8, <3>2, SettingKept DEF FiberInv, GaveUp, Retryable
      <3>4. Unrepeatable' => f'[x].attempt = 1
        BY <1>1, <1>2, <3>2, SettingKept DEF FiberInv
      <3>5. (Solo' /\ ~HostFails') => \A b \in Attempts : b > f'[x].attempt => rows'[b].state = "none"
        BY <1>1, <1>2, <2>8, <3>1, <3>2, SettingKept DEF FiberInv, GaveUp, Retryable
      <3>6. ~(~HostFails' /\ OneBudget' /\ GaveUp')
        BY <1>1, <2>5, SettingKept DEF GaveUp
      <3>7. Orderly' =>
              /\ f'[x].pc = "preimage"
              /\ f'[x].memo = "dirty" => rows'[1].snap = "clean"
              /\ IF f'[x].adopted THEN f'[x].snap = rows'[a].snap ELSE rows'[a].snap = None
        <4> SUFFICES ASSUME Orderly
                     PROVE  /\ next = "preimage"
                            /\ f[x].memo = "dirty" => rows'[1].snap = "clean"
                            /\ IF f[x].adopted THEN f[x].snap = rows'[a].snap ELSE rows'[a].snap = None
          BY <1>1, <2>4, SettingKept
        <4>1. next = "preimage"
          BY DEF Orderly
        <4>2. f[x].memo = "dirty" => rows'[1].snap = "clean"
          BY <1>2, <2>9 DEF FiberInv, RowsMove
        <4>3. IF f[x].adopted THEN f[x].snap = rows[a].snap ELSE rows[a].snap = None
          BY <1>1, <1>2 DEF FiberInv
        <4> QED
          BY <2>2, <2>8, <4>1, <4>2, <4>3
      <3> QED
        BY <3>1, <3>2, <3>3, <3>4, <3>5, <3>6, <3>7 DEF FiberInv, Working
    <2>11. f[x].pc \in Permitted
      BY <1>1 DEF Permitted
    <2> QED
      BY <1>1, <1>4, <2>4, <2>7, <2>9, <2>10, <2>11, FiberStep DEF GaveUp
  <1> QED
    BY <1>3, <1>4

(* The pre-image is patched into a row that is still running.              *)
LEMMA AnnounceStep ==
  ASSUME IInv, NEW x \in Fibers, Announce(x)
  PROVE  IInv'
  <1> DEFINE a == f[x].attempt
             next == IF Effectful THEN "intend" ELSE "body"
             w == [rows[a] EXCEPT !.snap = f[x].snap]
  <1>1. /\ Home[x] \in live /\ f[x].pc = "announce" /\ setting' = setting /\ owner' = owner /\ live' = live
        /\ journal' = journal /\ effects' = effects /\ tree' = tree /\ crossed' = crossed
        /\ expired' = expired /\ given' = given /\ faults' = faults
    BY DEF Announce, At, world
  <1>2. a \in Attempts /\ FiberInv(x) /\ StoreInv /\ rows \in [Attempts -> Row] /\ a \in Nat
    BY FiberFacts
  <1>3. CASE ~Owned(x)
    <2>1. Parked(x) /\ rows' = rows
      BY <1>3 DEF Announce
    <2> QED
      BY <1>1, <2>1, FiberFacts, NoGrowth, ParkStep
  <1>4. CASE Owned(x)
    <2>1. rows[a].state = "running"
      BY <1>1, <1>2, <1>4 DEF FiberInv, Working
    <2>2. w \in Row /\ w.state = "running" /\ w.snap = f[x].snap
      BY <1>2, <2>1, FiberFacts, ZenonT(60) DEF Row, Fiber
    <2>3. Goto(x, next) /\ rows' = [rows EXCEPT ![a] = w]
      BY <1>2, <1>4 DEF Announce, Patch
    <2> HIDE DEF w
    <2>4. PICK r \in Fiber :
            /\ f' = [f EXCEPT ![x] = r] /\ f'[x] = r
            /\ r.pc = next /\ r.attempt = f[x].attempt /\ r.adopted = f[x].adopted
            /\ r.snap = f[x].snap /\ r.memo = f[x].memo /\ r.exit = f[x].exit
      BY <2>3, FiberFacts, GotoFields DEF Phases
    <2>5. (~HostFails /\ OneBudget) => ~GaveUp
      BY <1>1, <1>2, <1>4, <2>1 DEF FiberInv
    <2>6. Orderly => w.snap = "clean" /\ tree = "clean"
      BY <1>1, <1>2, <2>2 DEF FiberInv, Working
    <2>7. StoreInv'
      BY <1>1, <1>2, <2>1, <2>2, <2>3, <2>5, <2>6, FiberFacts, RowWritten DEF FiberInv
    <2>8. /\ rows'[a] = w /\ \A b \in Attempts \ {a} : rows'[b] = rows[b]
      BY <1>2, <2>3
    <2>9. RowsMove(x) /\ Grows
      BY <1>1, <1>2, <2>1, <2>2, <2>6, <2>8, NoGrowth, AttemptFacts DEF RowsMove
    <2>10. FiberInv(x)'
      <3>1. Owned(x)' /\ Owned(x)
        BY <1>1, <1>4, SettingKept DEF Owned
      <3>2. /\ f'[x] \in Fiber' /\ f'[x].pc = next /\ f'[x].attempt = a /\ f'[x].memo = f[x].memo
            /\ rows'[a].state = "running" /\ next \in {"intend", "body"} /\ f'[x].snap = f[x].snap
        BY <1>1, <1>2, <2>2, <2>4, <2>8, SettingKept
      <3>3. ~HostFails' => \A b \in Attempts : b < f'[x].attempt => Retryable(b)'
        BY <1>1, <1>2, <2>8, <3>2, SettingKept DEF FiberInv, GaveUp, Retryable
      <3>4. Unrepeatable' => f'[x].attempt = 1
        BY <1>1, <1>2, <3>2, SettingKept DEF FiberInv
      <3>5. (Solo' /\ ~HostFails') => \A b \in Attempts : b > f'[x].attempt => rows'[b].state = "none"
        BY <1>1, <1>2, <2>8, <3>1, <3>2, SettingKept, ZenonT(60) DEF FiberInv, GaveUp, Retryable
      <3>6. ~(~HostFails' /\ OneBudget' /\ GaveUp')
        BY <1>1, <2>5, SettingKept DEF GaveUp
      <3>7. Orderly' => /\ f'[x].memo = "dirty" => rows'[1].snap = "clean"
                       /\ f'[x].snap = "clean" /\ rows'[a].snap = "clean" /\ tree' = "clean"
        BY <1>1, <1>2, <2>2, <2>6, <2>8, <2>9, <3>2, SettingKept DEF FiberInv, RowsMove
      <3> QED
        BY <3>1, <3>2, <3>3, <3>4, <3>5, <3>6, <3>7 DEF FiberInv, Working
    <2>11. f[x].pc \in Permitted
      BY <1>1 DEF Permitted
    <2> QED
      BY <1>1, <1>4, <2>4, <2>7, <2>9, <2>10, <2>11, FiberStep DEF GaveUp
  <1> QED
    BY <1>3, <1>4

(* finish moves a running row to its terminal state.                       *)
LEMMA SettleStep ==
  ASSUME IInv, NEW x \in Fibers, Settle(x)
  PROVE  IInv'
  <1> DEFINE a == f[x].attempt
             v == f[x].exit
             w == Settled(x)
  <1>1. /\ Home[x] \in live /\ f[x].pc = "settle" /\ setting' = setting /\ owner' = owner /\ live' = live
        /\ effects' = effects /\ tree' = tree /\ crossed' = crossed /\ expired' = expired /\ faults' = faults
    BY DEF Settle, At, world
  <1>2. a \in Attempts /\ FiberInv(x) /\ StoreInv /\ rows \in [Attempts -> Row] /\ a \in Nat
    BY FiberFacts
  <1>3. CASE ~CanFinish(x)
    <2>1. Parked(x) /\ rows' = rows /\ journal' = journal /\ given' = given
      BY <1>3 DEF Settle
    <2> QED
      BY <1>1, <2>1, FiberFacts, NoGrowth, ParkStep
  <1>4. CASE CanFinish(x)
    <2>1. Owned(x) /\ rows[a].state = "running" /\ v \in Results \cup Failures
      BY <1>1, <1>2, <1>4 DEF CanFinish, FiberInv
    <2>2. /\ w \in Row /\ w.snap = f[x].snap
          /\ w.state = (IF v \in Failures THEN "failed" ELSE "succeeded")
          /\ w.outcome = v
      <3>1. f[x].snap \in {"clean", "dirty", None}
        BY FiberFacts DEF Fiber
      <3> QED
        BY <2>1, <3>1 DEF Row, Settled
    <2>3. rows' = [rows EXCEPT ![a] = w] /\ journal' = journal \cup {a}
      BY <1>2, <1>4 DEF Settle
    <2> HIDE DEF w
    <2>4. /\ v \in Failures => Goto(x, "retry") /\ given' = given
          /\ v \notin Failures => Gives(x, v) /\ given' = given \cup {v}
      BY <1>4, <2>1 DEF Settle, Gives
    <2>5. PICK r \in Fiber :
            /\ f' = [f EXCEPT ![x] = r] /\ f'[x] = r
            /\ r.pc = (IF v \in Failures THEN "retry" ELSE "done")
            /\ r.attempt = f[x].attempt /\ r.memo = f[x].memo /\ (v \in Failures => r.exit = v)
      <3>1. CASE v \in Failures
        BY <2>4, <3>1, FiberFacts, GotoFields DEF Phases
      <3>2. CASE v \notin Failures
        BY <2>1, <2>4, <3>2, FiberFacts, GivesFields
      <3> QED
        BY <3>1, <3>2
    <2>6. (~HostFails /\ OneBudget) => ~GaveUp
      BY <1>1, <1>2, <2>1 DEF FiberInv
    <2>7. Orderly => w.snap = "clean"
      BY <1>1, <1>2, <2>2 DEF FiberInv, Working
    <2>8. (v \notin Failures /\ Effectful) => Told(a, v)
      BY <1>1, <1>2 DEF FiberInv, Told
    <2>9. StoreInv'
      <3>1. given' = given \/ (w.state = "succeeded" /\ given' = given \cup {w.outcome})
        BY <2>2, <2>4
      <3>2. w.state = "succeeded" => w.outcome \in Results /\ (Effectful => Told(a, w.outcome))
        BY <2>1, <2>2, <2>8
      <3>3. ~HostFails => \A b \in Attempts : b < a => Retryable(b)
        BY <1>2 DEF FiberInv
      <3>4. Unrepeatable => a = 1
        BY <1>2 DEF FiberInv
      <3>5. journal' \subseteq Attempts /\ w.state # "none"
        BY <1>2, <2>2, <2>3, FiberFacts
      <3> QED
        BY <1>1, <1>2, <2>1, <2>2, <2>3, <2>6, <2>7, <3>1, <3>2, <3>3, <3>4, <3>5, RowWritten
    <2>10. /\ rows'[a] = w /\ \A b \in Attempts \ {a} : rows'[b] = rows[b]
      BY <1>2, <2>3
    <2>11. f[x].pc \in Permitted
      BY <1>1 DEF Permitted
    <2>12. RowsMove(x) /\ Grows
      BY <1>1, <1>2, <2>1, <2>2, <2>7, <2>10, <2>11, NoGrowth, AttemptFacts DEF RowsMove
    <2>13. GaveUp' => GaveUp
      BY <2>1, <2>4, FiberFacts, SettingTypes DEF GaveUp
    <2>14. FiberInv(x)'
      <3>1. Owned(x)' /\ Owned(x)
        BY <1>1, <2>1, SettingKept DEF Owned
      <3>2. /\ f'[x] \in Fiber' /\ f'[x].attempt = a /\ f'[x].memo = f[x].memo
            /\ f'[x].pc \in {"retry", "done"}
            /\ (f'[x].pc = "retry" => rows'[a].state = "failed" /\ rows'[a].outcome = f'[x].exit)
        BY <1>1, <1>2, <2>2, <2>5, <2>10, SettingKept
      <3>3. ~HostFails' => \A b \in Attempts : b < f'[x].attempt => Retryable(b)'
        BY <1>1, <1>2, <2>10, <3>2, SettingKept DEF FiberInv, GaveUp, Retryable
      <3>4. Unrepeatable' => f'[x].attempt = 1
        BY <1>1, <1>2, <3>2, SettingKept DEF FiberInv
      <3>5. (Solo' /\ ~HostFails') => \A b \in Attempts : b > f'[x].attempt => rows'[b].state = "none"
        BY <1>1, <1>2, <2>10, <3>1, <3>2, SettingKept DEF FiberInv, GaveUp, Retryable
      <3>6. ~(~HostFails' /\ OneBudget' /\ GaveUp')
        BY <1>1, <2>6, <2>13, SettingKept
      <3>7. Orderly' => (f'[x].memo = "dirty" => rows'[1].snap = "clean")
        BY <1>1, <1>2, <2>12, <3>2, SettingKept DEF FiberInv, RowsMove
      <3> QED
        BY <3>1, <3>2, <3>3, <3>4, <3>5, <3>6, <3>7 DEF FiberInv, Working
    <2> QED
      BY <1>1, <2>1, <2>5, <2>9, <2>11, <2>12, <2>13, <2>14, FiberStep
  <1> QED
    BY <1>3, <1>4

---------------------------------------------------------------------------
(* Faults, and the clock.                                                  *)

(* An idle fiber satisfies its part whatever else has happened.            *)
LEMMA IdleFiber ==
  ASSUME NEW x \in Fibers, setting' = setting, f'[x] = Idle
  PROVE  FiberInv(x)'
  <1>1. /\ Idle \in Fiber /\ Idle.pc = "idle" /\ Idle.attempt = 1 /\ Idle.memo = None
        /\ "idle" \notin Working /\ None # "dirty"
    BY DispatchAssumption DEF Idle, Fiber, Phases, Attempts, Working
  <1>2. /\ f'[x] \in Fiber' /\ f'[x].pc = "idle" /\ f'[x].attempt = 1 /\ f'[x].memo # "dirty"
        /\ \A b \in Attempts : ~(b < 1)
    BY <1>1, SettingKept, DispatchAssumption DEF Attempts
  <1> QED
    BY <1>1, <1>2 DEF FiberInv

(* A crash takes the fibers of one process and nothing durable.            *)
LEMMA CrashStep ==
  ASSUME IInv, NEW p \in Procs, Crash(p)
  PROVE  IInv'
  <1>1. /\ f' = [x \in Fibers |-> IF Home[x] = p THEN Idle ELSE f[x]] /\ live' = live \ {p}
        /\ faults' = faults + 1 /\ setting' = setting /\ owner' = owner /\ rows' = rows
        /\ journal' = journal /\ effects' = effects /\ tree' = tree /\ crossed' = crossed
        /\ expired' = expired /\ given' = given
    BY DEF Crash, store, world
  <1>2. /\ StoreInv /\ f \in [Fibers -> Fiber] /\ DeadIdle /\ PermitHeld /\ \A x \in Fibers : FiberInv(x)
        /\ owner \in Procs /\ live \subseteq Procs /\ faults \in Nat /\ effects \in Seq(Effect)
        /\ journal \subseteq Attempts /\ crossed \in [Attempts -> Nat] /\ tree \in {"clean", "dirty"}
        /\ given \subseteq Results \cup Verdicts /\ (Orderly /\ tree = "dirty" => rows[1].snap = "clean")
    BY Parts DEF StoreInv
  <1>3. Idle \in Fiber /\ Idle.pc = "idle" /\ "idle" \notin Permitted
    BY DispatchAssumption DEF Idle, Fiber, Phases, Attempts, Permitted
  <1>4. f' \in [Fibers -> Fiber'] /\ DeadIdle' /\ PermitHeld'
    BY <1>1, <1>2, <1>3, SettingKept DEF DeadIdle, PermitHeld
  <1>5. StoreInv'
    <2>1. GivesWell /\ Grows /\ faults' \in Nat /\ live' \subseteq Procs
      BY <1>1, <1>2, NoGrowth DEF GivesWell
    <2> QED
      BY <1>1, <1>2, <2>1, StoreKept
  <1>6. ASSUME NEW x \in Fibers PROVE FiberInv(x)'
    <2>1. CASE Home[x] = p
      BY <1>1, <2>1, IdleFiber
    <2>2. CASE Home[x] # p
      <3>1. f'[x] = f[x] /\ Owned(x)' = Owned(x) /\ FiberInv(x)
        BY <1>1, <1>2, <2>2, SettingKept DEF Owned
      <3> QED
        BY <1>1, <3>1, SettingKept DEF FiberInv, Recorded, GaveUp, Retryable
    <2> QED
      BY <2>1, <2>2
  <1> QED
    BY <1>4, <1>5, <1>6, PartsNext

(* The fibers of the new owner are idle, and those of any other process    *)
(* are fenced out.                                                         *)
LEMMA TakeOverStep ==
  ASSUME IInv, NEW q \in Procs, TakeOver(q)
  PROVE  IInv'
  <1>1. /\ f' = [x \in Fibers |-> IF Home[x] = q THEN Idle ELSE f[x]] /\ live' = live
        /\ setting' = setting /\ owner' = q /\ rows' = rows
        /\ journal' = journal /\ effects' = effects /\ tree' = tree /\ crossed' = crossed
        /\ expired' = expired /\ given' = given /\ (~Steals => owner \notin live)
    BY DEF TakeOver, store, world
  <1>2. /\ StoreInv /\ f \in [Fibers -> Fiber] /\ DeadIdle /\ PermitHeld /\ \A x \in Fibers : FiberInv(x)
        /\ owner \in Procs /\ live \subseteq Procs /\ faults \in Nat /\ effects \in Seq(Effect)
        /\ journal \subseteq Attempts /\ crossed \in [Attempts -> Nat] /\ tree \in {"clean", "dirty"}
        /\ given \subseteq Results \cup Verdicts /\ (Orderly /\ tree = "dirty" => rows[1].snap = "clean")
    BY Parts DEF StoreInv
  <1>3. Idle \in Fiber /\ Idle.pc = "idle" /\ "idle" \notin Permitted
    BY DispatchAssumption DEF Idle, Fiber, Phases, Attempts, Permitted
  <1>4. f' \in [Fibers -> Fiber'] /\ DeadIdle' /\ PermitHeld'
    BY <1>1, <1>2, <1>3, SettingKept DEF DeadIdle, PermitHeld
  <1>5. StoreInv'
    <2>1. faults' = faults + 1 \/ faults' = faults
      BY DEF TakeOver
    <2>2. GivesWell /\ Grows /\ faults' \in Nat
      BY <1>1, <1>2, <2>1, NoGrowth DEF GivesWell
    <2> QED
      BY <1>1, <1>2, <2>2, StoreKept
  <1>6. ASSUME NEW x \in Fibers PROVE FiberInv(x)'
    <2>1. CASE Home[x] = q
      BY <1>1, <2>1, IdleFiber
    <2>2. CASE Home[x] # q
      <3>1. f'[x] = f[x] /\ ~Owned(x)' /\ FiberInv(x)
        BY <1>1, <1>2, <2>2, SettingKept DEF Owned
      <3>2. Orderly => f[x].pc = "idle"
        BY <1>1, <1>2 DEF FiberInv, Orderly, Owned, DeadIdle
      <3> QED
        BY <1>1, <3>1, <3>2, SettingKept DEF FiberInv, Recorded, Working, GaveUp, Retryable
    <2> QED
      BY <2>1, <2>2
  <1> QED
    BY <1>4, <1>5, <1>6, PartsNext

(* The budget runs out.                                                    *)
LEMMA ExpireStep ==
  ASSUME IInv, Expire
  PROVE  IInv'
  <1>1. /\ f' = f /\ live' = live /\ faults' = faults
        /\ setting' = setting /\ owner' = owner /\ rows' = rows
        /\ journal' = journal /\ effects' = effects /\ tree' = tree /\ crossed' = crossed
        /\ given' = given /\ Expires /\ expired' = TRUE
    BY DEF Expire, store, world
  <1>2. /\ StoreInv /\ f \in [Fibers -> Fiber] /\ DeadIdle /\ PermitHeld /\ \A x \in Fibers : FiberInv(x)
    BY Parts
  <1>3. f' \in [Fibers -> Fiber'] /\ DeadIdle' /\ PermitHeld'
    BY <1>1, <1>2, SettingKept DEF DeadIdle, PermitHeld
  <1>4. ASSUME NEW x \in Fibers PROVE FiberInv(x)'
    <2>1. Owned(x)' = Owned(x) /\ FiberInv(x)
      BY <1>1, <1>2, SettingKept DEF Owned
    <2> QED
      BY <1>1, <2>1, SettingKept DEF FiberInv, Recorded, GaveUp, Retryable
  <1>5. SuccessRecorded' /\ GivenDurable' /\ BudgetDeclared'
    <2>1. SuccessRecorded' /\ GivenDurable'
      BY <1>1, <1>2, SettingKept DEF StoreInv, SuccessRecorded, GivenDurable, Recorded
    <2>2. BudgetDeclared'
      BY <1>1, SettingKept DEF BudgetDeclared
    <2> QED
      BY <2>1, <2>2
  <1>6. StoreInv'
    <2>1. (~HostFails /\ OneBudget) => \A v \in given \cap Verdicts : \E a \in Attempts : Final(a, v)'
      BY <1>1, <1>2, FinalKept DEF StoreInv
    <2> QED
      BY <1>1, <1>2, <1>5, <2>1, SettingKept DEF StoreInv, Retryable
  <1> QED
    BY <1>3, <1>4, <1>6, PartsNext

(* Every step keeps the invariant.                                         *)
LEMMA NextIInv ==
  ASSUME IInv, [Next]_vars
  PROVE  IInv'
  <1>1. CASE UNCHANGED vars
    <2>1. /\ f' = f /\ live' = live /\ faults' = faults /\ expired' = expired
          /\ setting' = setting /\ owner' = owner /\ rows' = rows
          /\ journal' = journal /\ effects' = effects /\ tree' = tree /\ crossed' = crossed /\ given' = given
      BY <1>1 DEF vars, store, world
    <2>2. /\ StoreInv /\ f \in [Fibers -> Fiber] /\ DeadIdle /\ PermitHeld /\ \A x \in Fibers : FiberInv(x)
          /\ owner \in Procs /\ live \subseteq Procs /\ faults \in Nat /\ effects \in Seq(Effect)
          /\ journal \subseteq Attempts /\ crossed \in [Attempts -> Nat] /\ tree \in {"clean", "dirty"}
          /\ given \subseteq Results \cup Verdicts /\ (Orderly /\ tree = "dirty" => rows[1].snap = "clean")
      BY Parts DEF StoreInv
    <2>3. f' \in [Fibers -> Fiber'] /\ DeadIdle' /\ PermitHeld'
      BY <2>1, <2>2, SettingKept DEF DeadIdle, PermitHeld
    <2>4. StoreInv'
      <3>1. GivesWell /\ Grows
        BY <2>1, <2>2, NoGrowth DEF GivesWell
      <3> QED
        BY <2>1, <2>2, <3>1, StoreKept
    <2>5. ASSUME NEW x \in Fibers PROVE FiberInv(x)'
      <3>1. Owned(x)' = Owned(x) /\ FiberInv(x)
        BY <2>1, <2>2, SettingKept DEF Owned
      <3> QED
        BY <2>1, <3>1, SettingKept DEF FiberInv, Recorded, GaveUp, Retryable
    <2> QED
      BY <2>3, <2>4, <2>5, PartsNext
  <1>2. CASE \E x \in Fibers : Step(x)
    BY <1>2, EnterStep, RetryStep, FenceStep, AcquireStep, ReadStep, AdmitStep, TakePreImageStep,
       AnnounceStep, IntendStep, CrossStep, BodyEndsStep, SettleEffectStep, SettleStep DEF Step
  <1>3. CASE \E x \in Fibers : Redrive(x) \/ PreImageFails(x) \/ Interrupt(x)
    BY <1>3, RedriveStep, PreImageFailsStep, InterruptStep
  <1>4. CASE \E p \in Procs : Crash(p) \/ TakeOver(p)
    BY <1>4, CrashStep, TakeOverStep
  <1>5. CASE Expire
    BY <1>5, ExpireStep
  <1> QED
    BY <1>1, <1>2, <1>3, <1>4, <1>5 DEF Next

(* The invariant holds in every reachable state, whatever the action       *)
(* declares and whoever crashes, steals, interrupts or fails.              *)
THEOREM Invariance == Spec => []IInv
  <1>1. Init => IInv
    BY InitIInv
  <1>2. IInv /\ [Next]_vars => IInv'
    BY NextIInv
  <1> QED
    BY <1>1, <1>2, PTL DEF Spec

(* ActionPersistence's permit and fence: no two fibers that can still      *)
(* settle are in the body of the action together.                          *)
THEOREM BodiesExclude == Spec => []OneBody
  <1>1. IInv => OneBody
    BY ZenonT(60) DEF IInv, PermitHeld, OneBody, Owned, Permitted
  <1> QED
    BY <1>1, Invariance, PTL

(* The boundary record precedes the row: every durable success of an       *)
(* effectful action is in the journal with the row's outcome.              *)
THEOREM SuccessTold == Spec => []SuccessRecorded
  <1>1. IInv => SuccessRecorded
    BY DEF IInv
  <1> QED
    BY <1>1, Invariance, PTL

(* Every value a flow was given is the outcome of a succeeded row, with    *)
(* any number of failing hosts and shared budgets.                         *)
THEOREM ValuesDurable == Spec => []GivenDurable
  <1>1. IInv => GivenDurable
    BY DEF IInv
  <1> QED
    BY <1>1, Invariance, PTL

(* Two failures that are final are the same.                               *)
LEMMA OneFinal ==
  ASSUME IInv, OneBudget, NEW a \in Attempts, NEW b \in Attempts, NEW v \in Verdicts, NEW w \in Verdicts,
         Final(a, v), Final(b, w)
  PROVE  v = w
  <1>1. a \in Nat /\ b \in Nat
    BY AttemptFacts
  <1>2. a = b
    BY <1>1 DEF Final
  <1>3. (v = "fatal" <=> w = "fatal") /\ (v = "exhausted" <=> w = "exhausted")
    BY <1>2 DEF Final
  <1>4. ~(expired /\ Unrepeatable)
    BY DEF IInv, BudgetDeclared, OneBudget
  <1> QED
    BY <1>3, <1>4 DEF Final, Verdicts

(* A flow is given one outcome for the action, a value, an error or a      *)
(* verdict, unless a host fails or a budget that more than one verdict can *)
(* be the first to end runs out.                                           *)
THEOREM OutcomeUnique == Spec => []OneOutcome
  <1>1. IInv => OneOutcome
    <2> SUFFICES ASSUME IInv, OneBudget, ~HostFails
                 PROVE  /\ Cardinality(given) <= 1
                        /\ \A v \in given \cap Results :
                             \E a \in Attempts : rows[a].state = "succeeded" /\ rows[a].outcome = v
      BY DEF OneOutcome
    <2>1. \A v \in given \cap Results :
             \E a \in Attempts : rows[a].state = "succeeded" /\ rows[a].outcome = v
      BY DEF IInv, GivenDurable
    <2>2. \A v \in given \cap Verdicts : \E a \in Attempts : Final(a, v)
      BY DEF IInv, FailureFinal
    <2>3. \A a, b \in Attempts : rows[a].state = "succeeded" /\ rows[b].state = "succeeded" => a = b
      <3> SUFFICES ASSUME NEW a \in Attempts, NEW b \in Attempts,
                          rows[a].state = "succeeded", rows[b].state = "succeeded", a # b
                   PROVE  FALSE
        OBVIOUS
      <3>1. a < b \/ b < a
        BY AttemptFacts
      <3> QED
        BY <3>1 DEF IInv, Chained, Retryable
    <2>4. given \subseteq Results \cup Verdicts
      BY DEF IInv, TypeOK
    <2>5. ASSUME NEW v \in given, NEW w \in given PROVE v = w
      <3>1. CASE v \in Verdicts /\ w \in Verdicts
        BY <2>2, <3>1, OneFinal
      <3>2. CASE v \in Results /\ w \in Results
        BY <2>1, <2>3, <3>2
      <3>3. ASSUME NEW y \in given \cap Results, NEW z \in given \cap Verdicts PROVE FALSE
        <4>1. PICK a \in Attempts : rows[a].state = "succeeded"
          BY <2>1
        <4>2. PICK b \in Attempts : Final(b, z)
          BY <2>2
        <4> QED
          BY <4>1, <4>2 DEF Final
      <3> QED
        BY <2>4, <3>1, <3>2, <3>3
    <2>6. Cardinality(given) <= 1
      <3>1. CASE given = {}
        BY <3>1, FS_EmptySet
      <3>2. CASE given # {}
        <4>1. PICK v : v \in given
          BY <3>2
        <4>2. given = {v}
          BY <2>5, <4>1
        <4>3. Cardinality({v}) = 1
          BY FS_Singleton
        <4> QED
          BY <4>2, <4>3
      <3> QED
        BY <3>1, <3>2
    <2> QED
      BY <2>1, <2>6
  <1> QED
    BY <1>1, Invariance, PTL

(* Over a working copy, every body begins on the tree the first attempt    *)
(* found, when processes follow one another and no host call fails.        *)
THEOREM StartsClean == Spec => []CleanStart
  <1>1. IInv => CleanStart
    BY SMTT(30) DEF IInv, PreImagesClean, CleanStart, At
  <1> QED
    BY <1>1, Invariance, PTL

(* A terminal attempt row is never written again: not by a late settle, a  *)
(* second admission or a stale pre-image.                                  *)
THEOREM RowsFinal ==
  Spec => [][\A a \in Attempts : rows[a].state \in {"succeeded", "failed"} => rows'[a] = rows[a]]_vars
  <1>1. ASSUME IInv, [Next]_vars
        PROVE  [\A a \in Attempts : rows[a].state \in {"succeeded", "failed"} => rows'[a] = rows[a]]_vars
    <2> SUFFICES ASSUME Next, NEW a \in Attempts, rows[a].state \in {"succeeded", "failed"}
                 PROVE  rows'[a] = rows[a]
      BY <1>1
    <2>1. rows \in [Attempts -> Row]
      BY <1>1 DEF IInv, TypeOK
    <2>2. CASE rows' = rows
      BY <2>2
    <2>3. CASE \E x \in Fibers : Admit(x)
      BY <2>1, <2>3 DEF Admit, CanPut
    <2>4. CASE \E x \in Fibers : Announce(x)
      BY <1>1, <2>1, <2>4 DEF Announce, Patch, At, IInv, RunningHeld, Working
    <2>5. CASE \E x \in Fibers : Settle(x)
      BY <2>1, <2>5 DEF Settle, CanFinish
    <2> QED
      BY <2>2, <2>3, <2>4, <2>5, ZenonT(60) DEF Next, Step, Enter, Retry, Redrive, Fence, Acquire, Read, TakePreImage,
         PreImageFails, Intend, Cross, BodyEnds, SettleEffect, Interrupt, Crash, TakeOver, Expire, store
  <1> QED
    BY <1>1, Invariance, PTL DEF Spec
============================================================================
