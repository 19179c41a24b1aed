-------------------------- MODULE RunCoordinator --------------------------
(***************************************************************************)
(* The keyed drain coordinator of one engine process                       *)
(* (packages/engine-store/src/internal/RunCoordinator.ts): run starts or   *)
(* joins the drain of a key, wake makes one more drain follow, interrupt   *)
(* stops the drain and drops the wakes it has not served.                  *)
(*                                                                         *)
(* active[k]   the entry the map holds for key k                           *)
(* entries[e]  an Entry object: its flags, its owner fiber, its done       *)
(*             deferred ("open" until completed)                           *)
(* fibers[f]   a fiber of the FiberSet; "forked" until its drain begins    *)
(* callers[c]  a fiber inside run(key)                                     *)
(* closed      the coordinator's scope was closed                          *)
(* owed[k]     (history) a wake of k has not yet been followed by the      *)
(*             beginning of a drain, nor been dropped by an interruption   *)
(*                                                                         *)
(* JavaScript runs one synchronous stretch at a time, so each operation is *)
(* one step up to the first await.  Entry and fiber identities are reused  *)
(* once nothing refers to them.  The force argument is left out: the only  *)
(* drain in the repository, RunDriver.drive, does not take it.             *)
(***************************************************************************)
EXTENDS Naturals

CONSTANTS Keys, Callers, Entries, Fibers, None

ASSUME NoneAssumption == None \notin Keys \cup Entries \cup Fibers

VARIABLES active, entries, fibers, callers, closed, owed

vars == <<active, entries, fibers, callers, closed, owed>>

Entry == [pendingWake : BOOLEAN, stopping : BOOLEAN,
          done : {"open", "ok", "failed"}, owner : Fibers \cup {None}]

Fiber == [phase : {"ended", "forked", "draining"}, key : Keys \cup {None},
          entry : Entries \cup {None}, interrupted : BOOLEAN]

Caller == [phase : {"idle", "waiting", "again", "returned"},
           key : Keys \cup {None}, entry : Entries \cup {None},
           joinedStopping : BOOLEAN]

NoEntry == [pendingWake |-> FALSE, stopping |-> FALSE,
            done |-> "failed", owner |-> None]

NoFiber == [phase |-> "ended", key |-> None, entry |-> None, interrupted |-> FALSE]

NoCaller == [phase |-> "idle", key |-> None, entry |-> None, joinedStopping |-> FALSE]

Init ==
    /\ active = [k \in Keys |-> None]
    /\ entries = [e \in Entries |-> NoEntry]
    /\ fibers = [f \in Fibers |-> NoFiber]
    /\ callers = [c \in Callers |-> NoCaller]
    /\ closed = FALSE
    /\ owed = [k \in Keys |-> FALSE]

---------------------------------------------------------------------------
Live(f) == fibers[f].phase # "ended"

FreeFibers == {f \in Fibers : ~Live(f)}

FreeEntries ==
    {e \in Entries :
        /\ \A k \in Keys : active[k] # e
        /\ \A f \in Fibers : Live(f) => fibers[f].entry # e
        /\ \A c \in Callers : callers[c].phase = "waiting" => callers[c].entry # e}

FreshFiber == CHOOSE f \in FreeFibers : TRUE

FreshEntry == CHOOSE e \in FreeEntries : TRUE

(* makeEntry, and the owner start gives it.                                *)
MakeEntry(f) ==
    [pendingWake |-> FALSE, stopping |-> FALSE, done |-> "open", owner |-> f]

(* start: a fiber forked into a closed FiberSet is interrupted at once.    *)
Start(key, entry) ==
    [phase |-> "forked", key |-> key, entry |-> entry, interrupted |-> closed]

(* A settled entry: only its done is read again.                           *)
Answered(exit) == [NoEntry EXCEPT !.done = exit]

(* A new entry of key k with its fiber: run and wake on an idle key.       *)
StartNew(k) ==
    /\ FreeEntries # {} /\ FreeFibers # {}
    /\ active' = [active EXCEPT ![k] = FreshEntry]
    /\ entries' = [entries EXCEPT ![FreshEntry] = MakeEntry(FreshFiber)]
    /\ fibers' = [fibers EXCEPT ![FreshFiber] = Start(k, FreshEntry)]

---------------------------------------------------------------------------
(* run(key): join the active entry, or start one.  A caller that returned  *)
(* may call again.  Phase "again" is the call run makes once the stopping  *)
(* entry it waited for is done.                                            *)
Waiting(k, e, stopping) ==
    [phase |-> "waiting", key |-> k, entry |-> e, joinedStopping |-> stopping]

Calls(c, k) ==
    \/ callers[c].phase \in {"idle", "returned"}
    \/ callers[c].phase = "again" /\ callers[c].key = k

RunJoins(c, k) ==
    /\ Calls(c, k)
    /\ active[k] # None
    /\ callers' = [callers EXCEPT ![c] =
                      Waiting(k, active[k], entries[active[k]].stopping)]
    /\ UNCHANGED <<active, entries, fibers, closed, owed>>

RunStarts(c, k) ==
    /\ Calls(c, k)
    /\ active[k] = None
    /\ StartNew(k)
    /\ callers' = [callers EXCEPT ![c] = Waiting(k, FreshEntry, FALSE)]
    /\ UNCHANGED <<closed, owed>>

(* await(done).andThen(run(key)): a failed done skips the second call.     *)
RunReturns(c) ==
    LET done == entries[callers[c].entry].done IN
    /\ callers[c].phase = "waiting"
    /\ done # "open"
    /\ callers' = [callers EXCEPT
          ![c].phase = IF callers[c].joinedStopping /\ done = "ok"
                       THEN "again" ELSE "returned",
          ![c].entry = None]
    /\ UNCHANGED <<active, entries, fibers, closed, owed>>

(* The wait is interruptible; the drain it waits for goes on.              *)
RunAbandoned(c) ==
    /\ callers[c].phase = "waiting"
    /\ callers' = [callers EXCEPT ![c] = NoCaller]
    /\ UNCHANGED <<active, entries, fibers, closed, owed>>

---------------------------------------------------------------------------
(* Mutant: a wake always starts a drain of its own.                        *)
WakeStarts(k) ==
    /\ StartNew(k)
    /\ owed' = [owed EXCEPT ![k] = ~closed]
    /\ UNCHANGED <<callers, closed>>

Wake(k) ==
    /\ \/ /\ active[k] # None
          /\ entries' = [entries EXCEPT ![active[k]].pendingWake = TRUE]
          /\ UNCHANGED <<active, fibers>>
       \/ /\ active[k] = None
          /\ StartNew(k)
    /\ owed' = [owed EXCEPT ![k] = ~closed]
    /\ UNCHANGED <<callers, closed>>

Interrupt(k) ==
    /\ active[k] # None
    /\ entries' = [entries EXCEPT ![active[k]].stopping = TRUE,
                                  ![active[k]].pendingWake = FALSE]
    /\ fibers' = [fibers EXCEPT ![entries[active[k]].owner].interrupted = TRUE]
    /\ owed' = [owed EXCEPT ![k] = FALSE]
    /\ UNCHANGED <<active, callers, closed>>

(* The FiberSet's finalizer interrupts every fiber; stopping is not set.   *)
Close ==
    /\ ~closed
    /\ closed' = TRUE
    /\ fibers' = [f \in Fibers |->
                     IF Live(f) THEN [fibers[f] EXCEPT !.interrupted = TRUE]
                                ELSE fibers[f]]
    /\ owed' = [k \in Keys |-> FALSE]
    /\ UNCHANGED <<active, entries, callers>>

---------------------------------------------------------------------------
(* The fiber passes its first await and the drain reads its key's state.   *)
BeginDrain(f) ==
    /\ fibers[f].phase = "forked"
    /\ ~fibers[f].interrupted
    /\ fibers' = [fibers EXCEPT ![f].phase = "draining"]
    /\ owed' = [owed EXCEPT ![fibers[f].key] = FALSE]
    /\ UNCHANGED <<active, entries, callers, closed>>

(* A fiber may exit once its drain began, with either exit (a drain that   *)
(* ends in an uninterruptible region may succeed after its interruption),  *)
(* and before that if it was interrupted.                                  *)
Exits(f, exit) ==
    \/ fibers[f].phase = "draining"
    \/ fibers[f].phase = "forked" /\ fibers[f].interrupted /\ exit = "failed"

(* settle: the same entry drains once more ...                             *)
SettleContinues(f, exit) ==
    LET e == fibers[f].entry IN
    /\ Exits(f, exit)
    /\ exit = "ok" /\ ~entries[e].stopping /\ entries[e].pendingWake
    /\ FreeFibers # {}
    /\ entries' = [entries EXCEPT ![e].pendingWake = FALSE, ![e].owner = FreshFiber]
    /\ fibers' = [fibers EXCEPT ![f] = NoFiber,
                                ![FreshFiber] = Start(fibers[f].key, e)]
    /\ UNCHANGED <<active, callers, closed, owed>>

(* ... or a wake that came during a failed or stopped drain gets an entry  *)
(* of its own, and the callers of the old one are answered ...             *)
SettleReplaces(f, exit) ==
    LET e == fibers[f].entry
        k == fibers[f].key
    IN
    /\ Exits(f, exit)
    /\ exit = "failed" \/ entries[e].stopping
    /\ entries[e].pendingWake
    /\ FreeEntries # {} /\ FreeFibers # {}
    /\ active' = [active EXCEPT ![k] = FreshEntry]
    /\ entries' = [entries EXCEPT ![e] = Answered(exit),
                                  ![FreshEntry] = MakeEntry(FreshFiber)]
    /\ fibers' = [fibers EXCEPT ![f] = NoFiber, ![FreshFiber] = Start(k, FreshEntry)]
    /\ UNCHANGED <<callers, closed, owed>>

(* Mutant: settle drops a pending wake with the entry.                     *)
SettleDrops(f, exit) ==
    /\ Exits(f, exit)
    /\ active' = [active EXCEPT ![fibers[f].key] = None]
    /\ entries' = [entries EXCEPT ![fibers[f].entry] = Answered(exit)]
    /\ fibers' = [fibers EXCEPT ![f] = NoFiber]
    /\ UNCHANGED <<callers, closed, owed>>

(* Mutant: settle frees the key and leaves done open.                      *)
SettleSilently(f, exit) ==
    /\ Exits(f, exit)
    /\ ~entries[fibers[f].entry].pendingWake
    /\ active' = [active EXCEPT ![fibers[f].key] = None]
    /\ fibers' = [fibers EXCEPT ![f] = NoFiber]
    /\ UNCHANGED <<entries, callers, closed, owed>>

(* ... or the key is idle again.                                           *)
SettleRemoves(f, exit) ==
    /\ Exits(f, exit)
    /\ ~entries[fibers[f].entry].pendingWake
    /\ active' = [active EXCEPT ![fibers[f].key] = None]
    /\ entries' = [entries EXCEPT ![fibers[f].entry] = Answered(exit)]
    /\ fibers' = [fibers EXCEPT ![f] = NoFiber]
    /\ UNCHANGED <<callers, closed, owed>>

Settle(f) ==
    \E exit \in {"ok", "failed"} :
        SettleContinues(f, exit) \/ SettleReplaces(f, exit) \/ SettleRemoves(f, exit)

---------------------------------------------------------------------------
Next ==
    \/ \E c \in Callers, k \in Keys : RunJoins(c, k)
    \/ \E c \in Callers, k \in Keys : RunStarts(c, k)
    \/ \E c \in Callers : RunReturns(c)
    \/ \E c \in Callers : RunAbandoned(c)
    \/ \E k \in Keys : Wake(k)
    \/ \E k \in Keys : Interrupt(k)
    \/ Close
    \/ \E f \in Fibers : BeginDrain(f)
    \/ \E f \in Fibers : Settle(f)

(* The scheduler resumes every fiber that can go on, and every drain ends. *)
Fairness ==
    /\ \A f \in Fibers : WF_vars(BeginDrain(f)) /\ WF_vars(Settle(f))
    /\ \A c \in Callers : WF_vars(RunReturns(c))

Spec == Init /\ [][Next]_vars /\ Fairness

---------------------------------------------------------------------------
TypeOK ==
    /\ active \in [Keys -> Entries \cup {None}]
    /\ entries \in [Entries -> Entry]
    /\ fibers \in [Fibers -> Fiber]
    /\ callers \in [Callers -> Caller]
    /\ closed \in BOOLEAN
    /\ owed \in [Keys -> BOOLEAN]

(* Two drains of one key never overlap, through any mix of joins, wakes,   *)
(* interruptions whose cleanup is pending, and failures.                   *)
OneDrainPerKey ==
    \A f, g \in Fibers :
        (Live(f) /\ Live(g) /\ fibers[f].key = fibers[g].key) => f = g

(* The map, the Entry objects and the fibers refer to one another: a live  *)
(* fiber owns the entry the map holds for its key, and an entry in the map *)
(* has a live owner, so an interruption reaches somebody.                  *)
Coherent ==
    /\ \A f \in Fibers : Live(f) =>
          /\ fibers[f].key \in Keys /\ fibers[f].entry \in Entries
          /\ active[fibers[f].key] = fibers[f].entry
          /\ entries[fibers[f].entry].owner = f
    /\ \A k \in Keys : active[k] # None =>
          LET f == entries[active[k]].owner IN
          f \in Fibers /\ Live(f) /\ fibers[f].key = k

(* A wake that is owed a drain is on record: as the pendingWake of the     *)
(* active entry, or as a forked fiber that nothing keeps from draining.    *)
WakeRemembered ==
    \A k \in Keys : owed[k] =>
        /\ ~closed /\ active[k] # None
        /\ \/ entries[active[k]].pendingWake
           \/ \E f \in Fibers : /\ fibers[f].key = k
                               /\ fibers[f].phase = "forked" /\ ~fibers[f].interrupted

(* A caller inside run waits for an entry that is answered already, or     *)
(* that is active and so has a fiber that will answer it.                  *)
WaitersServed ==
    \A c \in Callers : callers[c].phase = "waiting" =>
        /\ callers[c].key \in Keys /\ callers[c].entry \in Entries
        /\ \/ entries[callers[c].entry].done # "open"
           \/ active[callers[c].key] = callers[c].entry

IInv == TypeOK /\ Coherent /\ WakeRemembered /\ WaitersServed

(* Every wake is followed by a drain, or dropped by an interruption.       *)
WakeLeadsToDrain == \A k \in Keys : owed[k] ~> ~owed[k]

(* Every call of run returns once wakes stop arriving: wakes that keep     *)
(* arriving keep one entry draining, and its callers waiting.              *)
RunLeadsToReturn ==
    (<>[](\A k \in Keys : active[k] # None => ~entries[active[k]].pendingWake))
    => \A c \in Callers :
          callers[c].phase = "waiting" ~> callers[c].phase # "waiting"

===========================================================================
