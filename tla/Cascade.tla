------------------------------ MODULE Cascade ------------------------------
(***************************************************************************)
(* Executions that spawn, await, hand off and cancel one another: the      *)
(* parent-edge table of DurableEngineState.ts and the admission, cascade   *)
(* and handoff transactions of RunDriver.ts.                               *)
(*                                                                         *)
(* row[r]      the status of r's run row, "absent" before it is created    *)
(* cancel[r]   cancel_requested_at_ms of the row is set                    *)
(* edges       flows_run_parents, as pairs <<child, parent>>               *)
(* next[r]     the round that r handed off to                              *)
(* awaits[r]   the execution whose drain the body of r awaits through      *)
(*             coordinator.run                                             *)
(* interrupted the running instances that FlowEngine.interrupt has marked  *)
(* displaced   runs of which a process that lost the lease has a body left *)
(* bodies      what the flows are written to do, fixed from the start      *)
(*                                                                         *)
(* One process drives every run, which is when waits can form a circle; a  *)
(* cancellation also comes from another.  Each transaction of the code is  *)
(* one step, as DurableWriter serializes them.  How a row is claimed and   *)
(* settled is RunDriver's and RunStore's; failed counts as completed.      *)
(***************************************************************************)
EXTENDS Naturals

CONSTANTS
    Runs, None,
    NextRound,  \* the derived id of a run's next round, None when it has no budget
    Bodies      \* what the flow bodies do: records of handOffs and diamonds

ASSUME NextRoundAssumption ==
    /\ None \notin Runs
    /\ NextRound \in [Runs -> Runs \cup {None}]

VARIABLES row, cancel, edges, next, awaits, interrupted, displaced, bodies

vars == <<row, cancel, edges, next, awaits, interrupted, displaced, bodies>>

(* Bodies may hand off.                                                    *)
HandOffs == bodies.handOffs

(* Bodies may execute a run that another parent created.                   *)
Diamonds == bodies.diamonds

Terminal == {"completed", "cancelled"}

(* Ids callers choose; the others are derived from a lineage and ordinal.  *)
Named == {r \in Runs : \A q \in Runs : NextRound[q] # r}

(* descendantsOf: the least set that holds r's children and is closed      *)
(* under the edges.                                                        *)
DescendantsOf(E, r) ==
    LET Closed == {S \in SUBSET Runs : \A c \in Runs \ S : \A p \in S \cup {r} : <<c, p>> \notin E}
    IN  {d \in Runs : \A S \in Closed : d \in S}

Init ==
    /\ row = [r \in Runs |-> "absent"]
    /\ cancel = [r \in Runs |-> FALSE]
    /\ edges = {}
    /\ next = [r \in Runs |-> None]
    /\ awaits = [r \in Runs |-> None]
    /\ interrupted = {}
    /\ displaced = {}
    /\ bodies \in Bodies

---------------------------------------------------------------------------
(* requestCancelDescendants, after the run's own request.                  *)
RequestCancelTree(r) ==
    [x \in Runs |-> \/ cancel[x]
                    \/ row[x] # "absent" /\ x \in {r} \cup DescendantsOf(edges, r)]

(* Mutant: only the direct parents of p are looked at.                     *)
FindCycleAmongParents(c, p) == c = p \/ <<p, c>> \in edges

(* findCyclePath: the parent chain above p leads to c.                     *)
FindCyclePath(c, p) == c = p \/ p \in DescendantsOf(edges, c)

(* ensureRun without a parent.                                             *)
Execute(r) ==
    /\ r \in Named /\ row[r] = "absent"
    /\ row' = [row EXCEPT ![r] = "pending"]
    /\ UNCHANGED <<bodies, cancel, edges, next, awaits, interrupted, displaced>>

(* Mutant: the parent's cancellation is not inherited.                     *)
InheritNothing(c, p) == cancel

(* inheritParentCancellation.                                              *)
InheritParentCancellation(c, p) ==
    [cancel EXCEPT ![c] = @ \/ cancel[p] \/ row[p] = "cancelled"]

(* ensureRun with a parent: the edge is recorded, the row created if it is *)
(* new and the parent's cancellation inherited, all or nothing.  Without   *)
(* Diamonds a body repeats only its own spawns, as a replay does.          *)
EnsureRun(c, p) ==
    /\ c \in Named
    /\ Diamonds \/ row[c] = "absent" \/ <<c, p>> \in edges
    /\ <<c, p>> \in edges \/ ~FindCyclePath(c, p)
    /\ edges' = edges \cup {<<c, p>>}
    /\ row' = [row EXCEPT ![c] = IF @ = "absent" THEN "pending" ELSE @]
    /\ cancel' = InheritParentCancellation(c, p)
    /\ UNCHANGED bodies

(* A body executes a child and awaits its drain.                           *)
Spawn(p, c) ==
    /\ row[p] = "running" /\ awaits[p] = None
    /\ EnsureRun(c, p)
    /\ awaits' = [awaits EXCEPT ![p] = c]
    /\ UNCHANGED <<next, interrupted, displaced>>

(* So does the body on a process that has not noticed that it lost the     *)
(* run, whatever has become of the run since.                              *)
LateSpawn(p, c) ==
    /\ p \in displaced
    /\ EnsureRun(c, p)
    /\ UNCHANGED <<next, awaits, interrupted, displaced>>

(* The awaited drain is over.                                              *)
Drained(c) == row[c] \in Terminal \cup {"suspended"}

Return(p) ==
    /\ awaits[p] # None /\ Drained(awaits[p])
    /\ awaits' = [awaits EXCEPT ![p] = None]
    /\ UNCHANGED <<bodies, row, cancel, edges, next, interrupted, displaced>>

(* execute follows a lineage; later rounds are executed without a parent.  *)
FollowRound(p) ==
    /\ awaits[p] # None /\ Drained(awaits[p]) /\ next[awaits[p]] # None
    /\ awaits' = [awaits EXCEPT ![p] = next[awaits[p]]]
    /\ UNCHANGED <<bodies, row, cancel, edges, next, interrupted, displaced>>

---------------------------------------------------------------------------
(* drive: the activation carries the cancel guard; a suspended run is      *)
(* driven again by a resume or a sweep.                                    *)
Drive(r) ==
    /\ row[r] \in {"pending", "suspended"} /\ ~cancel[r]
    /\ row' = [row EXCEPT ![r] = "running"]
    /\ UNCHANGED <<bodies, cancel, edges, next, awaits, interrupted, displaced>>

(* The owner dies or loses the run, and another drive starts the body      *)
(* again; unnoticed says whether the old body still runs.                  *)
Redrive(r, unnoticed) ==
    /\ row[r] = "running"
    /\ awaits' = [awaits EXCEPT ![r] = None]
    /\ interrupted' = interrupted \ {r}
    /\ displaced' = IF unnoticed THEN displaced \cup {r} ELSE displaced
    /\ UNCHANGED <<bodies, row, cancel, edges, next>>

(* The heartbeat of a displaced body reports the loss.                     *)
DisplacedEnds(r) ==
    /\ r \in displaced
    /\ displaced' = displaced \ {r}
    /\ UNCHANGED <<bodies, row, cancel, edges, next, awaits, interrupted>>

Settle(r, status) ==
    /\ row[r] = "running" /\ awaits[r] = None /\ ~cancel[r]
    /\ row' = [row EXCEPT ![r] = status]
    /\ UNCHANGED <<bodies, cancel, edges, next, awaits, interrupted, displaced>>

(* continueLineage: the successor is created and the round completed in    *)
(* one transaction, guarded by the cancellation.                           *)
ContinueLineage(r) ==
    /\ HandOffs /\ NextRound[r] # None
    /\ row[r] = "running" /\ awaits[r] = None /\ ~cancel[r]
    /\ next' = [next EXCEPT ![r] = NextRound[r]]
    /\ row' = [row EXCEPT ![r] = "completed",
                           ![NextRound[r]] = IF @ = "absent" THEN "pending" ELSE @]
    /\ UNCHANGED <<bodies, cancel, edges, awaits, interrupted, displaced>>

(* cancelOwned: by the activation guard, the cancel poll, a settle guard   *)
(* or an interruption, whose linked interrupt comes first.                 *)
CancelOwned(r) ==
    /\ row[r] \in {"pending", "running", "suspended"} /\ cancel[r]
    /\ ~(r \in interrupted /\ awaits[r] # None)
    /\ row' = [row EXCEPT ![r] = "cancelled"]
    /\ cancel' = RequestCancelTree(r)
    /\ awaits' = [awaits EXCEPT ![r] = None]
    /\ interrupted' = interrupted \ {r}
    /\ UNCHANGED <<bodies, edges, next, displaced>>

(* FlowEngine.interrupt: here says whether this process runs the body.     *)
Interrupt(r, here) ==
    /\ row[r] # "absent"
    /\ cancel' = RequestCancelTree(r)
    /\ interrupted' = interrupted \cup (IF here /\ row[r] = "running" THEN {r} ELSE {})
    /\ UNCHANGED <<bodies, row, edges, next, awaits, displaced>>

(* The finalizer of execute interrupts the round that a marked body        *)
(* follows.                                                                *)
LinkedInterrupt(r) ==
    /\ r \in interrupted /\ awaits[r] # None
    /\ cancel' = RequestCancelTree(awaits[r])
    /\ interrupted' = (interrupted \ {r})
                      \cup (IF row[awaits[r]] = "running" THEN {awaits[r]} ELSE {})
    /\ awaits' = [awaits EXCEPT ![r] = None]
    /\ UNCHANGED <<bodies, row, edges, next, displaced>>

Next ==
    \E r \in Runs :
        \/ Execute(r) \/ Return(r) \/ FollowRound(r)
        \/ \E c \in Runs : Spawn(r, c) \/ LateSpawn(r, c)
        \/ Drive(r) \/ DisplacedEnds(r) \/ \E status \in {"completed", "suspended"} : Settle(r, status)
        \/ ContinueLineage(r) \/ CancelOwned(r)
        \/ \E b \in BOOLEAN : Redrive(r, b) \/ Interrupt(r, b)
        \/ LinkedInterrupt(r)

Spec == Init /\ [][Next]_vars

---------------------------------------------------------------------------
TypeOK ==
    /\ row \in [Runs -> {"absent", "pending", "running", "suspended"} \cup Terminal]
    /\ cancel \in [Runs -> BOOLEAN]
    /\ edges \subseteq Runs \X Runs
    /\ next \in [Runs -> Runs \cup {None}]
    /\ awaits \in [Runs -> Runs \cup {None}]
    /\ interrupted \subseteq Runs
    /\ displaced \subseteq Runs

(* The rows an edge or a handoff names exist: no crash leaves an orphan    *)
(* edge, and no round has handed off to a successor that was not created.  *)
NoOrphans ==
    /\ \A c, p \in Runs : <<c, p>> \in edges => row[c] # "absent" /\ row[p] # "absent"
    /\ \A r \in Runs : next[r] # None => row[next[r]] # "absent"

(* No run is its own descendant, whatever the order in which two parents   *)
(* execute each other.                                                     *)
EdgesAcyclic == \A r \in Runs : r \notin DescendantsOf(edges, r)

(* Bodies that do not hand off never wait for each other in a circle:      *)
(* "the mutual `coordinator.run` deadlock cannot form".                    *)
NoMutualWait ==
    LET waits == {<<awaits[r], r>> : r \in {q \in Runs : awaits[q] # None}}
    IN  ~HandOffs => \A r \in Runs : r \notin DescendantsOf(waits, r)

(* A cancellation and a late admission never miss each other: the child of *)
(* a cancelled parent that has settled is asked to cancel, or has settled, *)
(* when no run is executed by two parents.                                 *)
CascadeComplete ==
    ~Diamonds => \A c, p \in Runs :
        (<<c, p>> \in edges /\ cancel[p] /\ row[p] \in Terminal)
        => cancel[c] \/ row[c] \in Terminal
============================================================================
