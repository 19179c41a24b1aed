--------------------------- MODULE LineageProofs ---------------------------
(***************************************************************************)
(* What a run leaves behind: its children and its history.                 *)
(*                                                                         *)
(* The first part is about Cascade: the edge table stays acyclic and the   *)
(* cancellation cascade is complete, for every set of executions. The      *)
(* second is about Rewind: history is cut only under the fence, and when   *)
(* the rewinds are over the journal and the world agree, for every set of  *)
(* entries and services and any number of rewinds.                         *)
(***************************************************************************)
EXTENDS Cascade, Rewind, WellFoundedInduction, NaturalsInduction, TLAPS

(* E leads from every member of S and from r only into S.                  *)
Closed(E, r, S) ==
    \A c, p \in Runs : (<<c, p>> \in E /\ p \in S \cup {r}) => c \in S

(* Without a second parent, a request on a row is a request on its         *)
(* children, settled or not.                                               *)
CancelClosed ==
    ~Diamonds => \A c, p \in Runs : (<<c, p>> \in edges /\ cancel[p]) => cancel[c]

(* A run settles as cancelled only after a request.                        *)
CancelledWasAsked == \A r \in Runs : row[r] = "cancelled" => cancel[r]

(* A body that lost its run had one.                                       *)
DisplacedExist == \A r \in displaced : row[r] # "absent"

(* Without handoffs a body waits only for a child the edge table names.    *)
WaitsFollowEdges ==
    ~HandOffs => \A r \in Runs : /\ next[r] = None
                                 /\ awaits[r] # None => <<awaits[r], r>> \in edges

IInv ==
    /\ TypeOK /\ NoOrphans /\ EdgesAcyclic
    /\ CancelledWasAsked /\ CancelClosed /\ DisplacedExist /\ WaitsFollowEdges

---------------------------------------------------------------------------
(* What descendantsOf returns is closed under the edges.                   *)
LEMMA DescendantsClosed ==
    ASSUME NEW E, NEW r \in Runs
    PROVE  Closed(E, r, DescendantsOf(E, r))
<1> SUFFICES ASSUME NEW c \in Runs, NEW p \in Runs, <<c, p>> \in E,
                    p \in DescendantsOf(E, r) \cup {r},
                    NEW S \in SUBSET Runs, Closed(E, r, S)
             PROVE  c \in S
    BY DEF Closed, DescendantsOf
<1>1. p \in S \cup {r}
    BY DEF Closed, DescendantsOf
<1> QED
    BY <1>1 DEF Closed

(* It is the least such set.                                               *)
LEMMA DescendantsLeast ==
    ASSUME NEW E, NEW r \in Runs, NEW S \in SUBSET Runs, Closed(E, r, S)
    PROVE  DescendantsOf(E, r) \subseteq S
BY DEF DescendantsOf, Closed

(* A descendant's descendants are descendants.                             *)
LEMMA DescendantsTransitive ==
    ASSUME NEW E, NEW r \in Runs, NEW d \in DescendantsOf(E, r) \cup {r}
    PROVE  d \in Runs /\ DescendantsOf(E, d) \subseteq DescendantsOf(E, r)
<1>1. d \in Runs /\ DescendantsOf(E, r) \in SUBSET Runs
    BY DEF DescendantsOf
<1>2. Closed(E, d, DescendantsOf(E, r))
    BY DescendantsClosed DEF Closed
<1> QED
    BY <1>1, <1>2, DescendantsLeast

(* An edge that findCyclePath lets through closes no cycle.                *)
LEMMA SafeEdge ==
    ASSUME NEW E, NEW c \in Runs, NEW p \in Runs,
           \A r \in Runs : r \notin DescendantsOf(E, r),
           c # p, p \notin DescendantsOf(E, c),
           NEW r \in Runs
    PROVE  r \notin DescendantsOf(E \cup {<<c, p>>}, r)
<1> DEFINE F == E \cup {<<c, p>>}
           D == DescendantsOf(E, r)
<1>0. D \in SUBSET Runs /\ DescendantsOf(E, c) \in SUBSET Runs
    BY DEF DescendantsOf
<1>a. Closed(E, r, D) /\ Closed(E, c, DescendantsOf(E, c))
    BY DescendantsClosed
<1>1. CASE p \notin D \cup {r}
  <2>1. Closed(F, r, D)
    BY <1>1, <1>a DEF Closed
  <2> QED
    BY <2>1, <1>0, DescendantsLeast
<1>2. CASE p \in D \cup {r}
  <2> DEFINE S == D \cup {c} \cup DescendantsOf(E, c)
  <2>1. Closed(F, r, S)
    BY <1>a DEF Closed
  <2>2. S \in SUBSET Runs
    BY <1>0
  <2>3. r \notin S
    <3>1. r # c
      BY <1>2
    <3>2. r \notin DescendantsOf(E, c)
      BY <1>2, DescendantsTransitive
    <3> QED
      BY <3>1, <3>2
  <2> QED
    BY <2>1, <2>2, <2>3, DescendantsLeast
<1> QED
    BY <1>1, <1>2

(* The walk of a cascade leaves no child of a marked run unmarked.         *)
LEMMA CascadeMarks ==
    ASSUME TypeOK, NoOrphans, CancelClosed, NEW r \in Runs
    PROVE  /\ RequestCancelTree(r) \in [Runs -> BOOLEAN]
           /\ \A x \in Runs : cancel[x] => RequestCancelTree(r)[x]
           /\ row[r] # "absent" => RequestCancelTree(r)[r]
           /\ ~Diamonds => \A c, p \in Runs :
                (<<c, p>> \in edges /\ RequestCancelTree(r)[p]) => RequestCancelTree(r)[c]
<1>1. Closed(edges, r, DescendantsOf(edges, r))
    BY DescendantsClosed
<1> QED
    BY <1>1 DEF RequestCancelTree, TypeOK, NoOrphans, CancelClosed, HandOffs, Diamonds, Closed
---------------------------------------------------------------------------
(* Initially there are no edges and no rows.                               *)
LEMMA Initialised == Init => IInv
<1> SUFFICES ASSUME Init PROVE IInv
    OBVIOUS
<1>1. EdgesAcyclic
  <2> SUFFICES ASSUME NEW r \in Runs PROVE r \notin DescendantsOf({}, r)
    BY DEF Init, EdgesAcyclic
  <2>1. Closed({}, r, {})
    BY DEF Closed
  <2> QED
    BY <2>1, DescendantsLeast
<1> QED
    BY <1>1, NextRoundAssumption DEF Init, IInv, TypeOK, NoOrphans, CancelledWasAsked, CancelClosed, HandOffs, Diamonds, DisplacedExist, WaitsFollowEdges, Terminal

(* Admission, by a body that holds its run or by one that lost it.         *)
LEMMA SpawnKeeps ==
    ASSUME IInv, NEW p \in Runs, NEW c \in Runs, Spawn(p, c) \/ LateSpawn(p, c)
    PROVE  IInv'
<1> USE DEF IInv
<1>a. EnsureRun(c, p) /\ UNCHANGED <<next, interrupted, displaced, bodies>>
    BY DEF Spawn, LateSpawn, EnsureRun
<1>b. awaits' \in [Runs -> Runs \cup {None}]
    BY DEF Spawn, LateSpawn, TypeOK
<1>c. row[p] # "absent"
    BY DEF Spawn, LateSpawn, DisplacedExist
<1>d. cancel' \in [Runs -> BOOLEAN]
    BY <1>a DEF TypeOK, EnsureRun, InheritParentCancellation
<1>e. row' \in [Runs -> {"absent", "pending", "running", "suspended"} \cup Terminal]
    BY <1>a DEF TypeOK, EnsureRun
<1>f. edges' \subseteq Runs \X Runs
    BY <1>a DEF TypeOK, EnsureRun
<1>1. TypeOK'
    BY <1>a, <1>b, <1>d, <1>e, <1>f DEF TypeOK
<1>2. NoOrphans'
    BY <1>a, <1>c DEF NoOrphans, TypeOK, EnsureRun, Terminal
<1>6. DisplacedExist'
    BY <1>a DEF DisplacedExist, TypeOK, EnsureRun
<1>3. EdgesAcyclic'
  <2>1. CASE <<c, p>> \in edges
    <3>1. edges' = edges
      BY <2>1 DEF Spawn, LateSpawn, EnsureRun
    <3> QED
      BY <3>1 DEF EdgesAcyclic
  <2>2. CASE <<c, p>> \notin edges
    BY <2>2, SafeEdge DEF EdgesAcyclic, Spawn, LateSpawn, EnsureRun, FindCyclePath
  <2> QED
    BY <2>1, <2>2
<1>4. CancelledWasAsked'
    BY DEF CancelledWasAsked, Spawn, LateSpawn, EnsureRun, TypeOK, InheritParentCancellation
<1>5. CancelClosed'
    BY DEF CancelClosed, HandOffs, Diamonds, CancelledWasAsked, Spawn, LateSpawn, EnsureRun, TypeOK, NoOrphans, InheritParentCancellation
<1>7. WaitsFollowEdges'
    BY DEF WaitsFollowEdges, HandOffs, Spawn, LateSpawn, EnsureRun, TypeOK
<1> QED
    BY <1>1, <1>2, <1>3, <1>4, <1>5, <1>6, <1>7

(* Every step keeps the invariant.                                         *)
LEMMA StepKeeps == IInv /\ [Next]_vars => IInv'
<1> SUFFICES ASSUME IInv, [Next]_vars PROVE IInv'
    OBVIOUS
<1> USE NextRoundAssumption
<1>0. CASE UNCHANGED vars
    BY <1>0 DEF vars, IInv, TypeOK, NoOrphans, EdgesAcyclic, CancelledWasAsked, CancelClosed, HandOffs, Diamonds, DisplacedExist, WaitsFollowEdges
<1>1. ASSUME NEW r \in Runs, Execute(r) PROVE IInv'
    BY <1>1 DEF Execute, IInv, TypeOK, NoOrphans, EdgesAcyclic, CancelledWasAsked, CancelClosed, HandOffs, Diamonds, DisplacedExist, WaitsFollowEdges, Terminal
<1>2. ASSUME NEW r \in Runs, Return(r) \/ FollowRound(r) PROVE IInv'
  <2>1. UNCHANGED <<row, cancel, edges, next, interrupted, displaced, bodies>>
    BY <1>2 DEF Return, FollowRound
  <2>2. awaits' \in [Runs -> Runs \cup {None}]
    BY <1>2 DEF Return, FollowRound, IInv, TypeOK
  <2>3. WaitsFollowEdges'
    BY <1>2, <2>1 DEF Return, FollowRound, IInv, TypeOK, WaitsFollowEdges, HandOffs
  <2> QED
    BY <2>1, <2>2, <2>3 DEF IInv, TypeOK, NoOrphans, EdgesAcyclic, CancelledWasAsked, CancelClosed, HandOffs, Diamonds, DisplacedExist
<1>3. ASSUME NEW r \in Runs, NEW c \in Runs, Spawn(r, c) \/ LateSpawn(r, c) PROVE IInv'
    BY <1>3, SpawnKeeps
<1>4. ASSUME NEW r \in Runs, Drive(r) PROVE IInv'
    BY <1>4 DEF Drive, IInv, TypeOK, NoOrphans, EdgesAcyclic, CancelledWasAsked, CancelClosed, HandOffs, Diamonds, DisplacedExist, WaitsFollowEdges, Terminal
<1>5. ASSUME NEW r \in Runs, NEW b \in BOOLEAN, Redrive(r, b) \/ DisplacedEnds(r) PROVE IInv'
  <2>1. UNCHANGED <<row, cancel, edges, next, bodies>>
    BY <1>5 DEF Redrive, DisplacedEnds
  <2>2. /\ awaits' \in [Runs -> Runs \cup {None}]
        /\ interrupted' \subseteq Runs /\ displaced' \subseteq Runs
    BY <1>5 DEF Redrive, DisplacedEnds, IInv, TypeOK
  <2>3. WaitsFollowEdges'
    BY <1>5, <2>1 DEF Redrive, DisplacedEnds, IInv, TypeOK, WaitsFollowEdges, HandOffs
  <2>4. DisplacedExist'
    BY <1>5, <2>1 DEF Redrive, DisplacedEnds, IInv, DisplacedExist
  <2> QED
    BY <2>1, <2>2, <2>3, <2>4 DEF IInv, TypeOK, NoOrphans, EdgesAcyclic, CancelledWasAsked, CancelClosed, HandOffs, Diamonds
<1>6. ASSUME NEW r \in Runs, NEW status \in {"completed", "suspended"}, Settle(r, status) PROVE IInv'
    BY <1>6 DEF Settle, IInv, TypeOK, NoOrphans, EdgesAcyclic, CancelledWasAsked, CancelClosed, HandOffs, Diamonds, DisplacedExist, WaitsFollowEdges, Terminal
<1>7. ASSUME NEW r \in Runs, ContinueLineage(r) PROVE IInv'
    BY <1>7 DEF ContinueLineage, IInv, TypeOK, NoOrphans, EdgesAcyclic, CancelledWasAsked, CancelClosed, HandOffs, Diamonds, DisplacedExist, WaitsFollowEdges, Terminal
<1>8. ASSUME NEW r \in Runs, CancelOwned(r) PROVE IInv'
  <2>1. EdgesAcyclic'
    BY <1>8 DEF CancelOwned, IInv, EdgesAcyclic
  <2> QED
    BY <1>8, <2>1, CascadeMarks DEF CancelOwned, IInv, TypeOK, NoOrphans, CancelledWasAsked, CancelClosed, HandOffs, Diamonds, DisplacedExist, WaitsFollowEdges, Terminal
<1>9. ASSUME NEW r \in Runs, NEW here \in BOOLEAN, Interrupt(r, here) PROVE IInv'
  <2>1. EdgesAcyclic'
    BY <1>9 DEF Interrupt, IInv, EdgesAcyclic
  <2> QED
    BY <1>9, <2>1, CascadeMarks DEF Interrupt, IInv, TypeOK, NoOrphans, CancelledWasAsked, CancelClosed, HandOffs, Diamonds, DisplacedExist, WaitsFollowEdges, Terminal
<1>10. ASSUME NEW r \in Runs, LinkedInterrupt(r) PROVE IInv'
  <2>1. EdgesAcyclic'
    BY <1>10 DEF LinkedInterrupt, IInv, EdgesAcyclic
  <2>2. awaits[r] \in Runs
    BY <1>10 DEF LinkedInterrupt, IInv, TypeOK
  <2> QED
    BY <1>10, <2>1, <2>2, CascadeMarks DEF LinkedInterrupt, IInv, TypeOK, NoOrphans, CancelledWasAsked, CancelClosed, HandOffs, Diamonds, DisplacedExist, WaitsFollowEdges, Terminal
<1> QED
    BY <1>0, <1>1, <1>2, <1>3, <1>4, <1>5, <1>6, <1>7, <1>8, <1>9, <1>10 DEF Next

(* The invariant holds in every reachable state.                           *)
LEMMA Invariance == Spec => []IInv
    BY Initialised, StepKeeps, PTL DEF Spec

(* The edge table never holds a cycle, through handoffs, diamonds and      *)
(* replays, for every set of executions.                                   *)
THEOREM Acyclic == Spec => []EdgesAcyclic
<1>1. IInv => EdgesAcyclic
    BY DEF IInv
<1> QED
    BY <1>1, Invariance, PTL

(* No edge and no handoff names a row that was not created.                *)
THEOREM RowsExist == Spec => []NoOrphans
<1>1. IInv => NoOrphans
    BY DEF IInv
<1> QED
    BY <1>1, Invariance, PTL

(* Fewer edges, fewer descendants.                                         *)
LEMMA DescendantsMonotone ==
    ASSUME NEW E, NEW F, E \subseteq F, NEW r \in Runs
    PROVE  DescendantsOf(E, r) \subseteq DescendantsOf(F, r)
<1>1. Closed(E, r, DescendantsOf(F, r))
    BY DescendantsClosed DEF Closed
<1>2. DescendantsOf(F, r) \in SUBSET Runs
    BY DEF DescendantsOf
<1> QED
    BY <1>1, <1>2, DescendantsLeast

(* Without handoffs no set of bodies waits in a circle, so the cycle check *)
(* at admission is enough.                                                 *)
THEOREM NoDeadlock == Spec => []NoMutualWait
<1>1. IInv => NoMutualWait
  <2> DEFINE waits == {<<awaits[r], r>> : r \in {q \in Runs : awaits[q] # None}}
  <2> SUFFICES ASSUME IInv, ~HandOffs
               PROVE  \A r \in Runs : r \notin DescendantsOf(waits, r)
    BY DEF NoMutualWait
  <2>1. waits \subseteq edges
    BY DEF IInv, WaitsFollowEdges
  <2>2. ASSUME NEW r \in Runs PROVE r \notin DescendantsOf(waits, r)
    <3> HIDE DEF waits
    <3> QED
      BY <2>1, DescendantsMonotone DEF IInv, EdgesAcyclic
  <2> QED
    BY <2>2
<1> QED
    BY <1>1, Invariance, PTL

(* When every run has one parent, no child of a cancelled parent is left   *)
(* running without a request, in either order of admission and cascade.    *)
THEOREM Cascades == Spec => []CascadeComplete
<1>1. IInv => CascadeComplete
    BY DEF IInv, CancelClosed, HandOffs, Diamonds, CascadeComplete
<1> QED
    BY <1>1, Invariance, PTL

-----------------------------------------------------------------------------
(* Rewind *)

(* A non-empty set of entries has a least and a greatest member.           *)
LEMMA LeastNumber ==
  ASSUME NEW S \in SUBSET Nat, S # {}
  PROVE  \E n \in S : \A m \in S : n <= m
  <1>1. PICK x \in S : \A y \in S : ~ (<<y, x>> \in OpToRel(<, Nat))
    BY NatLessThanWellFounded, WFMin
  <1>2. ASSUME NEW y \in S PROVE x <= y
    <2>1. x \in Nat /\ y \in Nat
      OBVIOUS
    <2>2. y < x => <<y, x>> \in OpToRel(<, Nat)
      BY <2>1 DEF OpToRel
    <2>3. ~(y < x)
      BY <1>1, <2>2, Zenon
    <2> QED
      BY <2>1, <2>3
  <1> QED
    BY <1>2

(* A set of numbers has its least member.                                  *)
LEMMA LeastEntry ==
  ASSUME NEW S \in SUBSET Nat, S # {}
  PROVE  Min(S) \in S
  BY LeastNumber DEF Min

(* A set of entries has its greatest member.                               *)
LEMMA GreatestEntry ==
  ASSUME NEW S \in SUBSET Entries, S # {}
  PROVE  Max(S) \in S
  <1> DEFINE T == {Last - n : n \in S}
  <1>0. Last \in Nat /\ S \subseteq 1..Last
    BY RewindAssumption DEF Entries
  <1>1. T \subseteq Nat /\ T # {} /\ S \subseteq Int
    <2>1. ASSUME NEW n \in S PROVE Last - n \in Nat /\ n \in Int
      BY <1>0
    <2> QED
      BY <2>1
  <1>2. PICK x \in T : \A y \in T : x <= y
    BY <1>1, LeastNumber
  <1>3. PICK n \in S : x = Last - n
    OBVIOUS
  <1>4. ASSUME NEW m \in S PROVE n >= m
    <2>1. x <= Last - m
      BY <1>2
    <2> QED
      BY <1>0, <1>1, <1>3, <2>1
  <1> QED
    BY <1>4 DEF Max

-----------------------------------------------------------------------------
(* Types *)

(* Where a process may be, and what it may have read.                      *)
Places == {"down", "idle", "activate", "undo"} \cup Rewinding \cup Recovering
Listed(l) == DOMAIN l \subseteq 1..MaxRewinds /\ \A a \in DOMAIN l : l[a] \in Details

(* Goto moves one process.                                                 *)
LEMMA GotoTyped ==
  ASSUME RewindTypeOK, NEW p \in Procs, NEW to \in Places, Goto(p, to)
  PROVE  at' \in [Procs -> Places] /\ at'[p] = to /\ \A q \in Procs \ {p} : at'[q] = at[q]
  BY DEF RewindTypeOK, Goto, Places

(* Hold replaces the memory of one process.                                *)
LEMMA HoldTyped ==
  ASSUME RewindTypeOK, NEW p \in Procs, NEW m \in Memories, Hold(p, m)
  PROVE  mine' \in [Procs -> Memories] /\ mine'[p] = m
  BY DEF RewindTypeOK, Hold

(* updateAudit replaces one audit and no other.                            *)
LEMMA UpdateTyped ==
  ASSUME RewindTypeOK, NEW a, NEW status, NEW detail, Update(a, status, detail),
         a \in DOMAIN audits => [status |-> status, detail |-> detail] \in Audits
  PROVE  /\ audits' \in Seq(Audits) /\ Len(audits') <= MaxRewinds
         /\ Len(audits') = Len(audits) /\ DOMAIN audits' = DOMAIN audits
         /\ \A b \in DOMAIN audits : audits'[b] = IF b = a THEN [status |-> status, detail |-> detail] ELSE audits[b]
  <1> DEFINE v == [status |-> status, detail |-> detail]
  <1>1. audits \in [1..Len(audits) -> Audits] /\ Len(audits) \in Nat /\ DOMAIN audits = 1..Len(audits)
    BY DEF RewindTypeOK
  <1>2. audits' = [audits EXCEPT ![a] = v]
    BY DEF Update
  <1>3. audits' \in [1..Len(audits) -> Audits]
    BY <1>1, <1>2
  <1>4. audits' \in Seq(Audits) /\ Len(audits') = Len(audits)
    BY <1>1, <1>3
  <1> HIDE DEF v
  <1>5. \A b \in DOMAIN audits : audits'[b] = IF b = a THEN v ELSE audits[b]
    BY <1>1, <1>2
  <1> QED
    BY <1>1, <1>3, <1>4, <1>5 DEF RewindTypeOK, v

(* The parts of the type, for the steps that change some of them.          *)
LEMMA TypeParts ==
  ASSUME RewindTypeOK
  PROVE  /\ at \in [Procs -> Places] /\ mine \in [Procs -> Memories]
         /\ \A p \in Procs : Listed(list[p])
         /\ audits \in Seq(Audits) /\ Len(audits) <= MaxRewinds
         /\ Last \in Nat /\ MaxRewinds \in Nat /\ Entries \subseteq Nat \ {0}
         /\ setting.maxFaults \in Nat
  BY RewindAssumption DEF RewindTypeOK, Places, Listed, Entries

(* A new detail and an empty memory have their types.                      *)
LEMMA DetailTyped ==
  /\ NoComp \in Comps
  /\ \A o \in {"pending", "suspended"} : Detail(o) \in Details
  /\ Nothing \in Memories
  <1>1. NoComp \in Comps
    BY DEF NoComp, Comps
  <1>2. ASSUME NEW o \in {"pending", "suspended"} PROVE Detail(o) \in Details
    BY <1>1, RewindAssumption DEF Detail, Details, Phases
  <1>3. Nothing \in Memories
    BY <1>2 DEF Nothing, Memories, Children
  <1> QED
    BY <1>1, <1>2, <1>3

(* The beginning of a rollback: what the process then holds.               *)
LEMMA UndoTyped ==
  ASSUME RewindTypeOK, NEW p \in Procs, NEW m \in Memories, NEW comp \in Comps,
         NEW to \in {"again", "giveback", "reinstate"}, Undo(p, m, comp, to)
  PROVE  /\ at' \in [Procs -> Places] /\ mine' \in [Procs -> Memories]
         /\ at'[p] = "undo" /\ \A q \in Procs \ {p} : at'[q] = at[q]
         /\ mine'[p] = [m EXCEPT !.todo = comp.done, !.back = comp.back, !.bad = FALSE, !.then = to]
  <1> DEFINE n == [m EXCEPT !.todo = comp.done, !.back = comp.back, !.bad = FALSE, !.then = to]
  <1>1. n \in Memories
    BY DEF Memories, Comps
  <1>2. Hold(p, n) /\ Goto(p, "undo")
    BY DEF Undo
  <1> HIDE DEF n
  <1> QED
    BY <1>1, <1>2, GotoTyped, HoldTyped DEF Places, n

(* The fields of a memory, and what may be put into it.                    *)
LEMMA MemoryTyped ==
  ASSUME NEW m \in Memories
  PROVE  /\ m.det \in Details /\ m.det.comp \in Comps /\ m.todo \subseteq Entries
         /\ m.det.comp.done \subseteq Entries /\ m.then \in {"again", "giveback", "reinstate"}
         /\ {m.owned, m.back, m.bad, m.det.comp.back} \subseteq BOOLEAN
         /\ m.det.original \in {"pending", "suspended"} /\ m.audit \in Nat
         /\ \A phase \in Phases : [m.det EXCEPT !.phase = phase] \in Details
         /\ \A det \in Details : [m EXCEPT !.det = det] \in Memories
         /\ \A a \in Nat : [m EXCEPT !.audit = a] \in Memories
         /\ RolledBackDetail(m) \in Details
  <1>1. /\ m.det \in Details /\ m.todo \subseteq Entries /\ m.then \in {"again", "giveback", "reinstate"}
        /\ {m.owned, m.back, m.bad} \subseteq BOOLEAN /\ m.audit \in Nat
        /\ \A det \in Details : [m EXCEPT !.det = det] \in Memories
        /\ \A a \in Nat : [m EXCEPT !.audit = a] \in Memories
    BY DEF Memories
  <1>2. /\ m.det.comp \in Comps /\ m.det.original \in {"pending", "suspended"}
        /\ \A phase \in Phases : [m.det EXCEPT !.phase = phase] \in Details
    BY <1>1 DEF Details
  <1>3. m.det.comp.done \subseteq Entries /\ m.det.comp.back \in BOOLEAN
    BY <1>2 DEF Comps
  <1>4. RolledBackDetail(m) \in Details
    BY <1>1, DetailTyped DEF RolledBackDetail, Details, Phases
  <1> QED
    BY <1>1, <1>2, <1>3, <1>4

(* An audit has its type, and a number that is not 0.                      *)
LEMMA AuditTyped ==
  ASSUME RewindTypeOK, NEW a \in DOMAIN audits
  PROVE  /\ audits[a] \in Audits /\ audits[a].detail \in Details /\ a \in 1..MaxRewinds /\ a \in Nat \ {0}
         /\ audits[a].status \in {"in_progress", "completed", "failed"}
  <1>1. audits[a] \in Audits /\ a \in 1..Len(audits) /\ Len(audits) \in Nat
    BY DEF RewindTypeOK
  <1>2. a \in 1..MaxRewinds
    BY <1>1, RewindAssumption DEF RewindTypeOK
  <1> QED
    BY <1>1, <1>2, RewindAssumption DEF Audits

(* A fault is counted.                                                     *)
LEMMA FaultTyped ==
  ASSUME RewindTypeOK, NEW f, Fault(f), setting' = setting
  PROVE  faults' \in 0..setting'.maxFaults /\ setting' \in Settings
  BY TypeParts DEF RewindTypeOK, Fault, MaxFaults

(* Claiming the run keeps the types.                                       *)
LEMMA ClaimType ==
  ASSUME RewindTypeOK, NEW p \in Procs, Claim(p)
  PROVE  RewindTypeOK'
  <1>1. [Nothing EXCEPT !.det = Detail(run.status)] \in Memories
    BY DetailTyped, MemoryTyped DEF Claim, Claimable
  <1>2. at' \in [Procs -> Places] /\ mine' \in [Procs -> Memories]
    BY <1>1, GotoTyped, HoldTyped DEF Claim, Places
  <1>3. run' \in RunRows
    BY DEF Claim, RewindTypeOK, RunRows
  <1> QED
    BY <1>2, <1>3 DEF Claim, RewindTypeOK, Places, journal, outside, MaxFaults

(* So does activating the claim.                                           *)
LEMMA ActivateType ==
  ASSUME RewindTypeOK, NEW p \in Procs, Activate(p) \/ Reactivate(p)
  PROVE  RewindTypeOK'
  <1>1. at' \in [Procs -> Places]
    BY GotoTyped DEF Activate, Reactivate, Places, Rewinding, Recovering
  <1>2. run' \in RunRows
    BY DEF Activate, Reactivate, Activated, RunRows
  <1>3. UNCHANGED <<journal, outside, child, audits, mine, list, faults, setting>>
    BY DEF Activate, Reactivate
  <1> QED
    BY <1>1, <1>2, <1>3 DEF RewindTypeOK, Places, journal, outside, MaxFaults

(* A new audit goes behind the others.                                     *)
LEMMA WriteAuditType ==
  ASSUME RewindTypeOK, NEW p \in Procs, WriteAudit(p)
  PROVE  /\ RewindTypeOK'
         /\ audits' \in Seq(Audits) /\ Len(audits') = Len(audits) + 1
         /\ audits'[Len(audits')] = [status |-> "in_progress", detail |-> mine[p].det]
         /\ DOMAIN audits' = DOMAIN audits \cup {Len(audits')} /\ Len(audits') \notin DOMAIN audits
         /\ \A a \in DOMAIN audits : audits'[a] = audits[a]
         /\ Len(audits') \in Nat \ {0}
  <1> DEFINE v == [status |-> "in_progress", detail |-> mine[p].det]
  <1>1. v \in Audits
    BY TypeParts, MemoryTyped DEF Audits
  <1>2. audits' = Append(audits, v) /\ Len(audits) < MaxRewinds /\ audits \in Seq(Audits) /\ MaxRewinds \in Nat
    BY TypeParts DEF WriteAudit
  <1> HIDE DEF v
  <1>3. /\ audits' \in Seq(Audits) /\ Len(audits') = Len(audits) + 1 /\ Len(audits') <= MaxRewinds
        /\ audits'[Len(audits')] = v
        /\ \A a \in DOMAIN audits : audits'[a] = audits[a]
        /\ DOMAIN audits = 1..Len(audits) /\ DOMAIN audits' = 1..Len(audits') /\ Len(audits) \in Nat
    BY <1>1, <1>2
  <1>4. mine' \in [Procs -> Memories] /\ at' \in [Procs -> Places]
    <2>1. mine[p] \in Memories /\ Len(audits') \in Nat
      BY <1>3, TypeParts
    <2>2. [mine[p] EXCEPT !.audit = Len(audits')] \in Memories
      BY <2>1, MemoryTyped
    <2> QED
      BY <2>2, HoldTyped, GotoTyped DEF WriteAudit, Places, Rewinding
  <1>5. RewindTypeOK'
    BY <1>3, <1>4 DEF WriteAudit, RewindTypeOK, Places, journal, outside, MaxFaults
  <1> QED
    BY <1>3, <1>5 DEF v

(* The preflight keeps the types.                                          *)
LEMMA PreflightType ==
  ASSUME RewindTypeOK, NEW p \in Procs, Preflight(p)
  PROVE  RewindTypeOK'
  <1>0. mine[p] \in Memories /\ mine[p].det \in Details
    BY TypeParts, MemoryTyped
  <1>1. CASE Policy = "block" /\ Crossed \in {"suspended", "running"}
    <2>1. Undo(p, mine[p], NoComp, "giveback") /\ UNCHANGED audits
      BY <1>1, ZenonT(60) DEF Preflight
    <2>2. at' \in [Procs -> Places] /\ mine' \in [Procs -> Memories]
      BY <1>0, <2>1, UndoTyped, DetailTyped
    <2> QED
      BY <2>1, <2>2 DEF Preflight, RewindTypeOK, Places, journal, outside, MaxFaults
  <1>2. CASE ~(Policy = "block" /\ Crossed \in {"suspended", "running"})
    <2> DEFINE suffix == IF live = {} THEN 0 ELSE Max(live)
               det == [mine[p].det EXCEPT !.phase = "preflight_complete", !.suffix = suffix]
               m == [mine[p] EXCEPT !.det = det, !.kid = Crossed, !.todo = live \cap Irreversible,
                                    !.back = live \cap Compensable # {}]
    <2>1. suffix \in 0..Last
      <3>1. live \subseteq Entries /\ Last \in Nat
        BY RewindAssumption DEF RewindTypeOK
      <3>2. live # {} => Max(live) \in Entries
        BY <3>1, GreatestEntry
      <3> QED
        BY <3>1, <3>2 DEF Entries
    <2> HIDE DEF suffix
    <2>2. det \in Details
      BY <1>0, <2>1 DEF Details, Phases
    <2> HIDE DEF det
    <2>3. m \in Memories
      <3>1. Crossed \in Children /\ live \cap Irreversible \subseteq Entries
        BY DEF Crossed, RewindTypeOK, Children
      <3> QED
        BY <1>0, <2>2, <3>1 DEF Memories
    <2>4. Update(mine[p].audit, audits[mine[p].audit].status, det) /\ Hold(p, m) /\ Goto(p, "revert")
      BY <1>2 DEF Preflight, det, suffix
    <2> HIDE DEF m
    <2>5. at' \in [Procs -> Places] /\ mine' \in [Procs -> Memories]
      BY <2>3, <2>4, HoldTyped, GotoTyped DEF Places, Rewinding
    <2>6. audits' \in Seq(Audits) /\ Len(audits') <= MaxRewinds
      BY <2>2, <2>4, UpdateTyped, AuditTyped DEF Audits
    <2> QED
      BY <2>5, <2>6 DEF Preflight, RewindTypeOK, Places, journal, outside, MaxFaults
  <1> QED
    BY <1>1, <1>2

(* A handler keeps the types.                                              *)
LEMMA RevertType ==
  ASSUME RewindTypeOK, NEW p \in Procs, Revert(p)
  PROVE  RewindTypeOK'
  <1>0. mine[p] \in Memories /\ mine[p].todo \subseteq Entries
    BY TypeParts, MemoryTyped
  <1>1. CASE mine[p].todo = {}
    <2>1. at' \in [Procs -> Places]
      BY <1>1, GotoTyped DEF Revert, Places, Rewinding
    <2> QED
      BY <1>1, <2>1 DEF Revert, RewindTypeOK, Places, journal, MaxFaults
  <1>2. CASE mine[p].todo # {}
    <2> DEFINE e == Max(mine[p].todo)
               m == [mine[p] EXCEPT !.todo = @ \ {e}, !.det.comp.done = @ \cup {e}]
    <2>1. e \in Entries
      BY <1>0, <1>2, GreatestEntry
    <2> HIDE DEF e
    <2>2. m \in Memories
      BY <1>0, <2>1 DEF Memories, Details, Comps
    <2> HIDE DEF m
    <2>3. effect' = [effect EXCEPT ![e] = @ - 1] /\ Hold(p, m) /\ UNCHANGED at
      BY <1>2 DEF Revert, e, m
    <2>4. mine' \in [Procs -> Memories]
      BY <2>2, <2>3, HoldTyped
    <2>5. effect' \in [Entries -> Int]
      BY <2>1, <2>3 DEF RewindTypeOK
    <2> QED
      BY <2>3, <2>4, <2>5 DEF Revert, RewindTypeOK, journal, MaxFaults
  <1> QED
    BY <1>1, <1>2

(* The move of the workspace keeps the types.                              *)
LEMMA RestoreType ==
  ASSUME RewindTypeOK, NEW p \in Procs, Restore(p)
  PROVE  RewindTypeOK'
  <1>0. mine[p] \in Memories
    BY TypeParts
  <1>1. at' \in [Procs -> Places]
    BY GotoTyped DEF Restore, Places, Rewinding
  <1>2. mine' \in [Procs -> Memories]
    <2>1. [mine[p] EXCEPT !.det.comp.back = TRUE] \in Memories
      BY <1>0 DEF Memories, Details, Comps
    <2>2. CASE mine[p].back
      BY <2>1, <2>2, HoldTyped DEF Restore
    <2> QED
      BY <2>2, TypeParts DEF Restore
  <1> QED
    BY <1>1, <1>2 DEF Restore, RewindTypeOK, Places, journal, MaxFaults

(* saveDetail writes the same detail to the audit and to memory.           *)
LEMMA SaveDetailTyped ==
  ASSUME RewindTypeOK, NEW p \in Procs, NEW phase \in Phases,
         SaveDetail(p, [mine[p].det EXCEPT !.phase = phase])
  PROVE  /\ audits' \in Seq(Audits) /\ Len(audits') <= MaxRewinds
         /\ mine' \in [Procs -> Memories]
         /\ mine'[p] = [mine[p] EXCEPT !.det = [mine[p].det EXCEPT !.phase = phase]]
  <1> DEFINE det == [mine[p].det EXCEPT !.phase = phase]
  <1>1. det \in Details /\ [mine[p] EXCEPT !.det = det] \in Memories
    BY TypeParts, MemoryTyped
  <1>2. Update(mine[p].audit, audits[mine[p].audit].status, det) /\ Hold(p, [mine[p] EXCEPT !.det = det])
    BY DEF SaveDetail
  <1> HIDE DEF det
  <1>3. audits' \in Seq(Audits) /\ Len(audits') <= MaxRewinds
    BY <1>1, <1>2, UpdateTyped, AuditTyped DEF Audits
  <1> QED
    BY <1>1, <1>2, <1>3, HoldTyped DEF det

(* Saving receipts and saving the commit keep the types.                   *)
LEMMA SaveType ==
  ASSUME RewindTypeOK, NEW p \in Procs, Save(p) \/ Commit(p)
  PROVE  RewindTypeOK'
  <1>1. at' \in [Procs -> Places]
    BY GotoTyped DEF Save, Commit, Places, Rewinding
  <1>2. audits' \in Seq(Audits) /\ Len(audits') <= MaxRewinds /\ mine' \in [Procs -> Memories]
    BY SaveDetailTyped DEF Save, Commit, Phases
  <1> QED
    BY <1>1, <1>2 DEF Save, Commit, RewindTypeOK, Places, journal, outside, MaxFaults

(* The cut keeps the types.                                                *)
LEMMA ArchiveType ==
  ASSUME RewindTypeOK, NEW p \in Procs, Archive(p)
  PROVE  RewindTypeOK'
  <1>1. at' \in [Procs -> Places]
    BY GotoTyped DEF Archive, Places, Rewinding
  <1> QED
    BY <1>1 DEF Archive, RewindTypeOK, Places, outside, MaxFaults

(* After the child the rewind goes on or stops.                            *)
LEMMA CancelChildType ==
  ASSUME RewindTypeOK, NEW p \in Procs, CancelChild(p)
  PROVE  /\ RewindTypeOK' /\ at'[p] \in {"suspend", "idle"}
         /\ \A q \in Procs \ {p} : at'[q] = at[q]
  <1>1. /\ at' \in [Procs -> Places] /\ child' \in Children /\ at'[p] \in {"suspend", "idle"}
        /\ \A q \in Procs \ {p} : at'[q] = at[q]
    <2>1. Goto(p, "suspend") \/ Goto(p, "idle")
      BY DEF CancelChild
    <2>2. child' = "cancelled" \/ child' = child
      BY DEF CancelChild
    <2> QED
      BY <2>1, <2>2, GotoTyped DEF RewindTypeOK, Places, Rewinding, Children
  <1> QED
    BY <1>1 DEF CancelChild, RewindTypeOK, Places, journal, outside, MaxFaults

(* The steps that only release the run and move on.                        *)
LEMMA ReleaseType ==
  ASSUME RewindTypeOK, NEW p \in Procs,
         Suspend(p) \/ GiveBack(p) \/ Resuspend(p) \/ Reinstate(p)
  PROVE  RewindTypeOK'
  <1>1. at' \in [Procs -> Places]
    <2>1. \E to \in {"complete", "idle", "report", "finish", "terminal", "record"} : Goto(p, to)
      BY DEF Suspend, GiveBack, Resuspend, Reinstate
    <2> QED
      BY <2>1, GotoTyped DEF Places, Rewinding, Recovering
  <1>2. mine[p].det.original \in {"pending", "suspended"}
    BY TypeParts, MemoryTyped
  <1>3. run' \in RunRows
    BY <1>2 DEF Suspend, GiveBack, Resuspend, Reinstate, Release, RewindTypeOK, RunRows
  <1>4. UNCHANGED <<journal, outside, child, audits, mine, list, faults, setting>>
    BY DEF Suspend, GiveBack, Resuspend, Reinstate
  <1> QED
    BY <1>1, <1>3, <1>4 DEF RewindTypeOK, Places, journal, outside, MaxFaults

(* The steps that close an audit in a rewind.                              *)
LEMMA CloseAuditType ==
  ASSUME RewindTypeOK, NEW p \in Procs, Complete(p) \/ Report(p)
  PROVE  RewindTypeOK'
  <1>1. at' \in [Procs -> Places]
    BY GotoTyped DEF Complete, Report, Places
  <1>2. PICK status \in {"completed", "failed"}, detail \in Details : Update(mine[p].audit, status, detail)
    BY TypeParts, MemoryTyped DEF Complete, Report, Phases
  <1>3. audits' \in Seq(Audits) /\ Len(audits') <= MaxRewinds
    BY <1>2, UpdateTyped DEF Audits
  <1> QED
    BY <1>1, <1>3 DEF Complete, Report, RewindTypeOK, Places, journal, outside, MaxFaults

(* The steps that begin a rollback.                                        *)
LEMMA RollbackType ==
  ASSUME RewindTypeOK, NEW p \in Procs, RevertFails(p) \/ RestoreFails(p) \/ Interrupted(p)
  PROVE  RewindTypeOK'
  <1>0. mine[p] \in Memories /\ mine[p].det.comp \in Comps
    BY TypeParts, MemoryTyped
  <1>1. [mine[p] EXCEPT !.det.comp = NoComp] \in Memories
    BY <1>0, DetailTyped, SMTT(30) DEF Memories, Details
  <1>2. \E m \in Memories, comp \in Comps, to \in {"again", "giveback", "reinstate"} : Undo(p, m, comp, to)
    BY <1>0, <1>1, DetailTyped DEF RevertFails, RestoreFails, Interrupted
  <1>3. at' \in [Procs -> Places] /\ mine' \in [Procs -> Memories]
    BY <1>2, UndoTyped
  <1>4. faults' \in 0..setting'.maxFaults /\ setting' \in Settings
    BY FaultTyped DEF RevertFails, RestoreFails, Interrupted
  <1>5. /\ UNCHANGED <<run, journal, effect, child, audits, list>> /\ workspace' \in {"head", "frame"}
    BY DEF RevertFails, RestoreFails, Interrupted, outside, RewindTypeOK
  <1> QED
    BY <1>3, <1>4, <1>5 DEF RewindTypeOK, Places, journal, MaxFaults

(* One step of a rollback, or its failure, keeps the types.                *)
LEMMA UndoStepType ==
  ASSUME RewindTypeOK, NEW p \in Procs, UndoStep(p) \/ UndoFails(p)
  PROVE  RewindTypeOK'
  <1>0. mine[p] \in Memories /\ mine[p].todo \subseteq Entries
    BY TypeParts, MemoryTyped
  <1>1. mine' \in [Procs -> Memories]
    <2>1. \A S \in SUBSET Entries, b \in BOOLEAN :
             /\ [mine[p] EXCEPT !.todo = S] \in Memories /\ [mine[p] EXCEPT !.back = FALSE] \in Memories
             /\ [mine[p] EXCEPT !.back = FALSE, !.bad = TRUE] \in Memories
             /\ [mine[p] EXCEPT !.todo = S, !.bad = TRUE] \in Memories
      BY <1>0 DEF Memories
    <2>2. mine[p].todo \ {NextUndo(p)} \in SUBSET Entries
      BY <1>0
    <2>3. \E m \in Memories : Hold(p, m)
      BY <2>1, <2>2 DEF UndoStep, UndoFails
    <2> QED
      BY <2>3, HoldTyped
  <1>2. effect' \in [Entries -> Int]
    <2>1. UNCHANGED effect \/ effect' = [effect EXCEPT ![NextUndo(p)] = @ + 1]
      BY DEF UndoStep, UndoFails, outside
    <2> QED
      BY <2>1 DEF RewindTypeOK
  <1>3. workspace' \in {"head", "frame"}
    BY DEF UndoStep, UndoFails, outside, RewindTypeOK
  <1>4. faults' \in 0..setting'.maxFaults /\ setting' \in Settings
    BY FaultTyped DEF UndoStep, UndoFails, RewindTypeOK, MaxFaults
  <1>5. UNCHANGED <<run, journal, child, audits, at, list>>
    BY DEF UndoStep, UndoFails
  <1> QED
    BY <1>1, <1>2, <1>3, <1>4, <1>5 DEF RewindTypeOK, journal, MaxFaults

(* The end of a rollback keeps the types.                                  *)
LEMMA UndoEndsType ==
  ASSUME RewindTypeOK, NEW p \in Procs, UndoEnds(p)
  PROVE  RewindTypeOK'
  <1>0. mine[p] \in Memories /\ mine[p].det.comp \in Comps /\ mine[p].then \in {"again", "giveback", "reinstate"}
    BY TypeParts, MemoryTyped
  <1>1. at' \in [Procs -> Places] /\ mine' \in [Procs -> Memories]
    <2>1. CASE mine[p].then = "again"
      BY <1>0, <2>1, UndoTyped, ZenonT(60) DEF UndoEnds
    <2>2. CASE mine[p].then # "again"
      <3>1. UNCHANGED mine /\ \E to \in {"terminal", "giveback", "reinstate"} : Goto(p, to)
        BY <1>0, <2>2 DEF UndoEnds
      <3> QED
        BY <3>1, GotoTyped, TypeParts DEF Places, Rewinding, Recovering
    <2> QED
      BY <2>1, <2>2, ZenonT(60)
  <1> QED
    BY <1>1 DEF UndoEnds, RewindTypeOK, Places, journal, outside, MaxFaults

(* A service reads the open audits as they are.                            *)
LEMMA BootType ==
  ASSUME RewindTypeOK, NEW p \in Procs, Boot(p)
  PROVE  /\ RewindTypeOK' /\ DOMAIN list'[p] = Pending
         /\ \A a \in Pending : list'[p][a] = audits[a].detail
  <1> DEFINE l == [a \in Pending |-> audits[a].detail]
  <1>1. at' \in [Procs -> Places]
    BY GotoTyped DEF Boot, Places, Recovering
  <1>2. list' = [list EXCEPT ![p] = l] /\ DOMAIN list = Procs
    BY DEF Boot, RewindTypeOK
  <1>3. DOMAIN l = Pending /\ \A a \in Pending : l[a] = audits[a].detail
    OBVIOUS
  <1>4. Listed(l)
    BY <1>3, AuditTyped DEF Listed, Pending
  <1> HIDE DEF l
  <1>5. DOMAIN list' = Procs /\ list'[p] = l /\ \A q \in Procs : Listed(list'[q])
    BY <1>2, <1>4, TypeParts
  <1> QED
    BY <1>1, <1>3, <1>5 DEF Boot, RewindTypeOK, Places, Listed, journal, outside, MaxFaults

(* The end of recovery keeps the types.                                    *)
LEMMA RecoveredType ==
  ASSUME RewindTypeOK, NEW p \in Procs, Recovered(p)
  PROVE  RewindTypeOK'
  <1>1. at' \in [Procs -> Places]
    BY GotoTyped DEF Recovered, Places
  <1> QED
    BY <1>1 DEF Recovered, RewindTypeOK, Places, journal, outside, MaxFaults

(* The audit that recovery takes up next.                                  *)
Chosen(p) == Min(DOMAIN list[p])

(* What acquire makes of the run: it needs no fence, it is held already,   *)
(* it is claimed, or it is not to be had.                                  *)
Acquires(p, to, owned) ==
  \/ run.status = "suspended" /\ run.claim = Nobody /\ ~owned /\ to = "judge" /\ UNCHANGED run
  \/ run.owner = p /\ owned /\ to = "judge" /\ UNCHANGED run
  \/ /\ run.claim = Nobody /\ (run.status = "pending" \/ (run.status = "running" /\ run.owner = Dead))
     /\ run' = [run EXCEPT !.claim = p] /\ owned /\ to = "reactivate"
  \/ to = "terminal" /\ UNCHANGED run

(* The memory of a recovery that begins.                                   *)
LEMMA RecoversTyped ==
  ASSUME RewindTypeOK, NEW p \in Procs, DOMAIN list[p] # {}
  PROVE  LET m == Recovers(p, Chosen(p))
         IN  /\ Chosen(p) \in DOMAIN list[p]
             /\ m \in Memories /\ [m EXCEPT !.owned = TRUE] \in Memories
             /\ m.audit = Chosen(p) /\ m.det = list[p][Chosen(p)] /\ ~m.owned
  <1>1. DOMAIN list[p] \subseteq Nat /\ Listed(list[p])
    BY TypeParts DEF Listed
  <1>2. Chosen(p) \in DOMAIN list[p] /\ Chosen(p) \in Nat /\ list[p][Chosen(p)] \in Details
    BY <1>1, LeastEntry DEF Listed, Chosen
  <1> QED
    BY <1>2 DEF Recovers, Nothing, Memories, Children

(* Recovery takes up the first open audit: from a free run, with it, or    *)
(* not at all.                                                             *)
LEMMA AcquireType ==
  ASSUME RewindTypeOK, NEW p \in Procs, Acquire(p)
  PROVE  /\ RewindTypeOK' /\ Chosen(p) \in DOMAIN list[p]
         /\ at'[p] \in {"judge", "reactivate", "terminal"} /\ \A q \in Procs \ {p} : at'[q] = at[q]
         /\ mine'[p].audit = Chosen(p) /\ mine'[p].det = list[p][Chosen(p)]
         /\ Acquires(p, at'[p], mine'[p].owned)
  <1> DEFINE m == Recovers(p, Chosen(p))
             n == [m EXCEPT !.owned = TRUE]
  <1>1. /\ Chosen(p) \in DOMAIN list[p] /\ m \in Memories /\ n \in Memories
        /\ m.audit = Chosen(p) /\ m.det = list[p][Chosen(p)] /\ ~m.owned
    BY RecoversTyped DEF Acquire
  <1>2. n.audit = m.audit /\ n.det = m.det /\ n.owned
    BY <1>1 DEF Memories
  <1>3. /\ \/ run.status = "suspended" /\ run.claim = Nobody /\ Hold(p, m) /\ Goto(p, "judge") /\ UNCHANGED run
           \/ run.owner = p /\ Hold(p, n) /\ Goto(p, "judge") /\ UNCHANGED run
           \/ /\ run.claim = Nobody /\ (run.status = "pending" \/ (run.status = "running" /\ run.owner = Dead))
              /\ run' = [run EXCEPT !.claim = p] /\ Hold(p, n) /\ Goto(p, "reactivate")
           \/ Hold(p, m) /\ Goto(p, "terminal") /\ UNCHANGED run
        /\ UNCHANGED <<journal, outside, child, audits, list, faults, setting>>
    BY DEF Acquire, Chosen, Owns, Stealable
  <1> HIDE DEF m, n
  <1>4. /\ at' \in [Procs -> Places] /\ mine' \in [Procs -> Memories] /\ mine'[p] \in {m, n}
        /\ at'[p] \in {"judge", "reactivate", "terminal"} /\ \A q \in Procs \ {p} : at'[q] = at[q]
    BY <1>1, <1>3, HoldTyped, GotoTyped DEF Places, Recovering
  <1>5. Acquires(p, at'[p], mine'[p].owned)
    <2>1. ASSUME Hold(p, m) PROVE ~mine'[p].owned
      BY <2>1, <1>1, HoldTyped
    <2>2. ASSUME Hold(p, n) PROVE mine'[p].owned
      BY <2>2, <1>1, <1>2, HoldTyped
    <2>3. /\ Goto(p, "judge") => at'[p] = "judge"
          /\ Goto(p, "reactivate") => at'[p] = "reactivate"
          /\ Goto(p, "terminal") => at'[p] = "terminal"
      BY GotoTyped DEF Places, Recovering
    <2> QED
      BY <1>3, <2>1, <2>2, <2>3 DEF Acquires
  <1>6. run' \in RunRows
    BY <1>3 DEF RewindTypeOK, RunRows
  <1> QED
    BY <1>1, <1>2, <1>3, <1>4, <1>5, <1>6 DEF RewindTypeOK, Places, journal, outside, MaxFaults

(* The judgement of an audit keeps the types.                              *)
LEMMA JudgeType ==
  ASSUME RewindTypeOK, NEW p \in Procs, Judge(p)
  PROVE  RewindTypeOK'
  <1>0. mine[p] \in Memories /\ mine[p].det.comp \in Comps
    BY TypeParts, MemoryTyped
  <1>1. at' \in [Procs -> Places] /\ mine' \in [Procs -> Memories]
    <2>1. CASE Committed(mine[p].det)
      BY <2>1, TypeParts, GotoTyped, SMTT(30) DEF Judge, Places, Recovering
    <2>2. CASE ~Committed(mine[p].det)
      BY <1>0, <2>2, UndoTyped, ZenonT(60) DEF Judge
    <2> QED
      BY <2>1, <2>2
  <1> QED
    BY <1>1 DEF Judge, RewindTypeOK, Places, journal, outside, MaxFaults

(* The audit that is done with leaves the list.                            *)
LEMMA OnwardTyped ==
  ASSUME RewindTypeOK, NEW p \in Procs, Onward(p)
  PROVE  /\ at' \in [Procs -> Places] /\ at'[p] = "recover" /\ \A q \in Procs \ {p} : at'[q] = at[q]
         /\ DOMAIN list' = Procs /\ \A q \in Procs : Listed(list'[q])
         /\ DOMAIN list'[p] = DOMAIN list[p] \ {mine[p].audit}
         /\ \A a \in DOMAIN list'[p] : list'[p][a] = list[p][a]
  <1> DEFINE l == [a \in DOMAIN list[p] \ {mine[p].audit} |-> list[p][a]]
  <1>1. at' \in [Procs -> Places] /\ at'[p] = "recover" /\ \A q \in Procs \ {p} : at'[q] = at[q]
    BY GotoTyped DEF Onward, Places, Recovering
  <1>2. list' = [list EXCEPT ![p] = l] /\ DOMAIN list = Procs
    BY DEF Onward, RewindTypeOK
  <1>3. DOMAIN l = DOMAIN list[p] \ {mine[p].audit} /\ \A a \in DOMAIN l : l[a] = list[p][a]
    OBVIOUS
  <1>4. Listed(l)
    BY <1>3, TypeParts DEF Listed
  <1> HIDE DEF l
  <1>5. DOMAIN list' = Procs /\ list'[p] = l /\ \A q \in Procs : Listed(list'[q])
    BY <1>2, <1>4, TypeParts
  <1> QED
    BY <1>1, <1>3, <1>5

(* So does one that is resolved.                                           *)
LEMMA ResolveType ==
  ASSUME RewindTypeOK, NEW p \in Procs, NEW status \in {"completed", "failed"}, NEW detail \in Details,
         Resolve(p, status, detail)
  PROVE  RewindTypeOK'
  <1>1. audits' \in Seq(Audits) /\ Len(audits') <= MaxRewinds
    BY UpdateTyped DEF Resolve, Audits
  <1>2. at' \in [Procs -> Places] /\ DOMAIN list' = Procs /\ \A q \in Procs : Listed(list'[q])
    BY OnwardTyped DEF Resolve
  <1> QED
    BY <1>1, <1>2 DEF Resolve, RewindTypeOK, Places, Listed, journal, outside, MaxFaults

(* The three ways to resolve an audit keep the types.                      *)
LEMMA ResolvesType ==
  ASSUME RewindTypeOK, NEW p \in Procs, Finish(p) \/ Record(p) \/ TerminalFailure(p)
  PROVE  RewindTypeOK'
  <1>1. \E status \in {"completed", "failed"}, detail \in Details : Resolve(p, status, detail)
    BY TypeParts, MemoryTyped, ZenonT(60) DEF Finish, Record, TerminalFailure, Phases
  <1> QED
    BY <1>1, ResolveType

(* A failure of the database keeps the types.                              *)
LEMMA StoreFailsType ==
  ASSUME RewindTypeOK, NEW p \in Procs, StoreFails(p)
  PROVE  RewindTypeOK'
  <1>0. mine[p] \in Memories /\ mine[p].det.comp \in Comps
    BY TypeParts, MemoryTyped
  <1>1. at' \in [Procs -> Places] /\ mine' \in [Procs -> Memories]
        /\ DOMAIN list' = Procs /\ \A q \in Procs : Listed(list'[q])
    <2>0. DOMAIN list = Procs /\ \A q \in Procs : Listed(list[q])
      BY TypeParts DEF RewindTypeOK
    <2>1. CASE Undo(p, mine[p], mine[p].det.comp, "giveback") /\ UNCHANGED list
      BY <1>0, <2>0, <2>1, UndoTyped, ZenonT(60)
    <2>2. CASE UNCHANGED <<mine, list>> /\ \E to \in {"idle", "report", "terminal"} : Goto(p, to)
      BY <2>0, <2>2, TypeParts, GotoTyped DEF Places, Rewinding, Recovering
    <2>3. CASE /\ DOMAIN list[p] # {} /\ Hold(p, Recovers(p, Min(DOMAIN list[p])))
               /\ Goto(p, "terminal") /\ UNCHANGED list
      <3>1. Recovers(p, Min(DOMAIN list[p])) \in Memories
        BY <2>3, RecoversTyped DEF Chosen
      <3> QED
        BY <2>0, <2>3, <3>1, HoldTyped, GotoTyped DEF Places, Recovering
    <2>4. CASE Onward(p) /\ UNCHANGED mine
      BY <2>4, TypeParts, OnwardTyped
    <2> QED
      BY <2>1, <2>2, <2>3, <2>4 DEF StoreFails
  <1>2. faults' \in 0..setting'.maxFaults /\ setting' \in Settings
    BY FaultTyped DEF StoreFails
  <1> QED
    BY <1>1, <1>2 DEF StoreFails, RewindTypeOK, Places, Listed, journal, outside, MaxFaults

(* The death and the closing of a service keep the types.                  *)
LEMMA CrashType ==
  ASSUME RewindTypeOK, NEW p \in Procs, Crash(p) \/ Close(p)
  PROVE  RewindTypeOK'
  <1>1. at' \in [Procs -> Places]
    BY GotoTyped DEF Crash, Close, Places
  <1>2. mine' \in [Procs -> Memories]
    BY HoldTyped, DetailTyped DEF Crash, Close
  <1>3. DOMAIN list' = Procs /\ \A q \in Procs : Listed(list'[q])
    <2>1. Listed(<<>>)
      BY DEF Listed
    <2> QED
      BY <2>1, TypeParts DEF Crash, Close, RewindTypeOK
  <1>4. faults' \in 0..setting.maxFaults
    BY TypeParts DEF Crash, Close, MaxFaults, RewindTypeOK
  <1>5. run' \in RunRows
    BY DEF Crash, Close, Orphaned, RewindTypeOK, RunRows
  <1>6. UNCHANGED <<journal, outside, child, audits, setting>>
    BY DEF Crash, Close
  <1> QED
    BY <1>1, <1>2, <1>3, <1>4, <1>5, <1>6 DEF RewindTypeOK, Places, Listed, journal, outside, MaxFaults

(* The engine and the child keep the types.                                *)
LEMMA EngineType ==
  ASSUME RewindTypeOK, EngineTakes \/ EngineActs \/ EngineReleases \/ ChildMoves
  PROVE  RewindTypeOK'
  <1>1. CASE EngineTakes
    BY <1>1 DEF EngineTakes, RewindTypeOK, RunRows, journal, outside, memory, MaxFaults
  <1>2. CASE EngineReleases
    BY <1>2 DEF EngineReleases, Release, RewindTypeOK, RunRows, journal, outside, memory, MaxFaults
  <1>3. CASE ChildMoves
    BY <1>3 DEF ChildMoves, RewindTypeOK, Children, journal, outside, memory, MaxFaults
  <1>4. CASE EngineActs
    <2>1. tail' \in Entries /\ tail' \in 0..Last
      BY <1>4, RewindAssumption DEF EngineActs, RewindTypeOK, Entries
    <2>2. effect' \in [Entries -> Int]
      BY <1>4, <2>1 DEF EngineActs, RewindTypeOK
    <2> QED
      BY <1>4, <2>1, <2>2 DEF EngineActs, RewindTypeOK, memory, MaxFaults
  <1> QED
    BY <1>1, <1>2, <1>3, <1>4

(* The types hold at first.                                                *)
LEMMA InitType == RewindInit => RewindTypeOK
  <1> SUFFICES ASSUME RewindInit PROVE RewindTypeOK
    OBVIOUS
  <1>1. Last \in Nat /\ Initial \in 0..Last /\ MaxRewinds \in Nat /\ \A s \in Settings : s.maxFaults \in Nat
    BY RewindAssumption
  <1>2. 1..Initial \subseteq Entries /\ Initial \in 0..Last
    BY <1>1 DEF Entries
  <1>3. mine \in [Procs -> Memories]
    BY DetailTyped DEF RewindInit
  <1>4. at \in [Procs -> Places]
    BY DEF RewindInit, Places
  <1>5. effect \in [Entries -> Int]
    BY DEF RewindInit
  <1>6. DOMAIN list = Procs /\ \A p \in Procs : Listed(list[p])
    BY DEF RewindInit, Listed
  <1>7. audits \in Seq(Audits) /\ Len(audits) <= MaxRewinds
    BY <1>1 DEF RewindInit
  <1>8. faults \in 0..MaxFaults /\ setting \in Settings
    BY <1>1 DEF RewindInit, MaxFaults
  <1> QED
    BY <1>2, <1>3, <1>4, <1>5, <1>6, <1>7, <1>8 DEF RewindInit, RewindTypeOK, RunRows, Places, Listed, Children

(* Every step keeps the types.                                             *)
LEMMA NextType == RewindTypeOK /\ [RewindNext]_rewindVars => RewindTypeOK'
  <1> SUFFICES ASSUME RewindTypeOK, [RewindNext]_rewindVars PROVE RewindTypeOK'
    OBVIOUS
  <1>1. CASE UNCHANGED rewindVars
    BY <1>1 DEF rewindVars, RewindTypeOK, journal, outside, memory, MaxFaults
  <1>2. ASSUME NEW p \in Procs, Boot(p) \/ Close(p) \/ Claim(p) PROVE RewindTypeOK'
    BY <1>2, BootType, CrashType, ClaimType
  <1>3. ASSUME NEW p \in Procs, RewindStep(p) PROVE RewindTypeOK'
    BY <1>3, ActivateType, WriteAuditType, PreflightType, RevertType, RestoreType, SaveType, ArchiveType, CancelChildType,
       ReleaseType, CloseAuditType, UndoStepType, UndoEndsType DEF RewindStep
  <1>4. ASSUME NEW p \in Procs, RecoveryStep(p) PROVE RewindTypeOK'
    BY <1>4, RecoveredType, AcquireType, ActivateType, JudgeType, ReleaseType, ResolvesType DEF RecoveryStep
  <1>5. ASSUME NEW p \in Procs, FaultStep(p) PROVE RewindTypeOK'
    BY <1>5, RollbackType, UndoStepType, StoreFailsType, CrashType DEF FaultStep
  <1> QED
    BY <1>1, <1>2, <1>3, <1>4, <1>5, EngineType DEF RewindNext

-----------------------------------------------------------------------------
(* Who holds the run *)

(* Where a rewind is until it has cut the suffix, and where a rewind or a  *)
(* recovery has a claim and nothing more.                                  *)
BeforeCut == {"audit", "preflight", "revert", "restore", "save", "archive"}
Claiming == {"activate", "reactivate"}
RunHeld ==
    /\ run.status # "running" => run.owner = Nobody
    /\ \A p \in Procs : at[p] \in BeforeCut => run.owner = p
    /\ \A p \in Procs : at[p] \in Claiming => run.claim = p /\ run.owner \notin Procs

(* A step that leaves the run alone and enters the region from inside.     *)
LEMMA HeldStays ==
  ASSUME RewindTypeOK, RunHeld, NEW p \in Procs, NEW to \in Places, Goto(p, to) \/ UNCHANGED at,
         UNCHANGED run, to \in BeforeCut => at[p] \in BeforeCut, to \notin Claiming
  PROVE  RunHeld'
  <1>1. \A q \in Procs : at'[q] \in BeforeCut => at[q] \in BeforeCut
    BY GotoTyped
  <1>2. \A q \in Procs : at'[q] \in Claiming => at[q] \in Claiming
    BY GotoTyped
  <1> QED
    BY <1>1, <1>2 DEF RunHeld

(* A step that takes neither the run nor the claim of another.             *)
LEMMA HeldMoves ==
  ASSUME RewindTypeOK, RunHeld, NEW p \in Procs, NEW to \in Places, Goto(p, to),
         run'.status # "running" => run'.owner = Nobody,
         \A q \in Procs \ {p} : run.owner = q => run'.owner = q,
         \A q \in Procs \ {p} : run.claim = q /\ run.owner \notin Procs => run'.claim = q /\ run'.owner \notin Procs,
         to \in BeforeCut => run'.owner = p,
         to \in Claiming => run'.claim = p /\ run'.owner \notin Procs
  PROVE  RunHeld'
  <1>1. at'[p] = to /\ \A q \in Procs \ {p} : at'[q] = at[q]
    BY GotoTyped
  <1> QED
    BY <1>1 DEF RunHeld

(* Its owner gives the run back.                                           *)
LEMMA HeldReleased ==
  ASSUME RewindTypeOK, RunHeld, NEW p \in Procs, NEW to \in Places \ (BeforeCut \cup Claiming), Goto(p, to),
         run.owner = p, NEW status \in {"pending", "suspended"}, Release(status)
  PROVE  RunHeld'
  <1>0. Nobody \notin Procs
    BY RewindAssumption
  <1>1. run'.status # "running" /\ run'.owner = Nobody /\ run'.claim = run.claim
    BY DEF Release, RewindTypeOK, RunRows
  <1> QED
    BY <1>0, <1>1, HeldMoves

(* A claim on a run that nobody else has claimed, and its activation.      *)
LEMMA HeldClaimed ==
  ASSUME RewindTypeOK, RunHeld, NEW p \in Procs,
         \/ /\ run.claim = Nobody /\ run.owner \notin Procs /\ run' = [run EXCEPT !.claim = p]
            /\ \E to \in Claiming : Goto(p, to)
         \/ Activate(p) \/ Reactivate(p)
  PROVE  RunHeld'
  <1>0. Nobody \notin Procs
    BY RewindAssumption
  <1> USE DEF Places, Rewinding, Recovering, BeforeCut, Claiming
  <1>1. CASE Activate(p) \/ Reactivate(p)
    <2>1. /\ \E to \in {"audit", "judge"} : Goto(p, to)
          /\ run.claim = p /\ run.owner \notin Procs
          /\ run'.status = "running" /\ run'.owner = p /\ run'.claim = Nobody
      BY <1>1 DEF Activate, Reactivate, Activated, RunHeld
    <2> QED
      BY <2>1, HeldMoves
  <1>2. CASE /\ run.claim = Nobody /\ run.owner \notin Procs /\ run' = [run EXCEPT !.claim = p]
             /\ \E to \in Claiming : Goto(p, to)
    <2>1. run'.status = run.status /\ run'.owner = run.owner /\ run'.claim = p
      BY <1>2 DEF RewindTypeOK, RunRows
    <2> QED
      BY <1>0, <1>2, <2>1, HeldMoves DEF RunHeld
  <1> QED
    BY <1>1, <1>2

(* A step of a rewind takes the run from no other rewind.                  *)
LEMMA HeldByRewind ==
  ASSUME RewindTypeOK, RunHeld, NEW p \in Procs, RewindStep(p)
  PROVE  RunHeld'
  <1> USE DEF Places, Rewinding, Recovering, BeforeCut, Claiming
  <1>1. CASE WriteAudit(p) \/ Preflight(p) \/ Revert(p) \/ Restore(p)
    BY <1>1, HeldStays DEF WriteAudit, Preflight, Revert, Restore, Undo
  <1>2. CASE Save(p) \/ Archive(p) \/ Commit(p) \/ CancelChild(p) \/ Complete(p) \/ UndoStep(p) \/ Report(p)
    <2>1. UNCHANGED run /\ \E to \in Places \ Claiming :
             (Goto(p, to) \/ UNCHANGED at) /\ (to \in BeforeCut => at[p] \in BeforeCut)
      BY <1>2 DEF Save, Archive, Commit, CancelChild, Complete, UndoStep, Report
    <2> QED
      BY <2>1, HeldStays
  <1>3. CASE UndoEnds(p)
    <2>1. mine[p].then \in {"again", "giveback", "reinstate"}
      BY TypeParts, MemoryTyped
    <2>2. UNCHANGED run /\ \E to \in {"undo", "terminal", "giveback", "reinstate"} : Goto(p, to)
      BY <1>3, <2>1 DEF UndoEnds, Undo
    <2> QED
      BY <2>2, HeldStays
  <1>4. CASE Suspend(p) \/ GiveBack(p)
    <2>0. mine[p].det.original \in {"pending", "suspended"}
      BY TypeParts, MemoryTyped
    <2>1. \E to \in {"complete", "idle", "report"} :
             /\ Goto(p, to)
             /\ run' = run \/ (run.owner = p /\ \E status \in {"pending", "suspended"} : Release(status))
      BY <1>4, <2>0 DEF Suspend, GiveBack, Owns
    <2> QED
      BY <2>1, HeldStays, HeldReleased
  <1>5. CASE Activate(p)
    BY <1>5, HeldClaimed
  <1> QED
    BY <1>1, <1>2, <1>3, <1>4, <1>5 DEF RewindStep

(* Nor does a step of a recovery.                                          *)
LEMMA HeldByRecovery ==
  ASSUME RewindTypeOK, RunHeld, NEW p \in Procs, RecoveryStep(p)
  PROVE  RunHeld'
  <1> USE DEF Places, Rewinding, Recovering, BeforeCut, Claiming
  <1>1. CASE Recovered(p) \/ Judge(p) \/ Finish(p) \/ Record(p) \/ TerminalFailure(p)
    <2>1. UNCHANGED run /\ \E to \in {"idle", "undo", "recover", "resuspend", "finish"} : Goto(p, to)
      BY <1>1 DEF Recovered, Judge, Undo, Finish, Record, TerminalFailure, Resolve, Onward
    <2> QED
      BY <2>1, HeldStays
  <1>2. CASE Resuspend(p) \/ Reinstate(p)
    <2>0. mine[p].det.original \in {"pending", "suspended"}
      BY TypeParts, MemoryTyped
    <2>1. \E to \in {"finish", "record", "terminal"} :
             /\ Goto(p, to)
             /\ run' = run \/ (run.owner = p /\ \E status \in {"pending", "suspended"} : Release(status))
      BY <1>2, <2>0 DEF Resuspend, Reinstate, Owns
    <2> QED
      BY <2>1, HeldStays, HeldReleased
  <1>3. CASE Acquire(p)
    <2>0. Nobody \notin Procs /\ Dead \notin Procs
      BY RewindAssumption
    <2>1. \/ UNCHANGED run /\ \E to \in {"judge", "terminal"} : Goto(p, to)
          \/ /\ run.claim = Nobody /\ run.owner \in {Nobody, Dead}
             /\ run' = [run EXCEPT !.claim = p] /\ Goto(p, "reactivate")
      BY <1>3 DEF Acquire, Stealable, RunHeld
    <2> QED
      BY <2>0, <2>1, HeldStays, HeldClaimed
  <1>4. CASE Reactivate(p)
    BY <1>4, HeldClaimed
  <1> QED
    BY <1>1, <1>2, <1>3, <1>4 DEF RecoveryStep

(* Nor does a fault, a service that comes or goes, or a claim.             *)
LEMMA HeldByFaults ==
  ASSUME RewindTypeOK, RunHeld, NEW p \in Procs, FaultStep(p) \/ Boot(p) \/ Close(p) \/ Claim(p)
  PROVE  RunHeld'
  <1>0. Nobody \notin Procs /\ Dead \notin Procs
    BY RewindAssumption
  <1> USE DEF Places, Rewinding, Recovering, BeforeCut, Claiming
  <1>1. CASE RevertFails(p) \/ RestoreFails(p) \/ Interrupted(p) \/ UndoFails(p) \/ StoreFails(p) \/ Boot(p)
    <2>1. UNCHANGED run /\ \E to \in {"undo", "idle", "report", "terminal", "recover"} : Goto(p, to) \/ UNCHANGED at
      BY <1>1 DEF RevertFails, RestoreFails, Interrupted, UndoFails, StoreFails, Boot, Undo, Onward
    <2> QED
      BY <2>1, HeldStays
  <1>2. CASE Crash(p) \/ Close(p)
    <2>1. /\ Goto(p, "down") /\ run'.status = run.status
          /\ run'.owner = IF run.owner = p THEN Dead ELSE run.owner
          /\ run'.claim = IF run.claim = p THEN Dead ELSE run.claim
      BY <1>2 DEF Crash, Close, Orphaned, RewindTypeOK, RunRows
    <2> QED
      BY <1>0, <2>1, HeldMoves DEF RunHeld
  <1>3. CASE Claim(p)
    BY <1>0, <1>3, HeldClaimed DEF Claim, Claimable
  <1> QED
    BY <1>1, <1>2, <1>3 DEF FaultStep

(* Nor does an engine that takes no run from a live owner.                 *)
LEMMA HeldByEngine ==
  ASSUME RewindTypeOK, RunHeld, Undisplaced, EngineTakes \/ EngineActs \/ EngineReleases \/ ChildMoves
  PROVE  RunHeld'
  <1>0. Engine \notin Procs /\ Nobody \notin Procs /\ Engine # Nobody
    BY RewindAssumption DEF Engine, Nobody
  <1>1. UNCHANGED at
    BY DEF EngineTakes, EngineActs, EngineReleases, ChildMoves, memory
  <1>2. CASE EngineTakes
    <2>1. /\ run.owner \notin Procs /\ run.claim = Nobody /\ run'.status = "running"
          /\ run'.owner = Engine /\ run'.claim = run.claim
      BY <1>2 DEF EngineTakes, Undisplaced, RewindTypeOK, RunRows
    <2> QED
      BY <1>0, <1>1, <2>1 DEF RunHeld
  <1>3. CASE EngineReleases
    <2>1. run.owner = Engine /\ run'.owner = Nobody /\ run'.claim = run.claim
      BY <1>3 DEF EngineReleases, Release, RewindTypeOK, RunRows
    <2> QED
      BY <1>0, <1>1, <2>1 DEF RunHeld
  <1>4. CASE EngineActs \/ ChildMoves
    BY <1>1, <1>4 DEF EngineActs, ChildMoves, RunHeld
  <1> QED
    BY <1>2, <1>3, <1>4

(* Nobody holds the run at first.                                          *)
LEMMA InitHeld == RewindInit => RunHeld
  BY DEF RewindInit, RunHeld, BeforeCut, Claiming

(* No step changes the composition.                                        *)
LEMMA SettingStays ==
  ASSUME [RewindNext]_rewindVars
  PROVE  setting' = setting
  <1>1. ASSUME NEW p \in Procs, RewindStep(p) PROVE setting' = setting
    BY <1>1 DEF RewindStep, Activate, WriteAudit, Preflight, Revert, Restore, Save, Archive, Commit, CancelChild, Suspend,
       Complete, UndoStep, UndoEnds, GiveBack, Report
  <1>2. ASSUME NEW p \in Procs, RecoveryStep(p) PROVE setting' = setting
    BY <1>2 DEF RecoveryStep, Recovered, Acquire, Reactivate, Judge, Resuspend, Reinstate, Finish, Record, TerminalFailure, Resolve
  <1>3. ASSUME NEW p \in Procs, FaultStep(p) \/ Boot(p) \/ Close(p) \/ Claim(p) PROVE setting' = setting
    BY <1>3 DEF FaultStep, RevertFails, RestoreFails, Interrupted, UndoFails, StoreFails, Crash, Boot, Close, Claim
  <1>4. ASSUME EngineTakes \/ EngineActs \/ EngineReleases \/ ChildMoves PROVE setting' = setting
    BY <1>4 DEF EngineTakes, EngineActs, EngineReleases, ChildMoves
  <1> QED
    BY <1>1, <1>2, <1>3, <1>4 DEF RewindNext, rewindVars

(* A rewind holds its run until it has cut the suffix.                     *)
HeldUndisplaced == Undisplaced => RunHeld
LEMMA NextHeld == RewindTypeOK /\ HeldUndisplaced /\ [RewindNext]_rewindVars => HeldUndisplaced'
  <1> SUFFICES ASSUME RewindTypeOK, HeldUndisplaced, [RewindNext]_rewindVars, Undisplaced' PROVE RunHeld'
    BY DEF HeldUndisplaced
  <1>0. Undisplaced /\ RunHeld
    BY SettingStays DEF HeldUndisplaced, Undisplaced, Drives
  <1>1. CASE UNCHANGED rewindVars
    BY <1>0, <1>1 DEF rewindVars, memory, RunHeld
  <1> QED
    BY <1>0, <1>1, HeldByRewind, HeldByRecovery, HeldByFaults, HeldByEngine DEF RewindNext

(* Only archiveAndTruncate cuts.                                           *)
LEMMA CutByArchive ==
  ASSUME RunHeld, RewindNext, archive' # archive
  PROVE  \E p \in Procs : at[p] = "archive" /\ Owns(p)
  <1>1. ASSUME NEW p \in Procs, Archive(p) PROVE at[p] = "archive" /\ Owns(p)
    BY <1>1 DEF Archive, RunHeld, BeforeCut, Owns
  <1>2. ASSUME NEW p \in Procs, RewindStep(p) PROVE Archive(p)
    BY <1>2 DEF RewindStep, Activate, WriteAudit, Preflight, Revert, Restore, Save, Commit, CancelChild, Suspend,
       Complete, UndoStep, UndoEnds, GiveBack, Report, journal
  <1>3. ASSUME NEW p \in Procs, RecoveryStep(p) PROVE FALSE
    BY <1>3 DEF RecoveryStep, Recovered, Acquire, Reactivate, Judge, Resuspend, Reinstate, Finish, Record,
       TerminalFailure, Resolve, journal
  <1>4. ASSUME NEW p \in Procs, FaultStep(p) \/ Boot(p) \/ Close(p) \/ Claim(p) PROVE FALSE
    BY <1>4 DEF FaultStep, RevertFails, RestoreFails, Interrupted, UndoFails, StoreFails, Crash, Boot, Close, Claim, journal
  <1>5. ASSUME EngineTakes \/ EngineActs \/ EngineReleases \/ ChildMoves PROVE FALSE
    BY <1>5 DEF EngineTakes, EngineActs, EngineReleases, ChildMoves, journal
  <1> QED
    BY <1>1, <1>2, <1>3, <1>4, <1>5 DEF RewindNext

(* Every value keeps its type, in every composition of services and        *)
(* faults: the tables of the store, and what a rewind or a recovery holds  *)
(* at any await.                                                           *)
THEOREM RewindTypeCorrect == RewindSpec => []RewindTypeOK
  BY InitType, NextType, PTL DEF RewindSpec

(* History is cut only by the process that owns the run, whichever rewinds *)
(* and recoveries overlap and whatever fails in them, in every composition *)
(* in which no engine takes the run from an owner that lives.              *)
THEOREM CutIsFenced == RewindSpec => Fenced
  <1>1. RewindSpec => [](RewindTypeOK /\ HeldUndisplaced)
    <2>1. RewindInit => HeldUndisplaced
      BY InitHeld DEF HeldUndisplaced
    <2> QED
      BY <2>1, InitType, NextHeld, NextType, PTL DEF RewindSpec
  <1>2. (RewindTypeOK /\ HeldUndisplaced) /\ [RewindNext]_rewindVars =>
          [(Undisplaced /\ archive' # archive) => \E p \in Procs : at[p] = "archive" /\ Owns(p)]_rewindVars
    BY CutByArchive DEF HeldUndisplaced
  <1> QED
    BY <1>1, <1>2, PTL DEF RewindSpec, Fenced

-----------------------------------------------------------------------------
(* The journal and the world *)

(* What the services' composition excludes.                                *)
LEMMA ToleratedFacts ==
  ASSUME RewindTypeOK, Tolerated
  PROVE  /\ \A p \in Procs : ~RestoreFails(p) /\ ~Interrupted(p) /\ ~UndoFails(p)
         /\ \A f : Fault(f) => Calm /\ (setting' = setting => ~Calm')
         /\ \A p \in Procs : Crash(p) => Calm /\ ~Calm'
  <1>1. setting.maxFaults \in {0, 1} /\ faults \in 0..setting.maxFaults
    BY TypeParts DEF Tolerated, MaxFaults, RewindTypeOK
  <1>2. \A f : Fault(f) => Calm /\ (setting' = setting => ~Calm')
    BY <1>1 DEF Fault, Calm, MaxFaults
  <1>3. \A p \in Procs : Crash(p) => Calm /\ ~Calm'
    BY <1>1 DEF Crash, Calm, MaxFaults
  <1>4. \A p \in Procs : ~RestoreFails(p) /\ ~Interrupted(p) /\ ~UndoFails(p)
    BY DEF Tolerated, RestoreFails, Interrupted, UndoFails, Fault
  <1> QED
    BY <1>2, <1>3, <1>4

(* Everything is said of the process that is up, or of any if none is.     *)
LEMMA Focus ==
  ASSUME NEW p \in Procs, NEW q \in Procs, Sound(p), at[q] # "down" \/ \A r \in Procs : at[r] = "down"
  PROVE  Sound(q)
  <1>1. CASE q = p
    BY <1>1
  <1>2. CASE q # p
    <2>1. \A r \in Procs : at[r] = "down"
      BY <1>2 DEF Sound, Alone
    <2>2. Alone(q)
      BY <2>1 DEF Alone
    <2>3. Ownership(q)
      BY <2>1 DEF Sound, Ownership, Holds, Rewinds, Settling, Rewinding
    <2>4. Books(q)
      BY <2>1 DEF Sound, Books, Rewinds, Settling, Rewinding
    <2>5. Orderly(q)
      BY <2>1 DEF Sound, Orderly, Rewinds, Rewinding
    <2>6. World(q)
      BY <2>1 DEF Sound, World, Rested, Stage, Undisturbed, Rewinds, Settling, Rewinding
    <2> QED
      BY <2>2, <2>3, <2>4, <2>5, <2>6 DEF Sound
  <1> QED
    BY <1>1, <1>2

(* A step of one process leaves the others down.                           *)
LEMMA AloneStays ==
  ASSUME NEW p \in Procs, Alone(p), \A q \in Procs \ {p} : at'[q] = at[q]
  PROVE  Alone(p)'
  BY DEF Alone

(* An audit that is open is replaced.                                      *)
LEMMA UpdateFacts ==
  ASSUME RewindTypeOK, NEW a \in Pending, NEW status \in {"in_progress", "completed", "failed"},
         NEW detail \in Details, Update(a, status, detail), audits[a].detail.phase # "terminal_failure"
  PROVE  /\ Pending' = IF status = "in_progress" THEN Pending ELSE Pending \ {a}
         /\ audits'[a].detail = detail /\ \A b \in Pending \ {a} : audits'[b] = audits[b]
         /\ detail.phase = "terminal_failure" => Disclosed'
         /\ Disclosed => Disclosed'
  <1>1. a \in DOMAIN audits /\ audits[a].status = "in_progress"
    BY DEF Pending
  <1>2. /\ DOMAIN audits' = DOMAIN audits
        /\ \A b \in DOMAIN audits : audits'[b] = IF b = a THEN [status |-> status, detail |-> detail] ELSE audits[b]
    BY UpdateTyped DEF Audits
  <1>3. Pending' = IF status = "in_progress" THEN Pending ELSE Pending \ {a}
    BY <1>1, <1>2 DEF Pending
  <1>4. Disclosed => Disclosed'
    BY <1>1, <1>2 DEF Disclosed
  <1> QED
    BY <1>1, <1>2, <1>3, <1>4 DEF Pending, Disclosed

(* A step that writes no audit leaves open what was open.                  *)
LEMMA SameAudits ==
  ASSUME UNCHANGED audits
  PROVE  Pending' = Pending /\ (Disclosed' <=> Disclosed) /\ \A a : Plain(a)' <=> Plain(a)
  BY DEF Pending, Disclosed, Plain

(* The rewound run is suspended and freed.                                 *)
LEMMA SuspendSound ==
  ASSUME RewindTypeOK, RewindTypeOK', Tolerated, NEW p \in Procs, Sound(p), Suspend(p)
  PROVE  Sound(p)'
  <1>0. run.owner = p /\ p # Nobody /\ at[p] = "suspend"
    BY RewindAssumption DEF Suspend, Sound, Ownership, Holds, Rewinds, Rewinding
  <1>1. /\ at'[p] = "complete" /\ \A q \in Procs \ {p} : at'[q] = at[q]
        /\ run'.status = "suspended" /\ run'.owner = Nobody
        /\ UNCHANGED <<journal, outside, child, audits, mine, list, faults, setting>>
    BY <1>0, GotoTyped DEF Suspend, Owns, Release, Places, Rewinding, RewindTypeOK, RunRows
  <1>2. Alone(p)'
    BY <1>1, AloneStays DEF Sound
  <1>3. Ownership(p)'
    BY <1>1 DEF Sound, Ownership, Holds, Rewinds, Settling
  <1>4. Books(p)'
    BY <1>0, <1>1, SameAudits DEF Sound, Books, Rewinds, Settling, Rewinding
  <1>5. Orderly(p)'
    BY <1>0, <1>1, SameAudits DEF Sound, Orderly, Calm, Rewinds, Rewinding, MaxFaults
  <1>6. World(p)'
    BY <1>0, <1>1, SameAudits DEF Sound, World, Stage, Debt, Clean, Rewinds, Settling, Rewinding, Undisturbed, journal, outside
  <1> QED
    BY <1>2, <1>3, <1>4, <1>5, <1>6 DEF Sound

(* Open audits are audits, and 0 is none.                                  *)
LEMMA PendingFacts ==
  ASSUME RewindTypeOK
  PROVE  /\ 0 \notin Pending
         /\ \A a \in Pending : /\ a \in DOMAIN audits /\ audits[a].status = "in_progress"
                               /\ audits[a].detail \in Details /\ a \in Nat
  BY AuditTyped DEF Pending

(* A rewind claims a run of which no audit is open, or that was left       *)
(* clean.                                                                  *)
LEMMA ClaimSound ==
  ASSUME RewindTypeOK, RewindTypeOK', Tolerated, NEW p \in Procs, Sound(p), Claim(p)
  PROVE  Sound(p)'
  <1>0. run.owner = Nobody /\ at[p] = "idle" /\ run.status \in {"pending", "suspended"}
    BY DEF Claim, Claimable
  <1>1. /\ at'[p] = "activate" /\ \A q \in Procs \ {p} : at'[q] = at[q]
        /\ run'.status = run.status /\ run'.owner = run.owner /\ run'.claim = p
        /\ UNCHANGED <<journal, outside, child, audits, list, faults, setting>>
    BY <1>0, GotoTyped DEF Claim, Places, RewindTypeOK, RunRows
  <1>2. mine'[p].audit = 0 /\ mine'[p].det.comp = NoComp /\ mine'[p].det.phase = "audit_written"
    <2>1. [Nothing EXCEPT !.det = Detail(run.status)] \in Memories
      BY <1>0, DetailTyped, MemoryTyped
    <2>2. mine'[p] = [Nothing EXCEPT !.det = Detail(run.status)]
      BY <2>1, HoldTyped DEF Claim
    <2> QED
      BY <2>2 DEF Nothing, Detail
  <1>3. Alone(p)'
    BY <1>1, AloneStays DEF Sound
  <1>4. Ownership(p)'
    BY <1>0, <1>1 DEF Sound, Ownership, Holds, Rewinds, Settling, Rewinding
  <1>5. Books(p)'
    BY <1>0, <1>1, <1>2, SameAudits DEF Sound, Books, Rewinds, Settling, Rewinding
  <1>6. Orderly(p)'
    BY <1>0, <1>1, SameAudits DEF Sound, Orderly, Calm, Rewinds, Rewinding, MaxFaults
  <1>7. World(p)'
    <2>1. ~Disclosed => Clean /\ \A a \in Pending : Plain(a)
      BY <1>0 DEF Sound, World, Rested
    <2> QED
      BY <1>0, <1>1, <2>1, SameAudits
      DEF World, Rested, Stage, Debt, Clean, Rewinds, Settling, Rewinding, Undisturbed, journal, outside
  <1> QED
    BY <1>3, <1>4, <1>5, <1>6, <1>7 DEF Sound

(* The claim is activated: the run is the rewind's.                        *)
LEMMA ActivateSound ==
  ASSUME RewindTypeOK, RewindTypeOK', Tolerated, NEW p \in Procs, Sound(p), Activate(p)
  PROVE  Sound(p)'
  <1>0. run.owner = Nobody /\ p # Nobody /\ at[p] = "activate"
    BY RewindAssumption DEF Activate, Sound, Ownership
  <1>1. /\ at'[p] = "audit" /\ \A q \in Procs \ {p} : at'[q] = at[q]
        /\ run'.status = "running" /\ run'.owner = p
        /\ UNCHANGED <<journal, outside, child, audits, mine, list, faults, setting>>
    BY GotoTyped DEF Activate, Activated, Places, Rewinding
  <1>2. Alone(p)'
    BY <1>1, AloneStays DEF Sound
  <1>3. Ownership(p)'
    BY <1>0, <1>1 DEF Ownership, Holds, Rewinds, Settling
  <1>4. Books(p)'
    BY <1>0, <1>1, SameAudits DEF Sound, Books, Rewinds, Settling, Rewinding
  <1>5. Orderly(p)'
    <2>1. Calm => Pending = {}
      BY <1>0 DEF Sound, Orderly, Rewinds, Rewinding
    <2> QED
      BY <1>1, <2>1, SameAudits DEF Orderly, Calm, Rewinds, Rewinding, MaxFaults
  <1>6. World(p)'
    <2>1. ~Disclosed => Clean /\ \A a \in Pending : Plain(a)
      BY <1>0 DEF Sound, World, Rested
    <2> QED
      BY <1>0, <1>1, <2>1, SameAudits
      DEF World, Stage, Debt, Clean, Rewinds, Settling, Rewinding, Undisturbed, journal, outside
  <1> QED
    BY <1>2, <1>3, <1>4, <1>5, <1>6 DEF Sound

(* The audit is written before anything is done.                           *)
LEMMA WriteAuditSound ==
  ASSUME RewindTypeOK, RewindTypeOK', Tolerated, NEW p \in Procs, Sound(p), WriteAudit(p)
  PROVE  Sound(p)'
  <1> DEFINE n == Len(audits')
  <1>0. at[p] = "audit" /\ mine[p].audit = 0 /\ mine[p].det.comp = NoComp /\ mine[p].det.phase = "audit_written"
    BY DEF WriteAudit, Sound, Books
  <1>1. /\ at'[p] = "preflight" /\ \A q \in Procs \ {p} : at'[q] = at[q]
        /\ UNCHANGED <<run, journal, outside, child, list, faults, setting>>
    BY <1>0, GotoTyped DEF WriteAudit, Places, Rewinding
  <1>2. /\ n \notin DOMAIN audits /\ DOMAIN audits' = DOMAIN audits \cup {n} /\ n \in Nat \ {0}
        /\ audits'[n].status = "in_progress" /\ audits'[n].detail = mine[p].det
        /\ \A a \in DOMAIN audits : audits'[a] = audits[a]
    <2>1. audits'[n] = [status |-> "in_progress", detail |-> mine[p].det]
      BY WriteAuditType
    <2>2. /\ n \notin DOMAIN audits /\ DOMAIN audits' = DOMAIN audits \cup {n} /\ n \in Nat \ {0}
          /\ \A a \in DOMAIN audits : audits'[a] = audits[a]
      BY WriteAuditType
    <2>3. audits'[n].status = "in_progress" /\ audits'[n].detail = mine[p].det
      BY <2>1
    <2> QED
      BY <2>2, <2>3
  <1>3. mine'[p].audit = n /\ mine'[p].det = mine[p].det
    <2>1. [mine[p] EXCEPT !.audit = n] \in Memories
      BY <1>2, TypeParts, MemoryTyped
    <2>2. mine'[p] = [mine[p] EXCEPT !.audit = n]
      BY <2>1, HoldTyped DEF WriteAudit
    <2> QED
      BY <2>2, TypeParts DEF Memories
  <1> HIDE DEF n
  <1>4. /\ Pending' = Pending \cup {n} /\ n \notin Pending /\ \A a \in Pending : audits'[a] = audits[a]
        /\ Disclosed => Disclosed'
    BY <1>2 DEF Pending, Disclosed
  <1>5. Alone(p)'
    BY <1>1, AloneStays DEF Sound
  <1>6. Ownership(p)'
    BY <1>0, <1>1 DEF Sound, Ownership, Holds, Rewinds, Settling, Rewinding
  <1>7. Books(p)'
    BY <1>0, <1>1, <1>2, <1>3, <1>4 DEF Sound, Books, Rewinds, Settling, Rewinding, OpenPhases
  <1>8. Orderly(p)'
    <2>1. Calm => Pending = {}
      BY <1>0, PendingFacts DEF Sound, Orderly, Rewinds, Rewinding
    <2> QED
      BY <1>1, <1>3, <1>4, <2>1 DEF Orderly, Calm, Rewinds, Rewinding, MaxFaults
  <1>9. World(p)'
    <2>1. ~Disclosed => Clean /\ \A a \in Pending : Plain(a)
      BY <1>0, PendingFacts DEF Sound, World, Stage, Undisturbed, Rewinds, Rewinding
    <2> QED
      BY <1>1, <1>3, <1>4, <2>1
      DEF World, Stage, Debt, Clean, Plain, Rewinds, Settling, Rewinding, Undisturbed, journal, outside
  <1> QED
    BY <1>5, <1>6, <1>7, <1>8, <1>9 DEF Sound

(* The rewind is refused: a child that it may not cancel is in its way.    *)
LEMMA PreflightBlocks ==
  ASSUME RewindTypeOK, RewindTypeOK', Tolerated, NEW p \in Procs, Sound(p), Preflight(p),
         Policy = "block" /\ Crossed \in {"suspended", "running"}
  PROVE  Sound(p)'
  <1>0. at[p] = "preflight" /\ mine[p].audit \in Pending /\ audits[mine[p].audit].detail.comp = NoComp
    BY PendingFacts, SMTT(30) DEF Preflight, Sound, Books, Rewinds, Rewinding
  <1>1. /\ at'[p] = "undo" /\ \A q \in Procs \ {p} : at'[q] = at[q]
        /\ mine'[p] = [mine[p] EXCEPT !.todo = {}, !.back = FALSE, !.bad = FALSE, !.then = "giveback"]
        /\ UNCHANGED <<run, journal, outside, child, audits, list, faults, setting>>
    BY TypeParts, DetailTyped, UndoTyped, ZenonT(60) DEF Preflight, NoComp
  <1>2. /\ mine'[p].audit = mine[p].audit /\ mine'[p].todo = {} /\ ~mine'[p].back /\ mine'[p].then = "giveback"
        /\ mine'[p].owned = mine[p].owned
    BY <1>1, TypeParts DEF Memories
  <1>3. Alone(p)'
    BY <1>1, AloneStays DEF Sound
  <1>4. Ownership(p)'
    BY <1>0, <1>1, <1>2 DEF Sound, Ownership, Holds, Rewinds, Settling, Rewinding
  <1>5. Books(p)'
    BY <1>0, <1>1, <1>2, SameAudits DEF Sound, Books, Rewinds, Settling, Rewinding
  <1>6. Orderly(p)'
    BY <1>0, <1>1, <1>2, SameAudits DEF Sound, Orderly, Calm, Rewinds, Rewinding, MaxFaults
  <1>7. World(p)'
    BY <1>0, <1>1, <1>2, SameAudits
    DEF Sound, World, Stage, Debt, Clean, Rewinds, Settling, Rewinding, Undisturbed, journal, outside
  <1> QED
    BY <1>3, <1>4, <1>5, <1>6, <1>7 DEF Sound

(* The suffix is measured, and nothing has been compensated yet.           *)
LEMMA PreflightPasses ==
  ASSUME RewindTypeOK, RewindTypeOK', Tolerated, NEW p \in Procs, Sound(p), Preflight(p),
         ~(Policy = "block" /\ Crossed \in {"suspended", "running"})
  PROVE  Sound(p)'
  <1> DEFINE a == mine[p].audit
             suffix == IF live = {} THEN 0 ELSE Max(live)
             det == [mine[p].det EXCEPT !.phase = "preflight_complete", !.suffix = suffix]
             m == [mine[p] EXCEPT !.det = det, !.kid = Crossed, !.todo = live \cap Irreversible,
                                  !.back = live \cap Compensable # {}]
  <1>0. /\ at[p] = "preflight" /\ a \in Pending /\ mine[p].det.comp = NoComp
        /\ audits[a].status = "in_progress" /\ audits[a].detail.phase # "terminal_failure"
    BY PendingFacts DEF Preflight, Sound, Books, Rewinds, Rewinding, OpenPhases
  <1>1. /\ Update(a, "in_progress", det) /\ Hold(p, m) /\ Goto(p, "revert")
        /\ UNCHANGED <<run, journal, outside, child, list, faults, setting>>
    BY <1>0 DEF Preflight
  <1>2. suffix \in 0..Last /\ (suffix \in live \/ (suffix = 0 /\ live = {}))
    <2>1. live \subseteq Entries /\ Last \in Nat
      BY TypeParts DEF RewindTypeOK
    <2>2. live # {} => Max(live) \in live
      BY <2>1, GreatestEntry
    <2>3. CASE live = {}
      BY <2>1, <2>3
    <2>4. CASE live # {}
      <3>1. suffix = Max(live) /\ Max(live) \in Entries
        BY <2>1, <2>2, <2>4
      <3> QED
        BY <2>1, <2>2, <2>4, <3>1 DEF Entries
    <2> QED
      BY <2>3, <2>4
  <1> HIDE DEF suffix
  <1>3. /\ det \in Details /\ det.comp = NoComp /\ det.suffix = suffix /\ det.phase = "preflight_complete"
    <2>1. mine[p].det \in Details
      BY TypeParts, MemoryTyped
    <2> QED
      BY <1>0, <1>2, <2>1 DEF Details, Phases
  <1> HIDE DEF det
  <1>4. /\ m \in Memories /\ m.det = det /\ m.todo = live \cap Irreversible /\ m.back = (live \cap Compensable # {})
        /\ m.audit = a
    <2>1. Crossed \in Children /\ live \cap Irreversible \subseteq Entries
      BY DEF Crossed, RewindTypeOK, Children
    <2> QED
      BY <1>3, <2>1, TypeParts, ZenonT(60) DEF Memories
  <1> HIDE DEF m
  <1>5. mine'[p] = m /\ at'[p] = "revert" /\ \A q \in Procs \ {p} : at'[q] = at[q]
    BY <1>1, <1>4, HoldTyped, GotoTyped DEF Places, Rewinding
  <1>6. /\ Pending' = Pending /\ audits'[a].detail = det /\ \A b \in Pending \ {a} : audits'[b] = audits[b]
        /\ Disclosed => Disclosed'
    BY <1>0, <1>1, <1>3, UpdateFacts
  <1> HIDE DEF a
  <1>7. Alone(p)'
    BY <1>5, AloneStays DEF Sound
  <1>8. Ownership(p)'
    BY <1>0, <1>1, <1>5 DEF Sound, Ownership, Holds, Rewinds, Settling, Rewinding
  <1>9. Books(p)'
    BY <1>0, <1>3, <1>4, <1>5, <1>6, PendingFacts DEF Sound, Books, Rewinds, Settling, Rewinding, OpenPhases
  <1>10. Orderly(p)'
    BY <1>0, <1>1, <1>4, <1>5, <1>6 DEF Sound, Orderly, Calm, Rewinds, Rewinding, MaxFaults, a
  <1>11. World(p)'
    <2>1. ASSUME ~Disclosed PROVE Clean /\ \A b \in Pending \ {a} : Plain(b)
      BY <1>0, <2>1 DEF Sound, World, Stage, Undisturbed, Rewinds, Rewinding, a
    <2>2. ASSUME ~Disclosed PROVE Stage(p)'
      BY <1>1, <1>2, <1>3, <1>4, <1>5, <2>1, <2>2
      DEF Stage, Debt, Clean, Measured, NoComp, Undisturbed, journal, outside
    <2> QED
      BY <1>4, <1>5, <1>6, <2>1, <2>2 DEF World, Plain, Rewinds, Settling, Rewinding
  <1> QED
    BY <1>7, <1>8, <1>9, <1>10, <1>11 DEF Sound

(* All handlers have run.                                                  *)
LEMMA RevertEndsSound ==
  ASSUME RewindTypeOK, RewindTypeOK', Tolerated, NEW p \in Procs, Sound(p), Revert(p), mine[p].todo = {}
  PROVE  Sound(p)'
  <1>1. /\ at[p] = "revert" /\ at'[p] = "restore" /\ \A q \in Procs \ {p} : at'[q] = at[q]
        /\ UNCHANGED <<run, journal, outside, child, audits, mine, list, faults, setting>>
    BY GotoTyped DEF Revert, Places, Rewinding, outside
  <1>2. Alone(p)'
    BY <1>1, AloneStays DEF Sound
  <1>3. Ownership(p)'
    BY <1>1 DEF Sound, Ownership, Holds, Rewinds, Settling, Rewinding
  <1>4. Books(p)'
    BY <1>1, SameAudits DEF Sound, Books, Rewinds, Settling, Rewinding
  <1>5. Orderly(p)'
    BY <1>1, SameAudits DEF Sound, Orderly, Calm, Rewinds, Rewinding, MaxFaults
  <1>6. World(p)'
    BY <1>1, SameAudits
    DEF Sound, World, Stage, Debt, Measured, Rewinds, Settling, Rewinding, Undisturbed, journal, outside
  <1> QED
    BY <1>2, <1>3, <1>4, <1>5, <1>6 DEF Sound

(* A handler takes back the last effect that still stands.                 *)
LEMMA RevertSound ==
  ASSUME RewindTypeOK, RewindTypeOK', Tolerated, NEW p \in Procs, Sound(p), Revert(p), mine[p].todo # {}
  PROVE  Sound(p)'
  <1> DEFINE e == Max(mine[p].todo)
             m == [mine[p] EXCEPT !.todo = @ \ {e}, !.det.comp.done = @ \cup {e}]
  <1>1. /\ at[p] = "revert" /\ Hold(p, m) /\ effect' = [effect EXCEPT ![e] = @ - 1] /\ UNCHANGED at
        /\ UNCHANGED <<run, journal, workspace, child, audits, list, faults, setting>>
    BY DEF Revert
  <1>2. e \in mine[p].todo /\ e \in Entries
    BY TypeParts, MemoryTyped, GreatestEntry
  <1> HIDE DEF e
  <1>3. /\ m \in Memories /\ m.audit = mine[p].audit /\ m.todo = mine[p].todo \ {e} /\ m.back = mine[p].back
        /\ m.det.comp.done = mine[p].det.comp.done \cup {e} /\ m.det.comp.back = mine[p].det.comp.back
        /\ m.det.suffix = mine[p].det.suffix /\ m.owned = mine[p].owned
    <2>1. mine[p] \in Memories
      BY TypeParts
    <2>2. m \in Memories
      BY <1>2, <2>1 DEF Memories, Details, Comps
    <2>3. /\ m.audit = mine[p].audit /\ m.todo = mine[p].todo \ {e} /\ m.back = mine[p].back
          /\ m.owned = mine[p].owned /\ m.det = [mine[p].det EXCEPT !.comp.done = @ \cup {e}]
      BY <2>1 DEF Memories
    <2>4. mine[p].det \in Details
      BY <2>1, MemoryTyped
    <2>5. /\ m.det.comp.done = mine[p].det.comp.done \cup {e} /\ m.det.comp.back = mine[p].det.comp.back
          /\ m.det.suffix = mine[p].det.suffix
      BY <2>3, <2>4 DEF Details, Comps
    <2> QED
      BY <2>2, <2>3, <2>5
  <1> HIDE DEF m
  <1>4. mine'[p] = m
    BY <1>1, <1>3, HoldTyped
  <1>5. Alone(p)'
    BY <1>1, AloneStays DEF Sound
  <1>6. Ownership(p)'
    BY <1>1 DEF Sound, Ownership, Holds, Rewinds, Settling, Rewinding
  <1>7. Books(p)'
    BY <1>1, <1>3, <1>4, SameAudits DEF Sound, Books, Rewinds, Settling, Rewinding
  <1>8. Orderly(p)'
    BY <1>1, <1>3, <1>4, SameAudits DEF Sound, Orderly, Calm, Rewinds, Rewinding, MaxFaults
  <1>9. World(p)'
    <2>1. ASSUME ~Disclosed PROVE Stage(p) /\ \A b \in Pending \ {mine[p].audit} : Plain(b)
      BY <1>1, <2>1 DEF Sound, World, Rewinds, Rewinding
    <2>2. ASSUME ~Disclosed PROVE Stage(p)'
      <3> DEFINE done == mine[p].det.comp.done
      <3>1. /\ Debt(done, FALSE) /\ ~mine[p].det.comp.back /\ Measured(mine[p].det) /\ done \subseteq live \cap Irreversible
            /\ mine[p].todo = (live \cap Irreversible) \ done /\ mine[p].back = (live \cap Compensable # {})
        BY <1>1, <2>1, <2>2 DEF Stage
      <3> HIDE DEF done
      <3>2. e \in live /\ e \in Irreversible /\ e \notin done
        BY <1>2, <3>1
      <3>3. effect'[e] = effect[e] - 1 /\ \A x \in Irreversible \ {e} : effect'[x] = effect[x]
        BY <1>1, <1>2, RewindAssumption DEF RewindTypeOK
      <3>4. effect[e] = 1
        BY <3>1, <3>2 DEF Debt
      <3>5. \A x \in Irreversible : effect'[x] = (IF x \in live THEN 1 ELSE 0) - (IF x \in done \cup {e} THEN 1 ELSE 0)
        BY <3>1, <3>2, <3>3, <3>4 DEF Debt
      <3>6. Debt(mine[p].det.comp.done, FALSE)'
        BY <1>1, <1>3, <1>4, <3>1, <3>5 DEF Debt, journal, done
      <3>7. /\ ~m.det.comp.back /\ m.det.comp.done \subseteq live \cap Irreversible /\ m.todo = (live \cap Irreversible) \ m.det.comp.done
            /\ m.back = (live \cap Compensable # {}) /\ Measured(m.det)
        BY <1>3, <3>1, <3>2 DEF Measured, done
      <3> QED
        BY <1>1, <1>4, <3>6, <3>7 DEF Stage, Undisturbed, Measured, journal
    <2> QED
      BY <1>1, <1>3, <1>4, <2>1, <2>2, SameAudits DEF World, Rewinds, Settling, Rewinding
  <1> QED
    BY <1>5, <1>6, <1>7, <1>8, <1>9 DEF Sound

(* A handler fails: what was compensated is still owed.                    *)
LEMMA RevertFailsSound ==
  ASSUME RewindTypeOK, RewindTypeOK', Tolerated, NEW p \in Procs, Sound(p), RevertFails(p)
  PROVE  Sound(p)'
  <1> DEFINE n == [mine[p] EXCEPT !.det.comp = NoComp]
             m == [n EXCEPT !.todo = mine[p].det.comp.done, !.back = mine[p].det.comp.back, !.bad = FALSE, !.then = "again"]
  <1>1. /\ at[p] = "revert" /\ Undo(p, n, mine[p].det.comp, "again") /\ ~Calm'
        /\ UNCHANGED <<run, journal, outside, child, audits, list, setting>>
    BY ToleratedFacts DEF RevertFails
  <1>2. n \in Memories /\ n.audit = mine[p].audit /\ n.det.comp = NoComp
    BY TypeParts, DetailTyped, ZenonT(60) DEF Memories, Details
  <1>3. mine'[p] = m /\ at'[p] = "undo" /\ \A q \in Procs \ {p} : at'[q] = at[q]
    <2>1. mine[p].det.comp \in Comps
      BY TypeParts, MemoryTyped
    <2> HIDE DEF n
    <2> QED
      BY <1>1, <1>2, <2>1, UndoTyped, ZenonT(60)
  <1> HIDE DEF n
  <1>4. /\ m.audit = mine[p].audit /\ m.todo = mine[p].det.comp.done /\ m.back = mine[p].det.comp.back
        /\ m.then = "again" /\ m.det.comp = NoComp /\ ~m.bad
    BY <1>2 DEF Memories
  <1> HIDE DEF m
  <1>5. Alone(p)'
    BY <1>3, AloneStays DEF Sound
  <1>6. Ownership(p)'
    BY <1>1, <1>3, <1>4 DEF Sound, Ownership, Holds, Rewinds, Settling, Rewinding
  <1>7. Books(p)'
    BY <1>1, <1>3, <1>4, SameAudits DEF Sound, Books, Rewinds, Settling, Rewinding
  <1>8. Orderly(p)'
    BY <1>1 DEF Orderly
  <1>9. World(p)'
    BY <1>1, <1>3, <1>4, SameAudits
    DEF Sound, World, Stage, Debt, Rewinds, Settling, Rewinding, Undisturbed, journal, outside
  <1> QED
    BY <1>5, <1>6, <1>7, <1>8, <1>9 DEF Sound

(* The workspace is moved to the frame.                                    *)
LEMMA RestoreSound ==
  ASSUME RewindTypeOK, RewindTypeOK', Tolerated, NEW p \in Procs, Sound(p), Restore(p)
  PROVE  Sound(p)'
  <1> DEFINE m == [mine[p] EXCEPT !.det.comp.back = TRUE]
  <1>1. /\ at[p] = "restore" /\ at'[p] = "save" /\ \A q \in Procs \ {p} : at'[q] = at[q]
        /\ UNCHANGED <<run, journal, effect, child, audits, list, faults, setting>>
    BY GotoTyped DEF Restore, Places, Rewinding
  <1>2. /\ m \in Memories /\ m.audit = mine[p].audit
        /\ m.det.comp.done = mine[p].det.comp.done /\ m.det.comp.back /\ m.det.suffix = mine[p].det.suffix
    <2>1. mine[p] \in Memories /\ mine[p].det \in Details
      BY TypeParts, MemoryTyped
    <2>2. m \in Memories
      BY <2>1 DEF Memories, Details, Comps
    <2>3. m.audit = mine[p].audit /\ m.det = [mine[p].det EXCEPT !.comp.back = TRUE]
      BY <2>1 DEF Memories
    <2>4. m.det.comp.done = mine[p].det.comp.done /\ m.det.comp.back /\ m.det.suffix = mine[p].det.suffix
      BY <2>1, <2>3 DEF Details, Comps
    <2> QED
      BY <2>2, <2>3, <2>4
  <1> HIDE DEF m
  <1>3. IF mine[p].back THEN workspace' = "frame" /\ mine'[p] = m ELSE workspace' = workspace /\ mine' = mine
    BY <1>2, HoldTyped DEF Restore, m
  <1>4. /\ mine'[p].audit = mine[p].audit /\ mine'[p].det.comp.done = mine[p].det.comp.done
        /\ mine'[p].det.suffix = mine[p].det.suffix
        /\ IF mine[p].back THEN mine'[p].det.comp.back ELSE mine'[p].det.comp = mine[p].det.comp
    BY <1>2, <1>3
  <1>5. Alone(p)'
    BY <1>1, AloneStays DEF Sound
  <1>6. Ownership(p)'
    BY <1>1 DEF Sound, Ownership, Holds, Rewinds, Settling, Rewinding
  <1>7. Books(p)'
    BY <1>1, <1>4, SameAudits DEF Sound, Books, Rewinds, Settling, Rewinding
  <1>8. Orderly(p)'
    BY <1>1, <1>4, SameAudits DEF Sound, Orderly, Calm, Rewinds, Rewinding, MaxFaults
  <1>9. World(p)'
    <2>1. ASSUME ~Disclosed PROVE Stage(p) /\ \A b \in Pending \ {mine[p].audit} : Plain(b)
      BY <1>1, <2>1 DEF Sound, World, Rewinds, Rewinding
    <2>2. ASSUME ~Disclosed PROVE Stage(p)'
      <3> DEFINE done == mine[p].det.comp.done
      <3>1. /\ Debt(done, FALSE) /\ ~mine[p].det.comp.back /\ Measured(mine[p].det) /\ done \subseteq live \cap Irreversible
            /\ mine[p].todo = (live \cap Irreversible) \ done /\ mine[p].back = (live \cap Compensable # {})
            /\ mine[p].todo = {}
        BY <1>1, <2>1, <2>2 DEF Stage
      <3>2. workspace' = "frame"
        BY <1>3, <3>1 DEF Debt
      <3>3. mine'[p].det.comp.back = (live \cap Compensable # {})
        <4>1. mine'[p].det.comp.back \in BOOLEAN
          <5>1. mine'[p] \in Memories
            BY DEF RewindTypeOK
          <5> QED
            BY <5>1, MemoryTyped
        <4> QED
          BY <1>4, <3>1, <4>1
      <3> QED
        <4>1. Debt(mine[p].det.comp.done, mine[p].det.comp.back)'
          BY <1>1, <1>4, <3>1, <3>2, <3>3 DEF Debt, journal
        <4>2. done = live \cap Irreversible
          BY <3>1
        <4> QED
          BY <1>1, <1>4, <3>1, <3>3, <4>1, <4>2 DEF Stage, Undisturbed, Measured, journal
    <2> QED
      BY <1>1, <1>4, <2>1, <2>2, SameAudits DEF World, Rewinds, Settling, Rewinding
  <1> QED
    BY <1>5, <1>6, <1>7, <1>8, <1>9 DEF Sound

(* The receipts become durable.                                            *)
LEMMA SaveSound ==
  ASSUME RewindTypeOK, RewindTypeOK', Tolerated, NEW p \in Procs, Sound(p), Save(p)
  PROVE  Sound(p)'
  <1> DEFINE a == mine[p].audit
             det == [mine[p].det EXCEPT !.phase = "compensated"]
  <1>0. at[p] = "save" /\ a \in Pending /\ audits[a].status = "in_progress" /\ audits[a].detail.phase # "terminal_failure"
    BY PendingFacts DEF Save, Sound, Books, Rewinds, Rewinding, OpenPhases
  <1>1. /\ SaveDetail(p, det) /\ at'[p] = "archive" /\ \A q \in Procs \ {p} : at'[q] = at[q]
        /\ UNCHANGED <<run, journal, outside, child, list, faults, setting>>
    BY GotoTyped DEF Save, Places, Rewinding
  <1>2. det \in Details /\ det.comp = mine[p].det.comp /\ det.phase = "compensated" /\ det.suffix = mine[p].det.suffix
    <2>1. mine[p].det \in Details
      BY TypeParts, MemoryTyped
    <2> QED
      BY <2>1 DEF Details, Phases
  <1>3. mine'[p].det = det /\ mine'[p].audit = a
    <2>1. mine'[p] = [mine[p] EXCEPT !.det = det] /\ mine[p] \in Memories
      BY <1>1, TypeParts, SaveDetailTyped DEF Phases
    <2> HIDE DEF det
    <2> QED
      BY <2>1 DEF Memories
  <1>4. /\ Pending' = Pending /\ audits'[a].detail = det /\ \A b \in Pending \ {a} : audits'[b] = audits[b]
        /\ Disclosed => Disclosed'
    <2>1. Update(a, "in_progress", det)
      BY <1>0, <1>1 DEF SaveDetail
    <2> HIDE DEF det
    <2> QED
      BY <1>0, <1>2, <2>1, UpdateFacts
  <1> HIDE DEF det
  <1>5. Alone(p)'
    BY <1>1, AloneStays DEF Sound
  <1>6. Ownership(p)'
    BY <1>0, <1>1 DEF Sound, Ownership, Holds, Rewinds, Settling, Rewinding
  <1>7. Books(p)'
    BY <1>0, <1>1, <1>2, <1>3, <1>4, PendingFacts DEF Sound, Books, Rewinds, Settling, Rewinding, OpenPhases
  <1>8. Orderly(p)'
    BY <1>0, <1>1, <1>3, <1>4 DEF Sound, Orderly, Calm, Rewinds, Rewinding, MaxFaults
  <1>9. World(p)'
    <2>1. ASSUME ~Disclosed PROVE Stage(p) /\ \A b \in Pending \ {a} : Plain(b)
      BY <1>0, <2>1 DEF Sound, World, Rewinds, Rewinding
    <2>2. ASSUME ~Disclosed PROVE Stage(p)'
      BY <1>0, <1>1, <1>2, <1>3, <2>1, <2>2 DEF Stage, Undisturbed, Measured, Debt, journal, outside
    <2> QED
      BY <1>1, <1>3, <1>4, <2>1, <2>2 DEF World, Plain, Rewinds, Settling, Rewinding
  <1> QED
    BY <1>5, <1>6, <1>7, <1>8, <1>9 DEF Sound

(* The suffix is cut; what was compensated is no longer in the journal.    *)
LEMMA ArchiveSound ==
  ASSUME RewindTypeOK, RewindTypeOK', Tolerated, NEW p \in Procs, Sound(p), Archive(p)
  PROVE  Sound(p)'
  <1>1. /\ at[p] = "archive" /\ at'[p] = "commit" /\ \A q \in Procs \ {p} : at'[q] = at[q]
        /\ archive' = archive \cup live /\ live' = {}
        /\ UNCHANGED <<run, tail, outside, child, audits, mine, list, faults, setting>>
    BY GotoTyped DEF Archive, Places, Rewinding
  <1>2. Alone(p)'
    BY <1>1, AloneStays DEF Sound
  <1>3. Ownership(p)'
    BY <1>1 DEF Sound, Ownership, Holds, Rewinds, Settling, Rewinding
  <1>4. Books(p)'
    BY <1>1, SameAudits DEF Sound, Books, Rewinds, Settling, Rewinding
  <1>5. Orderly(p)'
    BY <1>1, SameAudits DEF Sound, Orderly, Calm, Rewinds, Rewinding, MaxFaults
  <1>6. World(p)'
    <2>1. ASSUME ~Disclosed PROVE Stage(p) /\ \A b \in Pending \ {mine[p].audit} : Plain(b)
      BY <1>1, <2>1 DEF Sound, World, Rewinds, Rewinding
    <2>2. ASSUME ~Disclosed PROVE Stage(p)'
      <3> DEFINE comp == mine[p].det.comp
      <3>1. /\ Debt(comp.done, comp.back) /\ Measured(mine[p].det)
            /\ comp.done = live \cap Irreversible /\ comp.back = (live \cap Compensable # {})
        BY <1>1, <2>1, <2>2 DEF Stage
      <3>2. comp \in Comps
        BY TypeParts, MemoryTyped
      <3> HIDE DEF comp
      <3>3. Clean'
        <4>1. \A e \in Irreversible : effect[e] = 0
          BY <3>1 DEF Debt
        <4>2. workspace = "frame"
          BY <3>1 DEF Debt
        <4> QED
          BY <1>1, <4>1, <4>2 DEF Debt, Clean, outside
      <3>4. comp = NoComp \/ mine[p].det.suffix \in archive'
        BY <1>1, <3>1, <3>2 DEF Measured, Comps, NoComp
      <3> QED
        BY <1>1, <3>3, <3>4 DEF Stage, Undisturbed, comp
    <2> QED
      BY <1>1, <2>1, <2>2, SameAudits DEF World, Rewinds, Settling, Rewinding
  <1> QED
    BY <1>2, <1>3, <1>4, <1>5, <1>6 DEF Sound

(* The commit is recorded.                                                 *)
LEMMA CommitSound ==
  ASSUME RewindTypeOK, RewindTypeOK', Tolerated, NEW p \in Procs, Sound(p), Commit(p)
  PROVE  Sound(p)'
  <1> DEFINE a == mine[p].audit
             det == [mine[p].det EXCEPT !.phase = "archive_committed"]
  <1>0. at[p] = "commit" /\ a \in Pending /\ audits[a].status = "in_progress" /\ audits[a].detail.phase # "terminal_failure"
    BY PendingFacts DEF Commit, Sound, Books, Rewinds, Rewinding, OpenPhases
  <1>1. /\ SaveDetail(p, det) /\ at'[p] = "children" /\ \A q \in Procs \ {p} : at'[q] = at[q]
        /\ UNCHANGED <<run, journal, outside, child, list, faults, setting>>
    BY GotoTyped DEF Commit, Places, Rewinding
  <1>2. det \in Details /\ det.phase = "archive_committed"
    <2>1. mine[p].det \in Details
      BY TypeParts, MemoryTyped
    <2> QED
      BY <2>1 DEF Details, Phases
  <1>3. mine'[p].audit = a
    <2>1. mine'[p] = [mine[p] EXCEPT !.det = det] /\ mine[p] \in Memories
      BY <1>1, TypeParts, SaveDetailTyped DEF Phases
    <2> HIDE DEF det
    <2> QED
      BY <2>1 DEF Memories
  <1>4. /\ Pending' = Pending /\ audits'[a].detail = det /\ \A b \in Pending \ {a} : audits'[b] = audits[b]
        /\ Disclosed => Disclosed'
    <2>1. Update(a, "in_progress", det)
      BY <1>0, <1>1 DEF SaveDetail
    <2> HIDE DEF det
    <2> QED
      BY <1>0, <1>2, <2>1, UpdateFacts
  <1> HIDE DEF det
  <1>5. Alone(p)'
    BY <1>1, AloneStays DEF Sound
  <1>6. Ownership(p)'
    BY <1>0, <1>1 DEF Sound, Ownership, Holds, Rewinds, Settling, Rewinding
  <1>7. Books(p)'
    BY <1>0, <1>1, <1>2, <1>3, <1>4, PendingFacts DEF Sound, Books, Rewinds, Settling, Rewinding, OpenPhases
  <1>8. Orderly(p)'
    BY <1>0, <1>1, <1>3, <1>4 DEF Sound, Orderly, Calm, Rewinds, Rewinding, MaxFaults
  <1>9. World(p)'
    <2>1. ASSUME ~Disclosed PROVE Stage(p) /\ \A b \in Pending \ {a} : Plain(b)
      BY <1>0, <2>1 DEF Sound, World, Rewinds, Rewinding
    <2>2. ASSUME ~Disclosed PROVE Stage(p)'
      BY <1>0, <1>1, <2>1, <2>2 DEF Stage, Undisturbed, Debt, Clean, journal, outside
    <2> QED
      BY <1>1, <1>3, <1>4, <2>1, <2>2 DEF World, Plain, Rewinds, Settling, Rewinding
  <1> QED
    BY <1>5, <1>6, <1>7, <1>8, <1>9 DEF Sound

(* A child that cannot be cancelled ends the rewind, which keeps the run.  *)
LEMMA CancelChildSound ==
  ASSUME RewindTypeOK, RewindTypeOK', Tolerated, NEW p \in Procs, Sound(p), CancelChild(p)
  PROVE  Sound(p)'
  <1>1. /\ at[p] = "children" /\ at'[p] \in {"suspend", "idle"} /\ \A q \in Procs \ {p} : at'[q] = at[q]
        /\ UNCHANGED <<run, journal, outside, audits, mine, list, faults, setting>>
    BY CancelChildType DEF CancelChild
  <1>2. Alone(p)'
    BY <1>1, AloneStays DEF Sound
  <1>3. Ownership(p)'
    BY <1>1 DEF Sound, Ownership, Holds, Rewinds, Settling, Rewinding
  <1>4. Books(p)'
    BY <1>1, SameAudits DEF Sound, Books, Rewinds, Settling, Rewinding
  <1>5. Orderly(p)'
    <2>1. run.owner = p /\ p \notin {Nobody, Engine}
      BY <1>1, RewindAssumption DEF Sound, Ownership, Holds, Rewinds, Rewinding
    <2> QED
      BY <1>1, <2>1, SameAudits DEF Sound, Orderly, Calm, Rewinds, Rewinding, MaxFaults
  <1>6. World(p)'
    <2>1. ASSUME ~Disclosed PROVE Clean /\ \A b \in Pending : Plain(b)
      BY <1>1, <2>1 DEF Sound, World, Stage, Undisturbed, Books, Plain, Rewinds, Rewinding
    <2> QED
      BY <1>1, <2>1, SameAudits
      DEF World, Rested, Stage, Undisturbed, Debt, Clean, Rewinds, Settling, Rewinding, journal, outside
  <1> QED
    BY <1>2, <1>3, <1>4, <1>5, <1>6 DEF Sound

(* An audit is closed in a state where nothing is owed.                    *)
LEMMA CloseAuditSound ==
  ASSUME RewindTypeOK, RewindTypeOK', Tolerated, NEW p \in Procs, Sound(p), Complete(p) \/ Report(p)
  PROVE  Sound(p)'
  <1> DEFINE a == mine[p].audit
  <1>0. /\ at[p] \in {"complete", "report"} /\ a \in Pending /\ audits[a].detail.phase # "terminal_failure"
    BY PendingFacts DEF Complete, Report, Sound, Books, Rewinds, Rewinding, OpenPhases
  <1>1. /\ at'[p] = "idle" /\ \A q \in Procs \ {p} : at'[q] = at[q]
        /\ UNCHANGED <<run, journal, outside, child, mine, list, faults, setting>>
    BY GotoTyped DEF Complete, Report, Places
  <1>2. PICK status \in {"completed", "failed"}, detail \in Details : Update(a, status, detail)
    BY TypeParts, MemoryTyped DEF Complete, Report, Phases
  <1>3. /\ Pending' = Pending \ {a} /\ \A b \in Pending \ {a} : audits'[b] = audits[b]
        /\ Disclosed => Disclosed'
    BY <1>0, <1>2, UpdateFacts
  <1>4. Alone(p)'
    BY <1>1, AloneStays DEF Sound
  <1>5. Ownership(p)'
    BY <1>1 DEF Sound, Ownership, Holds, Rewinds, Settling, Rewinding
  <1>6. Books(p)'
    BY <1>1, <1>3 DEF Sound, Books, Rewinds, Settling, Rewinding
  <1>7. Orderly(p)'
    <2>1. Calm => Pending \subseteq {a}
      BY <1>0 DEF Sound, Orderly, Rewinds, Rewinding
    <2> QED
      BY <1>1, <1>3, <2>1 DEF Orderly, Calm, Rewinds, Rewinding, MaxFaults
  <1>8. World(p)'
    <2>1. ASSUME ~Disclosed PROVE Clean /\ \A b \in Pending \ {a} : Plain(b)
      BY <1>0, <2>1 DEF Sound, World, Stage, Undisturbed, Rewinds, Rewinding
    <2> QED
      BY <1>1, <1>3, <2>1 DEF World, Rested, Plain, Stage, Undisturbed, Debt, Clean, Rewinds, Settling, Rewinding, journal, outside
  <1> QED
    BY <1>4, <1>5, <1>6, <1>7, <1>8 DEF Sound

(* The rollback puts back the workspace.                                   *)
LEMMA UndoWorkspaceSound ==
  ASSUME RewindTypeOK, RewindTypeOK', Tolerated, NEW p \in Procs, Sound(p), UndoStep(p), mine[p].back
  PROVE  Sound(p)'
  <1> DEFINE m == [mine[p] EXCEPT !.back = FALSE]
  <1>1. /\ at[p] = "undo" /\ Hold(p, m) /\ workspace' = "head"
        /\ UNCHANGED <<run, journal, effect, child, audits, at, list, faults, setting>>
    BY DEF UndoStep
  <1>2. /\ m \in Memories /\ m.audit = mine[p].audit /\ m.det = mine[p].det /\ m.owned = mine[p].owned
        /\ m.then = mine[p].then /\ m.todo = mine[p].todo /\ m.back = FALSE /\ m.bad = mine[p].bad
    BY TypeParts DEF Memories
  <1> HIDE DEF m
  <1>3. mine'[p] = m
    BY <1>1, <1>2, HoldTyped
  <1>4. Alone(p)'
    BY <1>1, AloneStays DEF Sound
  <1>5. Ownership(p)'
    BY <1>1, <1>2, <1>3 DEF Sound, Ownership, Holds, Rewinds, Settling, Rewinding
  <1>6. Books(p)'
    BY <1>1, <1>2, <1>3, SameAudits DEF Sound, Books, Rewinds, Settling, Rewinding
  <1>7. Orderly(p)'
    BY <1>1, <1>2, <1>3, SameAudits DEF Sound, Orderly, Calm, Rewinds, Rewinding, MaxFaults
  <1>8. World(p)'
    <2>1. ASSUME ~Disclosed PROVE Stage(p)'
      BY <1>1, <1>2, <1>3, <2>1 DEF Sound, World, Stage, Undisturbed, Debt, journal
    <2> QED
      BY <1>1, <1>2, <1>3, <2>1, SameAudits DEF Sound, World, Rewinds, Settling, Rewinding
  <1> QED
    BY <1>4, <1>5, <1>6, <1>7, <1>8 DEF Sound

(* The rollback restores one effect.                                       *)
LEMMA UndoEffectSound ==
  ASSUME RewindTypeOK, RewindTypeOK', Tolerated, NEW p \in Procs, Sound(p), UndoStep(p), ~mine[p].back
  PROVE  Sound(p)'
  <1> DEFINE e == NextUndo(p)
             m == [mine[p] EXCEPT !.todo = @ \ {e}]
  <1>1. /\ at[p] = "undo" /\ Hold(p, m) /\ effect' = [effect EXCEPT ![e] = @ + 1] /\ mine[p].todo # {}
        /\ UNCHANGED <<run, journal, workspace, child, audits, at, list, faults, setting>>
    BY DEF UndoStep
  <1>2. e \in mine[p].todo /\ e \in Entries
    <2>1. mine[p].todo \subseteq Entries
      BY TypeParts, MemoryTyped
    <2>2. mine[p].todo \subseteq Nat
      BY <2>1, TypeParts
    <2> QED
      BY <1>1, <2>1, <2>2, LeastEntry DEF NextUndo
  <1> HIDE DEF e
  <1>3. /\ m \in Memories /\ m.audit = mine[p].audit /\ m.det = mine[p].det /\ m.owned = mine[p].owned
        /\ m.then = mine[p].then /\ m.todo = mine[p].todo \ {e} /\ m.back = mine[p].back
        /\ m.bad = mine[p].bad
    BY TypeParts DEF Memories
  <1> HIDE DEF m
  <1>4. mine'[p] = m
    BY <1>1, <1>3, HoldTyped
  <1>5. Alone(p)'
    BY <1>1, AloneStays DEF Sound
  <1>6. Ownership(p)'
    BY <1>1, <1>3, <1>4 DEF Sound, Ownership, Holds, Rewinds, Settling, Rewinding
  <1>7. Books(p)'
    BY <1>1, <1>3, <1>4, SameAudits DEF Sound, Books, Rewinds, Settling, Rewinding
  <1>8. Orderly(p)'
    BY <1>1, <1>3, <1>4, SameAudits DEF Sound, Orderly, Calm, Rewinds, Rewinding, MaxFaults
  <1>9. World(p)'
    <2>1. ASSUME ~Disclosed PROVE Stage(p)'
      <3> DEFINE todo == mine[p].todo
      <3>1. /\ Debt(todo, FALSE) /\ ~mine[p].bad
            /\ mine[p].then = "again" => mine[p].det.comp = NoComp
            /\ mine[p].then = "reinstate" => mine[p].owned
        <4>1. mine[p].back = FALSE
          BY TypeParts, MemoryTyped
        <4>2. /\ Debt(todo, mine[p].back) /\ ~mine[p].bad
              /\ mine[p].then = "again" => mine[p].det.comp = NoComp
              /\ mine[p].then = "reinstate" => mine[p].owned \/ todo = {}
          BY <1>1, <2>1 DEF Sound, World, Stage
        <4> QED
          BY <1>2, <4>1, <4>2
      <3> HIDE DEF todo
      <3>2. effect'[e] = effect[e] + 1 /\ \A x \in Irreversible \ {e} : effect'[x] = effect[x] /\ effect[e] \in Int
        BY <1>1, <1>2, RewindAssumption DEF RewindTypeOK
      <3>3. \A x \in Irreversible : effect'[x] = (IF x \in live THEN 1 ELSE 0) - (IF x \in todo \ {e} THEN 1 ELSE 0)
        BY <1>2, <3>1, <3>2 DEF Debt, todo
      <3>4. Debt(mine[p].todo, mine[p].back)'
        BY <1>1, <1>3, <1>4, <3>1, <3>3 DEF Debt, journal, todo
      <3> QED
        BY <1>1, <1>3, <1>4, <3>1, <3>4 DEF Stage, Undisturbed
    <2> QED
      BY <1>1, <1>3, <1>4, <2>1, SameAudits DEF Sound, World, Rewinds, Settling, Rewinding
  <1> QED
    BY <1>5, <1>6, <1>7, <1>8, <1>9 DEF Sound

(* The rollback inside compensate is over: the rewind's own has nothing left. *)
LEMMA UndoAgainSound ==
  ASSUME RewindTypeOK, RewindTypeOK', Tolerated, NEW p \in Procs, Sound(p), UndoEnds(p), mine[p].then = "again"
  PROVE  Sound(p)'
  <1> DEFINE comp == mine[p].det.comp
             m == [mine[p] EXCEPT !.todo = comp.done, !.back = comp.back, !.bad = FALSE, !.then = "giveback"]
  <1>1. /\ at[p] = "undo" /\ Undo(p, mine[p], comp, "giveback") /\ ~mine[p].back /\ mine[p].todo = {}
        /\ UNCHANGED <<run, journal, outside, child, audits, list, faults, setting>>
    BY DEF UndoEnds
  <1>2. mine[p] \in Memories /\ comp \in Comps
    BY TypeParts, MemoryTyped, ZenonT(60)
  <1>3. mine'[p] = m /\ at'[p] = "undo" /\ \A q \in Procs \ {p} : at'[q] = at[q]
    <2> HIDE DEF comp
    <2> QED
      BY <1>1, <1>2, UndoTyped, ZenonT(60)
  <1>4. m.audit = mine[p].audit /\ m.todo = comp.done /\ m.back = comp.back /\ m.then = "giveback" /\ ~m.bad
    BY <1>2 DEF Memories
  <1> HIDE DEF m
  <1>5. Alone(p)'
    BY <1>3, AloneStays DEF Sound
  <1>6. Ownership(p)'
    BY <1>1, <1>3, <1>4 DEF Sound, Ownership, Holds, Rewinds, Settling, Rewinding
  <1>7. Books(p)'
    BY <1>1, <1>3, <1>4, SameAudits DEF Sound, Books, Rewinds, Settling, Rewinding
  <1>8. Orderly(p)'
    BY <1>1, <1>3, <1>4, SameAudits DEF Sound, Orderly, Calm, Rewinds, Rewinding, MaxFaults
  <1>9. World(p)'
    <2>1. ASSUME ~Disclosed PROVE Stage(p)'
      BY <1>1, <1>3, <1>4, <2>1 DEF Sound, World, Stage, Undisturbed, Debt, NoComp, journal, outside
    <2> QED
      BY <1>1, <1>3, <1>4, <2>1, SameAudits DEF Sound, World, Rewinds, Settling, Rewinding
  <1> QED
    BY <1>5, <1>6, <1>7, <1>8, <1>9 DEF Sound

(* A rollback is over: nothing is owed.                                    *)
LEMMA UndoEndsSound ==
  ASSUME RewindTypeOK, RewindTypeOK', Tolerated, NEW p \in Procs, Sound(p), UndoEnds(p), mine[p].then # "again"
  PROVE  Sound(p)'
  <1>0. mine[p].then \in {"giveback", "reinstate"}
    BY TypeParts, MemoryTyped
  <1>1. /\ at[p] = "undo" /\ ~mine[p].back /\ mine[p].todo = {} /\ \A q \in Procs \ {p} : at'[q] = at[q]
        /\ at'[p] = mine[p].then \/ (mine[p].then = "reinstate" /\ mine[p].bad /\ at'[p] = "terminal")
        /\ UNCHANGED <<run, journal, outside, child, audits, mine, list, faults, setting>>
    <2>1. Goto(p, mine[p].then) \/ (mine[p].then = "reinstate" /\ mine[p].bad /\ Goto(p, "terminal"))
      BY <1>0 DEF UndoEnds
    <2>2. UNCHANGED mine
      BY <1>0 DEF UndoEnds
    <2> QED
      BY <1>0, <2>1, <2>2, GotoTyped DEF UndoEnds, Places, Rewinding, Recovering
  <1>2. Alone(p)'
    BY <1>1, AloneStays DEF Sound
  <1>3. Ownership(p)'
    BY <1>0, <1>1 DEF Sound, Ownership, Holds, Rewinds, Settling, Rewinding
  <1>4. Books(p)'
    BY <1>0, <1>1, SameAudits DEF Sound, Books, Rewinds, Settling, Rewinding
  <1>5. Orderly(p)'
    BY <1>0, <1>1, SameAudits DEF Sound, Orderly, Calm, Rewinds, Rewinding, MaxFaults
  <1>6. World(p)'
    <2>1. ASSUME ~Disclosed PROVE Stage(p)'
      BY <1>0, <1>1, <2>1 DEF Sound, World, Stage, Undisturbed, Debt, Clean, journal, outside
    <2>2. ~Disclosed => ~mine[p].bad
      BY <1>1 DEF Sound, World, Stage
    <2> QED
      BY <1>0, <1>1, <2>1, <2>2, SameAudits DEF Sound, World, Rewinds, Settling, Rewinding
  <1> QED
    BY <1>2, <1>3, <1>4, <1>5, <1>6 DEF Sound

(* A failed rewind gives the run back in a clean world.                    *)
LEMMA GiveBackSound ==
  ASSUME RewindTypeOK, RewindTypeOK', Tolerated, NEW p \in Procs, Sound(p), GiveBack(p)
  PROVE  Sound(p)'
  <1>0. at[p] = "giveback" /\ run.owner = p /\ mine[p].det.original \in {"pending", "suspended"}
    BY TypeParts, MemoryTyped DEF GiveBack, Sound, Ownership, Holds, Rewinds, Rewinding
  <1>1. /\ at'[p] = IF mine[p].audit = 0 THEN "idle" ELSE "report"
        /\ \A q \in Procs \ {p} : at'[q] = at[q]
        /\ run'.status = mine[p].det.original /\ run'.owner = Nobody
        /\ UNCHANGED <<journal, outside, child, audits, mine, list, faults, setting>>
    BY <1>0, GotoTyped DEF GiveBack, Owns, Release, Places, Rewinding, RewindTypeOK, RunRows
  <1>2. Alone(p)'
    BY <1>1, AloneStays DEF Sound
  <1>3. Ownership(p)'
    BY <1>0, <1>1 DEF Ownership, Holds, Rewinds, Settling, Rewinding
  <1>4. Books(p)'
    BY <1>0, <1>1, SameAudits DEF Sound, Books, Rewinds, Settling, Rewinding
  <1>5. Orderly(p)'
    <2>1. Calm /\ mine[p].audit = 0 => Pending = {}
      BY <1>0, PendingFacts DEF Sound, Orderly, Rewinds, Rewinding
    <2> QED
      BY <1>0, <1>1, <2>1, SameAudits DEF Sound, Orderly, Calm, Rewinds, Rewinding, MaxFaults
  <1>6. World(p)'
    <2>1. ASSUME ~Disclosed PROVE Clean /\ \A b \in Pending \ {mine[p].audit} : Plain(b)
      BY <1>0, <2>1 DEF Sound, World, Stage, Undisturbed, Rewinds, Rewinding
    <2> QED
      BY <1>1, <2>1, SameAudits, PendingFacts
      DEF World, Rested, Stage, Undisturbed, Debt, Clean, Rewinds, Settling, Rewinding, journal, outside
  <1> QED
    BY <1>2, <1>3, <1>4, <1>5, <1>6 DEF Sound

(* A service is built: it reads what the last one left.                    *)
LEMMA BootSound ==
  ASSUME RewindTypeOK, RewindTypeOK', Tolerated, NEW p \in Procs, Sound(p), Boot(p)
  PROVE  Sound(p)'
  <1>1. /\ at[p] = "down" /\ at'[p] = "recover" /\ \A q \in Procs \ {p} : at'[q] = at[q]
        /\ UNCHANGED <<run, journal, outside, child, audits, mine, faults, setting>>
    BY GotoTyped DEF Boot, Places, Recovering
  <1>2. Alone(p)'
    BY <1>1, AloneStays DEF Sound
  <1>3. Ownership(p)'
    BY <1>1 DEF Sound, Ownership, Holds, Rewinds, Settling, Rewinding
  <1>4. Books(p)'
    BY <1>1, SameAudits, BootType DEF Sound, Books, Rewinds, Settling, Rewinding
  <1>5. Orderly(p)'
    BY <1>1, SameAudits DEF Sound, Orderly, Calm, Rewinds, Rewinding, MaxFaults
  <1>6. World(p)'
    BY <1>1, SameAudits DEF Sound, World, Rested, Settleable, Committed, Stage, Undisturbed, Debt, Clean, Rewinds,
       Settling, Rewinding, journal, outside
  <1> QED
    BY <1>2, <1>3, <1>4, <1>5, <1>6 DEF Sound

(* Recovery ends when no audit is open.                                    *)
LEMMA RecoveredSound ==
  ASSUME RewindTypeOK, RewindTypeOK', Tolerated, NEW p \in Procs, Sound(p), Recovered(p)
  PROVE  Sound(p)'
  <1>1. /\ at[p] = "recover" /\ at'[p] = "idle" /\ \A q \in Procs \ {p} : at'[q] = at[q]
        /\ UNCHANGED <<run, journal, outside, child, audits, mine, list, faults, setting>>
    BY GotoTyped DEF Recovered, Places
  <1>2. Alone(p)'
    BY <1>1, AloneStays DEF Sound
  <1>3. Ownership(p)'
    BY <1>1 DEF Sound, Ownership, Holds, Rewinds, Settling, Rewinding
  <1>4. Books(p)'
    BY <1>1, SameAudits DEF Sound, Books, Rewinds, Settling, Rewinding
  <1>5. Orderly(p)'
    BY <1>1, SameAudits DEF Sound, Orderly, Calm, Rewinds, Rewinding, MaxFaults
  <1>6. World(p)'
    BY <1>1, SameAudits DEF Sound, World, Rested, Settleable, Committed, Stage, Undisturbed, Debt, Clean, Rewinds,
       Settling, Rewinding, journal, outside
  <1> QED
    BY <1>2, <1>3, <1>4, <1>5, <1>6 DEF Sound

(* A service is closed between rewinds.                                    *)
LEMMA CloseSound ==
  ASSUME RewindTypeOK, RewindTypeOK', Tolerated, NEW p \in Procs, Sound(p), Close(p)
  PROVE  Sound(p)'
  <1>0. p \notin {Engine, Dead, Nobody} /\ Dead \notin {Engine, Nobody}
    BY RewindAssumption DEF Engine, Dead, Nobody
  <1>1. /\ at[p] = "idle" /\ at'[p] = "down" /\ \A q \in Procs \ {p} : at'[q] = at[q]
        /\ run'.status = run.status
        /\ run'.owner = IF run.owner = p THEN Dead ELSE run.owner
        /\ UNCHANGED <<journal, outside, child, audits, list, faults, setting>>
    BY GotoTyped DEF Close, Orphaned, Places, RewindTypeOK, RunRows
  <1>2. Alone(p)'
    BY <1>1, AloneStays DEF Sound
  <1>3. Ownership(p)'
    BY <1>0, <1>1 DEF Sound, Ownership, Holds, Rewinds, Settling, Rewinding
  <1>4. Books(p)'
    BY <1>1, SameAudits DEF Sound, Books, Rewinds, Settling, Rewinding
  <1>5. Orderly(p)'
    BY <1>0, <1>1, SameAudits DEF Sound, Orderly, Calm, Rewinds, Rewinding, MaxFaults
  <1>6. World(p)'
    BY <1>0, <1>1, SameAudits DEF Sound, World, Rested, Settleable, Committed, Stage, Undisturbed, Debt, Clean, Rewinds,
       Settling, Rewinding, journal, outside
  <1> QED
    BY <1>2, <1>3, <1>4, <1>5, <1>6 DEF Sound

(* A recovery takes up the first open audit, with the run or without it.   *)
LEMMA AcquireSound ==
  ASSUME RewindTypeOK, RewindTypeOK', Tolerated, NEW p \in Procs, Sound(p), Acquire(p)
  PROVE  Sound(p)'
  <1> DEFINE a == Chosen(p)
  <1>0. p \notin {Engine, Dead, Nobody} /\ Dead \notin {Engine, Nobody}
    BY RewindAssumption DEF Engine, Dead, Nobody
  <1>1. /\ at[p] = "recover" /\ at'[p] \in {"judge", "reactivate", "terminal"} /\ \A q \in Procs \ {p} : at'[q] = at[q]
        /\ UNCHANGED <<journal, outside, child, audits, list, faults, setting>>
        /\ a \in DOMAIN list[p] /\ mine'[p].audit = a /\ mine'[p].det = list[p][a]
    BY AcquireType DEF Acquire
  <1>2. /\ run'.status = run.status /\ run'.owner = run.owner
        /\ at'[p] = "judge" /\ mine'[p].owned => run.owner = p
        /\ at'[p] = "judge" /\ ~mine'[p].owned => run.status = "suspended"
        /\ at'[p] = "reactivate" => mine'[p].owned /\ run'.claim = p /\ run.status # "suspended"
                                     /\ (run.status = "running" => run.owner = Dead)
    BY AcquireType DEF Acquires, RewindTypeOK, RunRows
  <1> HIDE DEF a
  <1>3. a \in Pending /\ list[p][a] = audits[a].detail
    BY <1>1 DEF Sound, Books
  <1>4. Alone(p)'
    BY <1>1, AloneStays DEF Sound
  <1>5. Ownership(p)'
    BY <1>0, <1>1, <1>2 DEF Sound, Ownership, Holds, Rewinds, Settling, Rewinding
  <1>6. Books(p)'
    BY <1>1, <1>3, SameAudits DEF Sound, Books, Rewinds, Settling, Rewinding
  <1>7. Orderly(p)'
    BY <1>0, <1>1, <1>2, SameAudits DEF Sound, Orderly, Calm, Rewinds, Rewinding, MaxFaults
  <1>8. World(p)'
    <2>1. ASSUME ~Disclosed
          PROVE \/ Clean /\ \A b \in Pending : Plain(b)
                \/ /\ Pending = {a} /\ audits[a].detail.phase = "compensated"
                   /\ Settleable(audits[a].detail)
                   /\ run.owner \notin {Nobody, Engine}
      BY <1>1, <1>3, <2>1 DEF Sound, World, Rested
    <2>2. run.owner \notin {Nobody, Engine} => run'.owner \notin {Nobody, Engine} /\ (at'[p] = "judge" => mine'[p].owned)
      BY <1>0, <1>2 DEF Sound, Ownership
    <2>3. ASSUME ~Disclosed PROVE Rested(p)'
      <3>1. CASE Clean /\ \A b \in Pending : Plain(b)
        BY <1>1, <3>1, SameAudits DEF Rested, Clean, Debt, journal, outside
      <3>2. CASE /\ Pending = {a} /\ audits[a].detail.phase = "compensated"
                 /\ Settleable(audits[a].detail)
                 /\ run.owner \notin {Nobody, Engine}
        BY <1>1, <1>3, <2>2, <3>2, SameAudits DEF Rested, Settleable, Committed, Clean, Debt, journal, outside
      <3> QED
        BY <2>1, <2>3, <3>1, <3>2
    <2> QED
      BY <1>1, <2>1, <2>3, SameAudits DEF World, Stage, Undisturbed, Rewinds, Settling, Rewinding
  <1> QED
    BY <1>4, <1>5, <1>6, <1>7, <1>8 DEF Sound

(* Its claim is activated: the run is the recovery's.                      *)
LEMMA ReactivateSound ==
  ASSUME RewindTypeOK, RewindTypeOK', Tolerated, NEW p \in Procs, Sound(p), Reactivate(p)
  PROVE  Sound(p)'
  <1>0. p \notin {Engine, Dead, Nobody} /\ at[p] = "reactivate" /\ mine[p].owned
    BY RewindAssumption DEF Reactivate, Sound, Ownership
  <1>1. /\ at'[p] = "judge" /\ \A q \in Procs \ {p} : at'[q] = at[q]
        /\ run'.status = "running" /\ run'.owner = p
        /\ UNCHANGED <<journal, outside, child, audits, mine, list, faults, setting>>
    BY GotoTyped DEF Reactivate, Activated, Places, Recovering
  <1>2. Alone(p)'
    BY <1>1, AloneStays DEF Sound
  <1>3. Ownership(p)'
    BY <1>0, <1>1 DEF Ownership, Holds, Rewinds, Settling
  <1>4. Books(p)'
    BY <1>0, <1>1, SameAudits DEF Sound, Books, Rewinds, Settling, Rewinding
  <1>5. Orderly(p)'
    BY <1>0, <1>1, SameAudits DEF Sound, Orderly, Calm, Rewinds, Rewinding, MaxFaults
  <1>6. World(p)'
    <2>1. ASSUME ~Disclosed PROVE Rested(p)'
      <3>1. Rested(p)
        BY <1>0, <2>1 DEF Sound, World
      <3> QED
        BY <1>0, <1>1, <3>1, SameAudits DEF Rested, Settleable, Committed, Clean, Debt, journal, outside
    <2> QED
      BY <1>1, <2>1, SameAudits DEF World, Stage, Undisturbed, Rewinds, Settling, Rewinding
  <1> QED
    BY <1>2, <1>3, <1>4, <1>5, <1>6 DEF Sound

(* A committed rewind is finished: nothing is owed.                        *)
LEMMA JudgeCommitted ==
  ASSUME RewindTypeOK, RewindTypeOK', Tolerated, NEW p \in Procs, Sound(p), Judge(p), Committed(mine[p].det)
  PROVE  Sound(p)'
  <1>0. at[p] = "judge" /\ mine[p].audit \in Pending /\ mine[p].det = audits[mine[p].audit].detail
    BY DEF Judge, Sound, Books
  <1>1. /\ at'[p] = IF mine[p].owned THEN "resuspend" ELSE "finish"
        /\ \A q \in Procs \ {p} : at'[q] = at[q]
        /\ UNCHANGED <<run, journal, outside, child, audits, mine, list, faults, setting>>
    BY GotoTyped DEF Judge, Places, Recovering
  <1>2. Alone(p)'
    BY <1>1, AloneStays DEF Sound
  <1>3. Ownership(p)'
    BY <1>0, <1>1 DEF Sound, Ownership, Holds, Rewinds, Settling, Rewinding
  <1>4. Books(p)'
    BY <1>0, <1>1, SameAudits DEF Sound, Books, Rewinds, Settling, Rewinding
  <1>5. Orderly(p)'
    BY <1>0, <1>1, SameAudits DEF Sound, Orderly, Calm, Rewinds, Rewinding, MaxFaults
  <1>6. World(p)'
    <2>1. ASSUME ~Disclosed PROVE Clean /\ \A b \in Pending \ {mine[p].audit} : Plain(b)
      BY <1>0, <2>1 DEF Sound, World, Rested, Settleable
    <2> QED
      BY <1>1, <2>1, SameAudits
      DEF World, Stage, Undisturbed, Debt, Clean, Rewinds, Settling, Rewinding, journal, outside
  <1> QED
    BY <1>2, <1>3, <1>4, <1>5, <1>6 DEF Sound

(* Another is rolled back: its receipts say what is owed.                  *)
LEMMA JudgeRollsBack ==
  ASSUME RewindTypeOK, RewindTypeOK', Tolerated, NEW p \in Procs, Sound(p), Judge(p), ~Committed(mine[p].det)
  PROVE  Sound(p)'
  <1> DEFINE comp == mine[p].det.comp
             m == [mine[p] EXCEPT !.todo = comp.done, !.back = comp.back, !.bad = FALSE, !.then = "reinstate"]
  <1>0. at[p] = "judge" /\ mine[p].audit \in Pending /\ mine[p].det = audits[mine[p].audit].detail
    BY DEF Judge, Sound, Books
  <1>1. /\ Undo(p, mine[p], comp, "reinstate")
        /\ UNCHANGED <<run, journal, outside, child, audits, list, faults, setting>>
    BY DEF Judge
  <1>2. mine[p] \in Memories /\ comp \in Comps
    BY TypeParts, MemoryTyped, ZenonT(60)
  <1>3. mine'[p] = m /\ at'[p] = "undo" /\ \A q \in Procs \ {p} : at'[q] = at[q]
    <2> HIDE DEF comp
    <2> QED
      BY <1>1, <1>2, UndoTyped, ZenonT(60)
  <1>4. /\ m.audit = mine[p].audit /\ m.det = mine[p].det /\ m.owned = mine[p].owned
        /\ m.todo = comp.done /\ m.back = comp.back /\ m.then = "reinstate" /\ ~m.bad
    BY <1>2 DEF Memories
  <1> HIDE DEF m
  <1>5. Alone(p)'
    BY <1>3, AloneStays DEF Sound
  <1>6. Ownership(p)'
    BY <1>0, <1>1, <1>3, <1>4 DEF Sound, Ownership, Holds, Rewinds, Settling, Rewinding
  <1>7. Books(p)'
    BY <1>0, <1>1, <1>3, <1>4, SameAudits DEF Sound, Books, Rewinds, Settling, Rewinding
  <1>8. Orderly(p)'
    BY <1>0, <1>1, <1>3, <1>4, SameAudits DEF Sound, Orderly, Calm, Rewinds, Rewinding, MaxFaults
  <1>9. World(p)'
    <2>1. ASSUME ~Disclosed
          PROVE /\ Debt(comp.done, comp.back)
                /\ mine[p].owned \/ comp = NoComp
                /\ \A b \in Pending \ {mine[p].audit} : Plain(b)
      <3>1. Rested(p)
        BY <1>0, <2>1 DEF Sound, World
      <3>2. comp = NoComp => comp.done = {} /\ comp.back = FALSE
        BY DEF NoComp
      <3>3. CASE Clean /\ \A b \in Pending : Plain(b)
        <4>1. comp = NoComp
          BY <1>0, <3>3 DEF Plain, Committed
        <4> QED
          BY <3>2, <3>3, <4>1 DEF Clean
      <3>4. CASE ~(Clean /\ \A b \in Pending : Plain(b))
        <4>1. Pending = {mine[p].audit} /\ Settleable(mine[p].det) /\ mine[p].owned
          BY <1>0, <3>1, <3>4 DEF Rested
        <4> QED
          BY <3>2, <4>1 DEF Settleable, Clean
      <3> QED
        BY <3>3, <3>4
    <2>2. ASSUME ~Disclosed PROVE Stage(p)'
      BY <1>1, <1>3, <1>4, <2>1, <2>2 DEF Stage, Undisturbed, Debt, NoComp, journal, outside
    <2> QED
      BY <1>1, <1>3, <1>4, <2>1, <2>2, SameAudits DEF World, Rewinds, Settling, Rewinding
  <1> QED
    BY <1>5, <1>6, <1>7, <1>8, <1>9 DEF Sound

(* Recovery frees a run it had to take.                                    *)
LEMMA SettleRunSound ==
  ASSUME RewindTypeOK, RewindTypeOK', Tolerated, NEW p \in Procs, Sound(p), Resuspend(p) \/ Reinstate(p)
  PROVE  Sound(p)'
  <1>0. p \notin {Engine, Dead, Nobody} /\ mine[p].det.original \in {"pending", "suspended"}
    BY RewindAssumption, TypeParts, MemoryTyped
  <1>1. /\ at[p] \in {"resuspend", "reinstate"} /\ at'[p] \in {"finish", "record", "terminal"}
        /\ \A q \in Procs \ {p} : at'[q] = at[q]
        /\ UNCHANGED <<journal, outside, child, audits, mine, list, faults, setting>>
    BY GotoTyped DEF Resuspend, Reinstate, Places, Recovering
  <1>2. run' = run \/ (run'.status \in {"pending", "suspended"} /\ run'.owner = Nobody)
    BY <1>0 DEF Resuspend, Reinstate, Release, RewindTypeOK, RunRows
  <1>3. Alone(p)'
    BY <1>1, AloneStays DEF Sound
  <1>4. Ownership(p)'
    BY <1>1, <1>2 DEF Sound, Ownership, Holds, Rewinds, Settling, Rewinding
  <1>5. Books(p)'
    BY <1>1, SameAudits DEF Sound, Books, Rewinds, Settling, Rewinding
  <1>6. Orderly(p)'
    BY <1>1, SameAudits DEF Sound, Orderly, Calm, Rewinds, Rewinding, MaxFaults
  <1>7. World(p)'
    <2>1. at'[p] # "terminal"
      BY <1>1, GotoTyped DEF Resuspend, Reinstate, Places, Recovering, Owns, Sound, Ownership, Holds
    <2> QED
      BY <1>1, <2>1, SameAudits
      DEF Sound, World, Stage, Undisturbed, Debt, Clean, Rewinds, Settling, Rewinding, journal, outside
  <1> QED
    BY <1>3, <1>4, <1>5, <1>6, <1>7 DEF Sound

(* The recovery closes its audit, in a clean world or with a disclosure.   *)
LEMMA ResolveSound ==
  ASSUME RewindTypeOK, RewindTypeOK', Tolerated, NEW p \in Procs, Sound(p), Finish(p) \/ Record(p) \/ TerminalFailure(p)
  PROVE  Sound(p)'
  <1> DEFINE a == mine[p].audit
  <1>0. /\ at[p] \in {"finish", "record", "terminal"} /\ a \in Pending /\ audits[a].detail.phase # "terminal_failure"
    BY DEF Finish, Record, TerminalFailure, Sound, Books, Settling, OpenPhases
  <1>1. PICK status \in {"completed", "failed"}, detail \in Details :
          Resolve(p, status, detail) /\ (at[p] = "terminal" => detail.phase = "terminal_failure")
    <2>1. mine[p].det \in Details /\ [mine[p].det EXCEPT !.phase = "completed"] \in Details
          /\ [mine[p].det EXCEPT !.phase = "terminal_failure"] \in Details /\ RolledBackDetail(mine[p]) \in Details
      BY TypeParts, MemoryTyped DEF Phases
    <2>2. [mine[p].det EXCEPT !.phase = "terminal_failure"].phase = "terminal_failure"
      BY <2>1 DEF Details
    <2> QED
      BY <2>1, <2>2 DEF Finish, Record, TerminalFailure
  <1>2. /\ at'[p] = "recover" /\ \A q \in Procs \ {p} : at'[q] = at[q]
        /\ UNCHANGED <<run, journal, outside, child, mine, faults, setting>>
        /\ Update(a, status, detail)
    BY <1>1, GotoTyped DEF Resolve, Onward, Places, Recovering
  <1>3. DOMAIN list'[p] = DOMAIN list[p] \ {a} /\ \A b \in DOMAIN list'[p] : list'[p][b] = list[p][b]
    BY <1>1, OnwardTyped DEF Resolve
  <1>4. /\ Pending' = Pending \ {a} /\ \A b \in Pending \ {a} : audits'[b] = audits[b]
        /\ Disclosed => Disclosed'
        /\ detail.phase = "terminal_failure" => Disclosed'
    BY <1>0, <1>2, UpdateFacts
  <1>5. Alone(p)'
    BY <1>2, AloneStays DEF Sound
  <1>6. Ownership(p)'
    BY <1>2 DEF Sound, Ownership, Holds, Rewinds, Settling, Rewinding
  <1>7. Books(p)'
    BY <1>0, <1>2, <1>3, <1>4 DEF Sound, Books, Rewinds, Settling, Rewinding
  <1>8. Orderly(p)'
    BY <1>0, <1>2, <1>4 DEF Sound, Orderly, Calm, Rewinds, Rewinding, MaxFaults
  <1>9. World(p)'
    <2>1. ASSUME ~Disclosed' PROVE Clean /\ \A b \in Pending \ {a} : Plain(b)
      BY <1>0, <1>1, <1>4, <2>1, ZenonT(60) DEF Sound, World, Stage, Undisturbed, Settling
    <2> QED
      BY <1>2, <1>4, <2>1 DEF World, Rested, Plain, Stage, Undisturbed, Debt, Clean, Rewinds, Settling, Rewinding, journal, outside
  <1> QED
    BY <1>5, <1>6, <1>7, <1>8, <1>9 DEF Sound

(* The database fails before the commit: the rewind rolls back what it did. *)
LEMMA StoreFailsEarly ==
  ASSUME RewindTypeOK, RewindTypeOK', Tolerated, NEW p \in Procs, Sound(p), StoreFails(p),
         at[p] \in {"audit", "preflight", "save", "archive"}
  PROVE  Sound(p)'
  <1> DEFINE comp == mine[p].det.comp
             m == [mine[p] EXCEPT !.todo = comp.done, !.back = comp.back, !.bad = FALSE, !.then = "giveback"]
  <1>1. /\ Undo(p, mine[p], comp, "giveback") /\ ~Calm'
        /\ UNCHANGED <<run, journal, outside, child, audits, list, setting>>
    BY ToleratedFacts DEF StoreFails
  <1>2. mine[p] \in Memories /\ comp \in Comps
    BY TypeParts, MemoryTyped
  <1>3. mine'[p] = m /\ at'[p] = "undo" /\ \A q \in Procs \ {p} : at'[q] = at[q]
    <2> HIDE DEF comp
    <2> QED
      BY <1>1, <1>2, UndoTyped, ZenonT(60)
  <1>4. m.audit = mine[p].audit /\ m.todo = comp.done /\ m.back = comp.back /\ m.then = "giveback" /\ ~m.bad
    BY <1>2 DEF Memories
  <1> HIDE DEF m
  <1>5. Alone(p)'
    BY <1>3, AloneStays DEF Sound
  <1>6. Ownership(p)'
    BY <1>1, <1>3, <1>4 DEF Sound, Ownership, Holds, Rewinds, Settling, Rewinding
  <1>7. Books(p)'
    BY <1>1, <1>3, <1>4, SameAudits DEF Sound, Books, Rewinds, Settling, Rewinding
  <1>8. Orderly(p)'
    BY <1>1 DEF Orderly
  <1>9. World(p)'
    <2>1. ASSUME ~Disclosed
          PROVE Debt(comp.done, comp.back) /\ \A b \in Pending \ {mine[p].audit} : Plain(b)
      <3>1. Stage(p) /\ \A b \in Pending \ {mine[p].audit} : Plain(b)
        BY <2>1 DEF Sound, World, Rewinds, Rewinding
      <3>2. CASE at[p] \in {"audit", "preflight"}
        <4>1. comp = NoComp /\ Clean
          BY <3>1, <3>2 DEF Sound, Books, Stage, Undisturbed
        <4>2. comp.done = {} /\ comp.back = FALSE
          BY <4>1 DEF NoComp
        <4> QED
          BY <3>1, <4>1, <4>2 DEF Clean
      <3>3. CASE at[p] \in {"save", "archive"}
        BY <3>1, <3>3 DEF Stage
      <3> QED
        BY <3>2, <3>3
    <2>2. ASSUME ~Disclosed PROVE Stage(p)'
      BY <1>1, <1>3, <1>4, <2>1, <2>2 DEF Stage, Undisturbed, Debt, journal, outside
    <2> QED
      BY <1>1, <1>3, <1>4, <2>1, <2>2, SameAudits DEF World, Rewinds, Settling, Rewinding
  <1> QED
    BY <1>5, <1>6, <1>7, <1>8, <1>9 DEF Sound

(* Where a rewind that stops leaves an audit that recovery can settle.     *)
Stoppable == {"activate", "audit", "preflight", "archive", "commit", "children", "suspend", "complete", "report"}

(* A rewind that stops at such a step leaves a clean world and plain       *)
(* audits, or one audit that says what is owed.                            *)
LEMMA StopSettles ==
  ASSUME RewindTypeOK, NEW p \in Procs, Sound(p), Calm, at[p] \in Stoppable, ~Disclosed
  PROVE  \/ Clean /\ \A b \in Pending : Plain(b)
         \/ /\ mine[p].audit \in Pending /\ Pending = {mine[p].audit}
            /\ audits[mine[p].audit].detail.phase = "compensated"
            /\ Settleable(audits[mine[p].audit].detail) /\ run.owner = p
  <1> DEFINE a == mine[p].audit
  <1>0. CASE at[p] = "activate"
    BY <1>0 DEF Sound, World, Rested, Ownership
  <1> SUFFICES ASSUME at[p] \in Stoppable \ {"activate"} PROVE
         \/ Clean /\ \A b \in Pending : Plain(b)
         \/ /\ a \in Pending /\ Pending = {a} /\ audits[a].detail.phase = "compensated"
            /\ Settleable(audits[a].detail) /\ run.owner = p
    BY <1>0
  <1>1. Stage(p) /\ (\A b \in Pending \ {a} : Plain(b)) /\ Pending \subseteq {a}
    BY DEF Sound, World, Orderly, Rewinds, Rewinding, Stoppable
  <1>2. CASE at[p] = "audit"
    BY <1>1, <1>2, PendingFacts DEF Sound, Books, Stage, Undisturbed
  <1>3. CASE at[p] \in {"preflight", "children", "suspend", "complete", "report"}
    <2>1. a \in Pending /\ Plain(a)
      BY <1>3, PendingFacts DEF Sound, Books, Orderly, Plain, Rewinds, Rewinding
    <2> QED
      BY <1>1, <1>3, <2>1 DEF Stage, Undisturbed
  <1>4. CASE at[p] \in {"archive", "commit"}
    <2>1. /\ a \in Pending /\ audits[a].detail = mine[p].det /\ mine[p].det.phase = "compensated" /\ run.owner = p
      BY <1>4, PendingFacts DEF Sound, Books, Ownership, Holds, Rewinds, Rewinding
    <2>2. Settleable(mine[p].det)
      <3>1. CASE at[p] = "archive"
        <4>1. Debt(mine[p].det.comp.done, mine[p].det.comp.back) /\ Measured(mine[p].det)
          BY <1>1, <3>1 DEF Stage
        <4>2. ~Committed(mine[p].det)
          BY <2>1, <4>1 DEF Measured, Committed
        <4> QED
          BY <4>1, <4>2 DEF Settleable
      <3>2. CASE at[p] = "commit"
        <4>1. Clean /\ live = {} /\ (mine[p].det.comp = NoComp \/ mine[p].det.suffix \in archive)
          BY <1>1, <3>2 DEF Stage
        <4>2. archive \subseteq Nat \ {0}
          BY TypeParts DEF RewindTypeOK
        <4>3. mine[p].det.suffix \in archive => Committed(mine[p].det)
          <5>1. ASSUME NEW x \in archive PROVE x > 0
            <6>1. x \in Nat /\ x # 0
              BY <4>2
            <6> QED
              BY <6>1
          <5> QED
            BY <4>1, <5>1 DEF Committed
        <4> QED
          BY <4>1, <4>3 DEF Settleable
      <3> QED
        BY <1>4, <3>1, <3>2
    <2> QED
      BY <1>1, <2>1, <2>2
  <1> QED
    BY <1>2, <1>3, <1>4 DEF Stoppable

(* It fails behind the commit: the rewind stops where it is.               *)
LEMMA StoreFailsLate ==
  ASSUME RewindTypeOK, RewindTypeOK', Tolerated, NEW p \in Procs, Sound(p), StoreFails(p),
         at[p] \in {"activate", "commit", "children", "suspend", "complete", "report"}
  PROVE  Sound(p)'
  <1>0. p \notin {Engine, Dead, Nobody}
    BY RewindAssumption
  <1>1. /\ at'[p] = "idle" /\ \A q \in Procs \ {p} : at'[q] = at[q]
        /\ Calm /\ ~Calm'
        /\ UNCHANGED <<run, journal, outside, child, audits, mine, list, setting>>
    BY GotoTyped, ToleratedFacts DEF StoreFails, Places
  <1>2. Alone(p)'
    BY <1>1, AloneStays DEF Sound
  <1>3. Ownership(p)'
    BY <1>1 DEF Sound, Ownership, Holds, Rewinds, Settling, Rewinding
  <1>4. Books(p)'
    BY <1>1, SameAudits DEF Sound, Books, Rewinds, Settling, Rewinding
  <1>5. Orderly(p)'
    BY <1>1 DEF Orderly
  <1>6. World(p)'
    <2>1. ASSUME ~Disclosed PROVE Rested(p)
      BY <1>0, <1>1, <2>1, StopSettles DEF Rested, Stoppable
    <2>2. ASSUME ~Disclosed PROVE Rested(p)'
      BY <1>1, <2>1, <2>2, SameAudits DEF Rested, Settleable, Committed, Debt, Clean, journal, outside
    <2> QED
      BY <1>1, <2>2, SameAudits DEF World, Stage, Undisturbed, Rewinds, Settling, Rewinding
  <1> QED
    BY <1>2, <1>3, <1>4, <1>5, <1>6 DEF Sound

(* It fails when the run is given back: the failed rewind keeps it.        *)
LEMMA StoreFailsGivingBack ==
  ASSUME RewindTypeOK, RewindTypeOK', Tolerated, NEW p \in Procs, Sound(p), StoreFails(p), at[p] = "giveback"
  PROVE  Sound(p)'
  <1>1. /\ at'[p] = IF mine[p].audit = 0 THEN "idle" ELSE "report"
        /\ \A q \in Procs \ {p} : at'[q] = at[q]
        /\ ~Calm'
        /\ UNCHANGED <<run, journal, outside, child, audits, mine, list, setting>>
    BY GotoTyped, ToleratedFacts DEF StoreFails, Places, Rewinding
  <1>2. Alone(p)'
    BY <1>1, AloneStays DEF Sound
  <1>3. Ownership(p)'
    BY <1>1 DEF Sound, Ownership, Holds, Rewinds, Settling, Rewinding
  <1>4. Books(p)'
    BY <1>1, SameAudits DEF Sound, Books, Rewinds, Settling, Rewinding
  <1>5. Orderly(p)'
    BY <1>1 DEF Orderly
  <1>6. World(p)'
    <2>1. ASSUME ~Disclosed PROVE Clean /\ \A b \in Pending \ {mine[p].audit} : Plain(b)
      BY <2>1 DEF Sound, World, Stage, Undisturbed, Rewinds, Rewinding
    <2> QED
      BY <1>1, <2>1, SameAudits, PendingFacts
      DEF World, Rested, Stage, Undisturbed, Debt, Clean, Rewinds, Settling, Rewinding, journal, outside
  <1> QED
    BY <1>2, <1>3, <1>4, <1>5, <1>6 DEF Sound

(* It fails under a recovery, which discloses it.                          *)
LEMMA StoreFailsRecovery ==
  ASSUME RewindTypeOK, RewindTypeOK', Tolerated, NEW p \in Procs, Sound(p), StoreFails(p),
         at[p] \in {"recover", "reactivate", "judge", "resuspend", "finish", "reinstate", "record"}
  PROVE  Sound(p)'
  <1> DEFINE m == Recovers(p, Chosen(p))
  <1>1. /\ at'[p] = "terminal" /\ \A q \in Procs \ {p} : at'[q] = at[q]
        /\ ~Calm'
        /\ UNCHANGED <<run, journal, outside, child, audits, list, setting>>
    BY GotoTyped, ToleratedFacts DEF StoreFails, Places, Recovering
  <1>2. mine'[p].audit \in Pending /\ mine'[p].det = audits[mine'[p].audit].detail
    <2>1. CASE at[p] = "recover"
      <3>1. DOMAIN list[p] # {} /\ Hold(p, m)
        BY <2>1 DEF StoreFails, Chosen
      <3>2. m \in Memories /\ Chosen(p) \in DOMAIN list[p] /\ m.audit = Chosen(p) /\ m.det = list[p][Chosen(p)]
        BY <3>1, RecoversTyped
      <3> HIDE DEF m
      <3>3. mine'[p] = m
        BY <3>1, <3>2, HoldTyped
      <3> QED
        BY <2>1, <3>2, <3>3 DEF Sound, Books
    <2>2. CASE at[p] # "recover"
      BY <2>2 DEF StoreFails, Sound, Books, Settling
    <2> QED
      BY <2>1, <2>2
  <1>3. Alone(p)'
    BY <1>1, AloneStays DEF Sound
  <1>4. Ownership(p)'
    BY <1>1 DEF Sound, Ownership, Holds, Rewinds, Settling, Rewinding
  <1>5. Books(p)'
    BY <1>1, <1>2, SameAudits DEF Sound, Books, Rewinds, Settling, Rewinding
  <1>6. Orderly(p)'
    BY <1>1 DEF Orderly
  <1>7. World(p)'
    <2>1. ASSUME ~Disclosed PROVE \A b \in Pending \ {mine'[p].audit} : Plain(b)
      <3>1. CASE at[p] \in {"recover", "reactivate", "judge"}
        BY <1>2, <2>1, <3>1 DEF Sound, World, Rested
      <3>2. CASE at[p] \in {"resuspend", "finish", "reinstate", "record"}
        BY <2>1, <3>2 DEF Sound, World, Settling, StoreFails
      <3> QED
        BY <3>1, <3>2
    <2> QED
      BY <1>1, <2>1, SameAudits DEF World, Stage, Undisturbed, Rewinds, Settling, Rewinding
  <1> QED
    BY <1>3, <1>4, <1>5, <1>6, <1>7 DEF Sound

(* It fails when a failure is recorded: the audit stays open, as it was.   *)
LEMMA StoreFailsTerminal ==
  ASSUME RewindTypeOK, RewindTypeOK', Tolerated, NEW p \in Procs, Sound(p), StoreFails(p), at[p] = "terminal"
  PROVE  Sound(p)'
  <1>1. /\ Onward(p) /\ Calm /\ ~Calm'
        /\ UNCHANGED <<run, journal, outside, child, audits, mine, setting>>
    BY ToleratedFacts DEF StoreFails
  <1>2. /\ at'[p] = "recover" /\ \A q \in Procs \ {p} : at'[q] = at[q]
        /\ DOMAIN list'[p] = DOMAIN list[p] \ {mine[p].audit}
        /\ \A b \in DOMAIN list'[p] : list'[p][b] = list[p][b]
    BY <1>1, OnwardTyped
  <1>3. Alone(p)'
    BY <1>2, AloneStays DEF Sound
  <1>4. Ownership(p)'
    BY <1>1, <1>2 DEF Sound, Ownership, Holds, Rewinds, Settling, Rewinding
  <1>5. Books(p)'
    BY <1>1, <1>2, SameAudits DEF Sound, Books, Rewinds, Settling, Rewinding
  <1>6. Orderly(p)'
    BY <1>1 DEF Orderly
  <1>7. World(p)'
    <2>1. ASSUME ~Disclosed PROVE Rested(p)'
      <3>1. Rested(p)
        BY <1>1, <2>1 DEF Sound, World
      <3> QED
        BY <1>1, <1>2, <3>1, SameAudits DEF Rested, Settleable, Committed, Clean, Debt, journal, outside
    <2> QED
      BY <1>2, <1>1, <2>1, SameAudits DEF World, Stage, Undisturbed, Rewinds, Settling, Rewinding
  <1> QED
    BY <1>3, <1>4, <1>5, <1>6, <1>7 DEF Sound

(* A service dies at one of these steps.                                   *)
LEMMA CrashSound ==
  ASSUME RewindTypeOK, RewindTypeOK', Tolerated, NEW p \in Procs, Sound(p), Crash(p)
  PROVE  Sound(p)'
  <1>0. p \notin {Engine, Dead, Nobody} /\ Dead \notin {Engine, Nobody}
    BY RewindAssumption DEF Engine, Dead, Nobody
  <1>1. /\ at[p] \in Stoppable /\ at'[p] = "down" /\ \A q \in Procs \ {p} : at'[q] = at[q]
        /\ Calm /\ ~Calm'
        /\ run'.status = run.status
        /\ run'.owner = IF run.owner = p THEN Dead ELSE run.owner
        /\ UNCHANGED <<journal, outside, child, audits, setting>>
    BY GotoTyped, ToleratedFacts DEF Crash, Orphaned, CrashAt, Tolerated, Stoppable, Places, RewindTypeOK, RunRows
  <1>2. Alone(p)'
    BY <1>1, AloneStays DEF Sound
  <1>3. Ownership(p)'
    BY <1>0, <1>1 DEF Sound, Ownership, Holds, Rewinds, Settling, Rewinding
  <1>4. Books(p)'
    BY <1>1, SameAudits DEF Sound, Books, Rewinds, Settling, Rewinding
  <1>5. Orderly(p)'
    BY <1>1 DEF Orderly
  <1>6. World(p)'
    <2>1. ASSUME ~Disclosed PROVE Rested(p)'
      <3>1. CASE Clean /\ \A b \in Pending : Plain(b)
        BY <1>1, <3>1, SameAudits, SMTT(30) DEF Rested, Clean, Debt, journal, outside
      <3>2. CASE /\ mine[p].audit \in Pending /\ Pending = {mine[p].audit}
                 /\ audits[mine[p].audit].detail.phase = "compensated"
                 /\ Settleable(audits[mine[p].audit].detail) /\ run.owner = p
        BY <1>0, <1>1, <3>2, SameAudits DEF Rested, Settleable, Committed, Clean, Debt, journal, outside
      <3> QED
        BY <1>1, <2>1, <3>1, <3>2, StopSettles
    <2> QED
      BY <1>1, <2>1, SameAudits DEF World, Stage, Undisturbed, Rewinds, Settling, Rewinding
  <1> QED
    BY <1>2, <1>3, <1>4, <1>5, <1>6 DEF Sound

(* The engine only has a run that no rewind and no recovery holds, and it  *)
(* does and journals an effect in one step.                                *)
LEMMA EngineSound ==
  ASSUME RewindTypeOK, RewindTypeOK', Tolerated, NEW p \in Procs, Sound(p), EngineTakes \/ EngineReleases \/ ChildMoves
  PROVE  Sound(p)'
  <1>0. /\ p \notin {Engine, Dead, Nobody} /\ Engine \notin {Nobody, Dead}
        /\ UNCHANGED <<journal, outside, audits, memory, faults, setting>>
    BY RewindAssumption DEF Engine, Nobody, Dead, EngineTakes, EngineReleases, ChildMoves
  <1>1. \/ UNCHANGED run
        \/ run.owner = Nobody /\ run.claim = Nobody /\ run'.status = "running" /\ run'.owner = Engine
        \/ run.owner = Engine /\ run'.status = "suspended" /\ run'.owner = Nobody
    BY DEF EngineTakes, EngineReleases, ChildMoves, Release, Tolerated, Drives, RewindTypeOK, RunRows
  <1>2. UNCHANGED <<at, mine, list>>
    BY <1>0 DEF memory
  <1>3. Alone(p)'
    BY <1>2, AloneStays DEF Sound
  <1>4. Ownership(p)'
    BY <1>0, <1>1, <1>2 DEF Sound, Ownership, Holds, Rewinds, Settling, Rewinding
  <1>5. Books(p)'
    BY <1>0, <1>2, SameAudits DEF Sound, Books, Rewinds, Settling, Rewinding
  <1>6. Orderly(p)'
    BY <1>0, <1>1, <1>2, SameAudits DEF Sound, Orderly, Calm, Rewinds, Rewinding, MaxFaults
  <1>7. World(p)'
    <2>1. ASSUME ~Disclosed PROVE Stage(p)'
      BY <1>0, <1>2, <2>1 DEF Sound, World, Stage, Undisturbed, Debt, Clean, Measured, journal, outside
    <2>2. ASSUME Rested(p) PROVE Rested(p)'
      BY <1>0, <1>1, <1>2, <2>2, SameAudits DEF Rested, Settleable, Committed, Clean, Debt, journal, outside
    <2> QED
      BY <1>0, <1>2, <2>1, <2>2, SameAudits DEF Sound, World, Calm, MaxFaults, Rewinds, Settling, Rewinding
  <1> QED
    BY <1>3, <1>4, <1>5, <1>6, <1>7 DEF Sound

(* The engine adds an entry and its effect to a clean world.               *)
LEMMA EngineActsSound ==
  ASSUME RewindTypeOK, RewindTypeOK', Tolerated, NEW p \in Procs, Sound(p), EngineActs
  PROVE  Sound(p)'
  <1>0. /\ p \notin {Engine, Dead, Nobody} /\ run.owner = Engine /\ ~Holds(p)
        /\ UNCHANGED <<run, archive, audits, at, mine, list, faults, setting>>
    BY RewindAssumption DEF EngineActs, memory, Sound, Ownership
  <1>1. /\ tail' \in Entries /\ live' = live \cup {tail'}
        /\ effect' = [effect EXCEPT ![tail'] = IF tail' \in Irreversible THEN 1 ELSE 0]
        /\ workspace' = IF tail' \in Compensable THEN "head" ELSE workspace
    BY TypeParts DEF EngineActs, RewindTypeOK, Entries
  <1>2. ASSUME Clean PROVE Clean'
    <2>1. \A e \in Irreversible : effect'[e] = IF e \in live' THEN 1 ELSE 0
      <3>1. \A e \in Irreversible : effect'[e] = IF e = tail' THEN 1 ELSE effect[e]
        BY <1>1, RewindAssumption DEF RewindTypeOK
      <3>2. \A e \in Irreversible : effect[e] = IF e \in live THEN 1 ELSE 0
        BY <1>2 DEF Clean, Debt
      <3> QED
        BY <1>1, <3>1, <3>2
    <2>2. workspace' = IF live' \cap Compensable = {} THEN "frame" ELSE "head"
      <3>1. workspace = IF live \cap Compensable = {} THEN "frame" ELSE "head"
        BY <1>2 DEF Clean, Debt
      <3> QED
        BY <1>1, <3>1
    <2> QED
      BY <2>1, <2>2 DEF Clean, Debt
  <1>3. Alone(p)'
    BY <1>0, AloneStays DEF Sound
  <1>4. Ownership(p)'
    BY <1>0 DEF Sound, Ownership, Holds, Rewinds, Settling, Rewinding
  <1>5. Books(p)'
    BY <1>0, SameAudits DEF Sound, Books, Rewinds, Settling, Rewinding
  <1>6. Orderly(p)'
    BY <1>0, SameAudits DEF Sound, Orderly, Calm, Rewinds, Rewinding, MaxFaults
  <1>7. World(p)'
    <2>1. ASSUME ~Disclosed PROVE Stage(p)'
      <3>1. Stage(p)
        BY <2>1 DEF Sound, World
      <3>2. at[p] \notin {"revert", "restore", "save", "archive", "commit"}
        BY <1>0 DEF Holds, Rewinds, Rewinding
      <3>3. at[p] \in Undisturbed => Clean'
        BY <1>2, <3>1 DEF Stage
      <3>4. CASE at[p] = "undo"
        <4>1. mine[p].then = "reinstate" /\ ~mine[p].owned
          BY <1>0, <3>4 DEF Holds, Rewinds, Settling
        <4>2. mine[p].todo = {} /\ mine[p].back = FALSE /\ ~mine[p].bad /\ Debt(mine[p].todo, mine[p].back)
          <5>1. mine[p].back \in BOOLEAN
            BY TypeParts, MemoryTyped
          <5> QED
            BY <3>1, <3>4, <4>1, <5>1 DEF Stage
        <4>3. Clean'
          BY <1>2, <4>2 DEF Clean
        <4>4. Debt(mine[p].todo, mine[p].back)'
          BY <1>0, <4>2, <4>3 DEF Clean
        <4> QED
          BY <1>0, <3>4, <4>1, <4>2, <4>4 DEF Stage, Undisturbed
      <3>5. CASE at[p] # "undo"
        BY <1>0, <3>2, <3>3, <3>5 DEF Stage
      <3> QED
        BY <3>4, <3>5
    <2>2. ASSUME Rested(p) PROVE Rested(p)'
      <3>1. Clean /\ \A b \in Pending : Plain(b)
        BY <1>0, <2>2 DEF Rested
      <3> QED
        BY <1>0, <1>2, <3>1, SameAudits DEF Rested
    <2> QED
      BY <1>0, <2>1, <2>2, SameAudits DEF Sound, World, Calm, MaxFaults, Rewinds, Settling, Rewinding
  <1> QED
    BY <1>3, <1>4, <1>5, <1>6, <1>7 DEF Sound

(* Every step of a rewind keeps what is said of its process.               *)
LEMMA RewindStepSound ==
  ASSUME RewindTypeOK, RewindTypeOK', Tolerated, NEW p \in Procs, Sound(p), RewindStep(p)
  PROVE  Sound(p)'
  <1>1. CASE Activate(p) \/ WriteAudit(p) \/ Preflight(p)
    BY <1>1, ActivateSound, WriteAuditSound, PreflightBlocks, PreflightPasses
  <1>2. CASE Revert(p) \/ Restore(p) \/ Save(p) \/ Archive(p) \/ Commit(p)
    BY <1>2, RevertSound, RevertEndsSound, RestoreSound, SaveSound, ArchiveSound, CommitSound
  <1>3. CASE CancelChild(p) \/ Suspend(p) \/ Complete(p) \/ Report(p) \/ GiveBack(p)
    BY <1>3, CancelChildSound, SuspendSound, CloseAuditSound, GiveBackSound
  <1>4. CASE UndoStep(p) \/ UndoEnds(p)
    BY <1>4, UndoWorkspaceSound, UndoEffectSound, UndoAgainSound, UndoEndsSound
  <1> QED
    BY <1>1, <1>2, <1>3, <1>4 DEF RewindStep

(* Every step of a recovery does.                                          *)
LEMMA RecoveryStepSound ==
  ASSUME RewindTypeOK, RewindTypeOK', Tolerated, NEW p \in Procs, Sound(p), RecoveryStep(p)
  PROVE  Sound(p)'
  BY RecoveredSound, AcquireSound, ReactivateSound, JudgeCommitted, JudgeRollsBack, SettleRunSound, ResolveSound DEF RecoveryStep

(* Every tolerated fault does.                                             *)
LEMMA FaultStepSound ==
  ASSUME RewindTypeOK, RewindTypeOK', Tolerated, NEW p \in Procs, Sound(p), FaultStep(p)
  PROVE  Sound(p)'
  <1>1. CASE StoreFails(p)
    <2>1. \/ at[p] \in {"audit", "preflight", "save", "archive"}
          \/ at[p] \in {"activate", "commit", "children", "suspend", "complete", "report"}
          \/ at[p] \in {"recover", "reactivate", "judge", "resuspend", "finish", "reinstate", "record"}
          \/ at[p] \in {"giveback", "terminal"}
      BY <1>1 DEF StoreFails
    <2> QED
      BY <1>1, <2>1, StoreFailsEarly, StoreFailsLate, StoreFailsGivingBack, StoreFailsRecovery, StoreFailsTerminal
  <1> QED
    BY <1>1, ToleratedFacts, RevertFailsSound, CrashSound DEF FaultStep

(* A process that takes a step is up, or no process is.                    *)
LEMMA StepFocus ==
  ASSUME RewindTypeOK, Tolerated, NEW p \in Procs,
         Boot(p) \/ Close(p) \/ Claim(p) \/ RewindStep(p) \/ RecoveryStep(p) \/ FaultStep(p)
  PROVE  at[p] # "down" \/ \A r \in Procs : at[r] = "down"
  <1>1. CASE Boot(p)
    BY <1>1 DEF Boot, Tolerated
  <1>2. CASE Close(p) \/ Claim(p)
    BY <1>2 DEF Close, Claim
  <1>3. CASE RewindStep(p)
    BY <1>3 DEF RewindStep, Activate, WriteAudit, Preflight, Revert, Restore, Save, Archive, Commit, CancelChild, Suspend,
       Complete, UndoStep, UndoEnds, GiveBack, Report
  <1>4. CASE RecoveryStep(p)
    BY <1>4 DEF RecoveryStep, Recovered, Acquire, Reactivate, Judge, Resuspend, Reinstate, Finish, Record, TerminalFailure
  <1>5. CASE FaultStep(p)
    BY <1>5 DEF FaultStep, RevertFails, RestoreFails, Interrupted, UndoFails, StoreFails, Crash, Tolerated, CrashAt
  <1> QED
    BY <1>1, <1>2, <1>3, <1>4, <1>5

(* The invariant holds at first.                                           *)
LEMMA InitSound == RewindInit => RewindIInv
  <1> SUFFICES ASSUME RewindInit PROVE RewindIInv
    OBVIOUS
  <1>1. PICK p \in Procs : TRUE
    BY RewindAssumption
  <1>2. Pending = {} /\ ~Disclosed
    BY DEF RewindInit, Pending, Disclosed
  <1>3. at[p] = "down" /\ \A q \in Procs : at[q] = "down"
    BY DEF RewindInit
  <1>4. Alone(p) /\ Ownership(p) /\ Books(p) /\ Orderly(p)
    BY <1>2, <1>3 DEF RewindInit, Alone, Ownership, Holds, Books, Orderly, Rewinds, Settling, Rewinding
  <1>5. Clean
    <2>1. \A e \in Irreversible : effect[e] = IF e \in live THEN 1 ELSE 0
      BY RewindAssumption DEF RewindInit, Entries
    <2>2. workspace = IF live \cap Compensable = {} THEN "frame" ELSE "head"
      BY DEF RewindInit
    <2> QED
      BY <2>1, <2>2 DEF Clean, Debt
  <1>6. World(p)
    BY <1>2, <1>3, <1>5 DEF World, Rested, Stage, Undisturbed, Rewinds, Settling, Rewinding
  <1> QED
    BY <1>4, <1>6, InitType DEF RewindIInv, Sound

(* Every step keeps the invariant.                                         *)
LEMMA NextSound == RewindIInv /\ [RewindNext]_rewindVars => RewindIInv'
  <1> SUFFICES ASSUME RewindIInv, [RewindNext]_rewindVars, Tolerated' PROVE \E p \in Procs : Sound(p)'
    BY NextType DEF RewindIInv
  <1>1. RewindTypeOK /\ RewindTypeOK'
    BY NextType DEF RewindIInv
  <1>2. Tolerated
    BY SettingStays DEF Tolerated, Concurrent, MaxFaults, Drives, CrashAt
  <1>3. PICK p \in Procs : Sound(p)
    BY <1>2 DEF RewindIInv
  <1>4. CASE UNCHANGED rewindVars
    <2>1. UNCHANGED <<run, live, tail, archive, effect, workspace, child, audits, at, mine, list, faults, setting>>
      BY <1>4 DEF rewindVars, journal, outside, memory
    <2>2. (Ownership(p) /\ Alone(p))'
      BY <1>3, <2>1 DEF Sound, Ownership, Holds, Rewinds, Settling, Rewinding, Alone
    <2>3. Books(p)'
      BY <1>3, <2>1, SameAudits DEF Sound, Books, Rewinds, Settling, Rewinding
    <2>4. Orderly(p)'
      BY <1>3, <2>1, SameAudits DEF Sound, Orderly, Calm, Rewinds, Rewinding, MaxFaults
    <2>5. World(p)'
      <3>1. Stage(p) => Stage(p)'
        BY <2>1 DEF Stage, Undisturbed, Debt, Clean, Measured
      <3>2. Rested(p) => Rested(p)'
        BY <2>1, SameAudits DEF Rested, Settleable, Committed, Clean, Debt
      <3> QED
        BY <1>3, <2>1, <3>1, <3>2, SameAudits DEF Sound, World, Calm, MaxFaults, Rewinds, Settling, Rewinding
    <2> QED
      BY <2>2, <2>3, <2>4, <2>5 DEF Sound
  <1>5. ASSUME NEW q \in Procs,
               Boot(q) \/ Close(q) \/ Claim(q) \/ RewindStep(q) \/ RecoveryStep(q) \/ FaultStep(q)
        PROVE Sound(q)'
    <2>1. Sound(q)
      BY <1>1, <1>2, <1>3, <1>5, StepFocus, Focus
    <2> QED
      BY <1>1, <1>2, <1>5, <2>1, BootSound, CloseSound, ClaimSound, RewindStepSound, RecoveryStepSound, FaultStepSound
  <1>6. CASE EngineTakes \/ EngineActs \/ EngineReleases \/ ChildMoves
    BY <1>1, <1>2, <1>3, <1>6, EngineSound, EngineActsSound
  <1> QED
    BY <1>4, <1>5, <1>6 DEF RewindNext

(* When no process is at work and no audit is open, the world is clean.    *)
LEMMA QuietIsConsistent == RewindIInv => Consistent
  <1> SUFFICES ASSUME RewindIInv, Tolerated, Quiet,
                      \A a \in DOMAIN audits : audits[a].detail.phase \in {"completed", "rolled_back"}
               PROVE  /\ \A e \in Irreversible : effect[e] = IF e \in live THEN 1 ELSE 0
                      /\ workspace = IF live \cap Compensable = {} THEN "frame" ELSE "head"
    BY DEF Consistent
  <1>1. PICK p \in Procs : Sound(p)
    BY DEF RewindIInv
  <1>2. Pending = {} /\ ~Disclosed
    BY <1>1 DEF Sound, Books, OpenPhases, Pending, Disclosed
  <1>3. Rested(p)
    BY <1>1, <1>2 DEF Quiet, Sound, World
  <1>4. Clean
    BY <1>2, <1>3 DEF Rested
  <1> QED
    BY <1>4 DEF Clean, Debt

(* The inductive invariant holds throughout: what the one service that is  *)
(* up, the audits it and its predecessors left, the journal and the world  *)
(* say of one another.                                                     *)
THEOREM RewindInvariance == RewindSpec => []RewindIInv
  BY InitSound, NextSound, PTL DEF RewindSpec

(* When every rewind is over and none was disclosed as a terminal failure, *)
(* the journal and the world agree, for any number of rewinds, services    *)
(* and entries, after one failure of a handler or of the database or one   *)
(* death at a step where the audit says all that was done.                 *)
THEOREM WorldAgrees == RewindSpec => []Consistent
  BY RewindInvariance, QuietIsConsistent, PTL
=============================================================================
