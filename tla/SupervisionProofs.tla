------------------------- MODULE SupervisionProofs -------------------------
(***************************************************************************)
(* What keeps one driver on a run at a time. Inside a process, for every   *)
(* set of keys, callers, entries and fibers: the coordinator's drains of   *)
(* one key never overlap, no wake is forgotten and no caller waits for an  *)
(* abandoned entry. Between processes, for all durations that fit the      *)
(* budget: the heartbeat loop keeps the owner and a thief apart.           *)
(***************************************************************************)
EXTENDS RunCoordinator, HeartbeatLoop, TLAPS

(* The fresh identities are free ones, if there are any.                   *)
LEMMA FreshFiberFree ==
  ASSUME FreeFibers # {} PROVE FreshFiber \in Fibers /\ ~Live(FreshFiber)
  BY DEF FreshFiber, FreeFibers

(* No key, fiber or waiting caller holds a fresh entry.                    *)
LEMMA FreshEntryFree ==
  ASSUME FreeEntries # {}
  PROVE  /\ FreshEntry \in Entries
         /\ \A k \in Keys : active[k] # FreshEntry
         /\ \A f \in Fibers : Live(f) => fibers[f].entry # FreshEntry
         /\ \A c \in Callers : callers[c].phase = "waiting" => callers[c].entry # FreshEntry
  <1>1. FreshEntry \in FreeEntries
    BY DEF FreshEntry
  <1> QED
    BY <1>1 DEF FreeEntries

(* The records the operations build have their types.                      *)
LEMMA RecordTypes ==
  /\ NoEntry \in Entry /\ NoFiber \in Fiber /\ NoCaller \in Caller
  /\ \A f \in Fibers : MakeEntry(f) \in Entry
  /\ \A x \in {"ok", "failed"} : Answered(x) \in Entry /\ Answered(x).done # "open"
  /\ \A k \in Keys, e \in Entries : closed \in BOOLEAN => Start(k, e) \in Fiber
  /\ \A k \in Keys, e \in Entries, b \in BOOLEAN : Waiting(k, e, b) \in Caller
  BY DEF NoEntry, NoFiber, NoCaller, MakeEntry, Answered, Start, Waiting, Entry, Fiber, Caller

(* Nothing is active, forked, owed or waited for at first.                 *)
LEMMA InitIInv == Init => IInv
  <1> SUFFICES ASSUME Init PROVE IInv
    OBVIOUS
  <1>1. TypeOK
    BY RecordTypes DEF Init, TypeOK
  <1>2. Coherent
    BY DEF Init, Coherent, Live, NoFiber
  <1>3. WakeRemembered /\ WaitersServed
    BY DEF Init, WakeRemembered, WaitersServed, NoCaller
  <1> QED
    BY <1>1, <1>2, <1>3 DEF IInv

(* Two live fibers have different keys and different entries.              *)
LEMMA LiveApart ==
  ASSUME Coherent, NEW f \in Fibers, NEW g \in Fibers, Live(f), Live(g), f # g
  PROVE  fibers[f].key # fibers[g].key /\ fibers[f].entry # fibers[g].entry
  BY DEF Coherent

(* An idle key has no live fiber.                                          *)
LEMMA IdleKey ==
  ASSUME Coherent, NEW k \in Keys, active[k] = None, NEW f \in Fibers, Live(f)
  PROVE  fibers[f].key # k
  BY NoneAssumption DEF Coherent

---------------------------------------------------------------------------
(* A new entry on an idle key, by run or by wake, keeps the references.    *)
LEMMA StartNewStep ==
  ASSUME TypeOK, Coherent, NEW k \in Keys, active[k] = None, StartNew(k)
  PROVE  /\ active' \in [Keys -> Entries \cup {None}]
         /\ entries' \in [Entries -> Entry]
         /\ fibers' \in [Fibers -> Fiber]
         /\ Coherent'
  <1> DEFINE e == FreshEntry
             n == FreshFiber
  <1>1. n \in Fibers /\ ~Live(n)
    BY FreshFiberFree DEF StartNew
  <1>2. /\ e \in Entries
        /\ \A j \in Keys : active[j] # e
        /\ \A f \in Fibers : Live(f) => fibers[f].entry # e
    BY FreshEntryFree DEF StartNew
  <1> HIDE DEF e, n
  <1>3. /\ active' = [active EXCEPT ![k] = e]
        /\ entries' = [entries EXCEPT ![e] = MakeEntry(n)]
        /\ fibers' = [fibers EXCEPT ![n] = Start(k, e)]
    BY DEF StartNew, e, n
  <1>4. /\ active' \in [Keys -> Entries \cup {None}]
        /\ entries' \in [Entries -> Entry]
        /\ fibers' \in [Fibers -> Fiber]
    BY <1>1, <1>2, <1>3, RecordTypes DEF TypeOK
  <1>5. ASSUME NEW f \in Fibers, Live(f)'
        PROVE  /\ fibers'[f].key \in Keys /\ fibers'[f].entry \in Entries
               /\ active'[fibers'[f].key] = fibers'[f].entry
               /\ entries'[fibers'[f].entry].owner = f
    <2>1. CASE f = n
      BY <2>1, <1>1, <1>2, <1>3 DEF TypeOK, Start, MakeEntry
    <2>2. CASE f # n
      <3>1. Live(f) /\ fibers'[f] = fibers[f]
        BY <2>2, <1>1, <1>3, <1>5 DEF TypeOK, Live
      <3>2. fibers[f].key # k /\ fibers[f].entry # e
        BY <3>1, <1>2, IdleKey
      <3> QED
        BY <3>1, <3>2, <1>2, <1>3 DEF TypeOK, Coherent
    <2> QED
      BY <2>1, <2>2
  <1>6. ASSUME NEW j \in Keys, active'[j] # None
        PROVE  LET f == entries'[active'[j]].owner IN
               f \in Fibers /\ fibers'[f].phase # "ended" /\ fibers'[f].key = j
    <2>1. CASE j = k
      BY <2>1, <1>1, <1>2, <1>3 DEF TypeOK, Live, Start, MakeEntry
    <2>2. CASE j # k
      <3>1. active'[j] = active[j] /\ active[j] # e /\ entries'[active[j]] = entries[active[j]]
        BY <2>2, <1>2, <1>3, <1>6 DEF TypeOK
      <3>2. entries[active[j]].owner # n
        BY <3>1, <1>1, <1>6 DEF Coherent
      <3> QED
        BY <3>1, <3>2, <1>1, <1>3, <1>6 DEF TypeOK, Coherent, Live
    <2> QED
      BY <2>1, <2>2
  <1> QED
    BY <1>4, <1>5, <1>6 DEF Coherent, Live

(* A new entry on an idle key leaves the callers that wait alone.          *)
LEMMA StartNewWaiters ==
  ASSUME TypeOK, WaitersServed, NEW k \in Keys, active[k] = None, StartNew(k),
         NEW c \in Callers, callers[c].phase = "waiting"
  PROVE  /\ callers[c].key \in Keys /\ callers[c].entry \in Entries
         /\ \/ entries'[callers[c].entry].done # "open"
            \/ active'[callers[c].key] = callers[c].entry
  <1>1. callers[c].entry # FreshEntry /\ FreshEntry \in Entries
    BY FreshEntryFree DEF StartNew
  <1>2. /\ active' = [active EXCEPT ![k] = FreshEntry]
        /\ entries' = [entries EXCEPT ![FreshEntry] = MakeEntry(FreshFiber)]
    BY DEF StartNew
  <1>3. callers[c].entry # None
    BY NoneAssumption DEF WaitersServed
  <1> HIDE DEF FreshEntry, FreshFiber
  <1> QED
    BY <1>1, <1>2, <1>3 DEF TypeOK, WaitersServed

(* A new entry on an idle key leaves the wakes of other keys on record.    *)
LEMMA StartNewWakes ==
  ASSUME TypeOK, Coherent, WakeRemembered, NEW k \in Keys, active[k] = None, StartNew(k),
         UNCHANGED closed, NEW j \in Keys, owed[j]
  PROVE  /\ ~closed' /\ active'[j] # None
         /\ \/ entries'[active'[j]].pendingWake
            \/ \E f \in Fibers : /\ fibers'[f].key = j
                                 /\ fibers'[f].phase = "forked" /\ ~fibers'[f].interrupted
  <1>1. j # k
    BY DEF WakeRemembered
  <1>2. FreshFiber \in Fibers /\ ~Live(FreshFiber)
    BY FreshFiberFree DEF StartNew
  <1>3. FreshEntry \in Entries /\ active[j] # FreshEntry
    BY FreshEntryFree DEF StartNew
  <1>4. /\ active' = [active EXCEPT ![k] = FreshEntry]
        /\ entries' = [entries EXCEPT ![FreshEntry] = MakeEntry(FreshFiber)]
        /\ fibers' = [fibers EXCEPT ![FreshFiber] = Start(k, FreshEntry)]
    BY DEF StartNew
  <1> HIDE DEF FreshEntry, FreshFiber
  <1>5. active'[j] = active[j] /\ entries'[active[j]] = entries[active[j]]
    BY <1>1, <1>3, <1>4 DEF TypeOK
  <1>6. \A f \in Fibers : fibers[f].phase = "forked" => fibers'[f] = fibers[f]
    BY <1>2, <1>4 DEF TypeOK, Live
  <1> QED
    BY <1>5, <1>6 DEF WakeRemembered

---------------------------------------------------------------------------
(* One lemma per operation.                                                *)

(* run on a busy key joins its entry.                                      *)
LEMMA RunJoinsStep ==
  ASSUME IInv, NEW c \in Callers, NEW k \in Keys, RunJoins(c, k) PROVE IInv'
  <1> DEFINE w == Waiting(k, active[k], entries[active[k]].stopping)
  <1>1. active[k] \in Entries /\ entries[active[k]].stopping \in BOOLEAN
    BY DEF IInv, TypeOK, RunJoins, Entry
  <1>2. w \in Caller
    BY <1>1, RecordTypes
  <1>3. w.key = k /\ w.entry = active[k]
    BY DEF Waiting
  <1>4. callers' = [callers EXCEPT ![c] = w]
    BY DEF RunJoins
  <1> HIDE DEF w
  <1>5. TypeOK'
    BY <1>2, <1>4 DEF IInv, TypeOK, RunJoins
  <1>6. Coherent' /\ WakeRemembered'
    BY DEF IInv, Coherent, WakeRemembered, Live, RunJoins
  <1>7. WaitersServed'
    BY <1>1, <1>3, <1>4 DEF IInv, TypeOK, WaitersServed, RunJoins
  <1> QED
    BY <1>5, <1>6, <1>7 DEF IInv

(* run on an idle key starts an entry and waits for it.                    *)
LEMMA RunStartsStep ==
  ASSUME IInv, NEW c \in Callers, NEW k \in Keys, RunStarts(c, k) PROVE IInv'
  <1> DEFINE w == Waiting(k, FreshEntry, FALSE)
  <1>1. active[k] = None /\ StartNew(k)
    BY DEF RunStarts
  <1>2. FreshEntry \in Entries
    BY <1>1, FreshEntryFree DEF StartNew
  <1>3. w \in Caller
    BY <1>2, RecordTypes
  <1>4. w.key = k /\ w.entry = FreshEntry
    BY DEF Waiting
  <1>5. callers' = [callers EXCEPT ![c] = w]
    BY DEF RunStarts
  <1>6. active' = [active EXCEPT ![k] = FreshEntry]
    BY <1>1 DEF StartNew
  <1> HIDE DEF w, FreshEntry
  <1>7. TypeOK' /\ Coherent'
    BY <1>1, <1>3, <1>5, StartNewStep DEF IInv, TypeOK, RunStarts
  <1>8. WakeRemembered'
    <2> SUFFICES ASSUME NEW j \in Keys, owed[j]
                 PROVE  /\ ~closed' /\ active'[j] # None
                        /\ \/ entries'[active'[j]].pendingWake
                           \/ \E f \in Fibers :
                                 /\ fibers'[f].key = j
                                 /\ fibers'[f].phase = "forked" /\ ~fibers'[f].interrupted
      BY DEF WakeRemembered, RunStarts
    <2> QED
      BY <1>1, StartNewWakes DEF IInv, RunStarts
  <1>9. WaitersServed'
    <2> SUFFICES ASSUME NEW d \in Callers, callers'[d].phase = "waiting"
                 PROVE  /\ callers'[d].key \in Keys /\ callers'[d].entry \in Entries
                        /\ \/ entries'[callers'[d].entry].done # "open"
                           \/ active'[callers'[d].key] = callers'[d].entry
      BY DEF WaitersServed
    <2>1. CASE d = c
      BY <2>1, <1>2, <1>4, <1>5, <1>6 DEF IInv, TypeOK
    <2>2. CASE d # c
      <3>1. callers'[d] = callers[d]
        BY <2>2, <1>5 DEF IInv, TypeOK
      <3> QED
        BY <3>1, <1>1, StartNewWaiters DEF IInv
    <2> QED
      BY <2>1, <2>2
  <1> QED
    BY <1>7, <1>8, <1>9 DEF IInv

(* run returns, or calls itself once more.                                 *)
LEMMA RunReturnsStep == ASSUME IInv, NEW c \in Callers, RunReturns(c) PROVE IInv'
  <1>1. TypeOK'
    <2>1. callers'[c] \in Caller
      BY DEF IInv, TypeOK, RunReturns, Caller
    <2>2. /\ callers' = [callers EXCEPT ![c] = callers'[c]]
          /\ UNCHANGED <<active, entries, fibers, closed, owed>>
      BY DEF IInv, TypeOK, RunReturns
    <2> QED
      BY <2>1, <2>2 DEF IInv, TypeOK
  <1>2. Coherent' /\ WakeRemembered'
    BY DEF IInv, Coherent, WakeRemembered, Live, RunReturns
  <1>3. callers'[c].phase # "waiting" /\ \A d \in Callers \ {c} : callers'[d] = callers[d]
    BY DEF IInv, TypeOK, RunReturns, Caller
  <1>4. WaitersServed'
    BY <1>3, ZenonT(60) DEF IInv, WaitersServed, RunReturns
  <1> QED
    BY <1>1, <1>2, <1>4 DEF IInv

(* The wait of run is interrupted.                                         *)
LEMMA RunAbandonedStep == ASSUME IInv, NEW c \in Callers, RunAbandoned(c) PROVE IInv'
  <1>1. TypeOK'
    BY RecordTypes DEF IInv, TypeOK, RunAbandoned
  <1>2. Coherent' /\ WakeRemembered'
    BY DEF IInv, Coherent, WakeRemembered, Live, RunAbandoned
  <1>3. WaitersServed'
    BY DEF IInv, TypeOK, WaitersServed, RunAbandoned, NoCaller
  <1> QED
    BY <1>1, <1>2, <1>3 DEF IInv

(* wake is remembered by the active entry, or starts one.                  *)
LEMMA WakeStep == ASSUME IInv, NEW k \in Keys, Wake(k) PROVE IInv'
  <1>1. CASE active[k] # None
    <2>1. /\ entries' = [entries EXCEPT ![active[k]].pendingWake = TRUE]
          /\ owed' = [owed EXCEPT ![k] = ~closed]
          /\ UNCHANGED <<active, fibers, callers, closed>>
      BY <1>1 DEF Wake
    <2>2. active[k] \in Entries
      BY <1>1 DEF IInv, TypeOK
    <2>3. TypeOK'
      BY <2>1, <2>2 DEF IInv, TypeOK, Entry
    <2>4. /\ entries'[active[k]].pendingWake
          /\ \A e \in Entries : /\ entries'[e].owner = entries[e].owner
                               /\ entries'[e].done = entries[e].done
                               /\ entries[e].pendingWake => entries'[e].pendingWake
      BY <2>1, <2>2 DEF IInv, TypeOK, Entry
    <2>5. Coherent'
      BY <2>1, <2>4 DEF IInv, TypeOK, Coherent, Live
    <2>6. WakeRemembered'
      BY <1>1, <2>1, <2>2, <2>4 DEF IInv, TypeOK, WakeRemembered
    <2>7. WaitersServed'
      BY <2>1, <2>4 DEF IInv, WaitersServed
    <2> QED
      BY <2>3, <2>5, <2>6, <2>7 DEF IInv
  <1>2. CASE active[k] = None
    <2>1. /\ StartNew(k)
          /\ owed' = [owed EXCEPT ![k] = ~closed]
          /\ UNCHANGED <<callers, closed>>
      BY <1>2 DEF Wake
    <2>2. TypeOK' /\ Coherent'
      BY <1>2, <2>1, StartNewStep DEF IInv, TypeOK
    <2>3. WakeRemembered'
      <3> SUFFICES ASSUME NEW j \in Keys, owed'[j]
                   PROVE  /\ ~closed' /\ active'[j] # None
                          /\ \/ entries'[active'[j]].pendingWake
                             \/ \E f \in Fibers :
                                   /\ fibers'[f].key = j
                                   /\ fibers'[f].phase = "forked" /\ ~fibers'[f].interrupted
        BY DEF WakeRemembered
      <3>1. CASE j = k
        <4>1. FreshFiber \in Fibers /\ FreshEntry \in Entries
          BY <2>1, FreshFiberFree, FreshEntryFree DEF StartNew
        <4>2. /\ active' = [active EXCEPT ![k] = FreshEntry]
              /\ fibers' = [fibers EXCEPT ![FreshFiber] = Start(k, FreshEntry)]
          BY <2>1 DEF StartNew
        <4> HIDE DEF FreshFiber, FreshEntry
        <4>3. ~closed /\ active'[k] # None
          BY <2>1, <3>1, <4>1, <4>2, NoneAssumption DEF IInv, TypeOK
        <4>4. fibers'[FreshFiber] = Start(k, FreshEntry)
          BY <4>1, <4>2 DEF IInv, TypeOK
        <4> QED
          BY <2>1, <3>1, <4>1, <4>3, <4>4 DEF Start
      <3>2. CASE j # k
        <4>1. owed[j]
          BY <2>1, <3>2 DEF IInv, TypeOK
        <4> QED
          BY <4>1, <1>2, <2>1, StartNewWakes DEF IInv
      <3> QED
        BY <3>1, <3>2
    <2>4. WaitersServed'
      <3> SUFFICES ASSUME NEW d \in Callers, callers[d].phase = "waiting"
                   PROVE  /\ callers[d].key \in Keys /\ callers[d].entry \in Entries
                          /\ \/ entries'[callers[d].entry].done # "open"
                             \/ active'[callers[d].key] = callers[d].entry
        BY <2>1 DEF WaitersServed
      <3> QED
        BY <1>2, <2>1, StartNewWaiters DEF IInv
    <2> QED
      BY <2>2, <2>3, <2>4 DEF IInv
  <1> QED
    BY <1>1, <1>2

(* interrupt stops the owner and drops the wakes of the key.               *)
LEMMA InterruptStep == ASSUME IInv, NEW k \in Keys, Interrupt(k) PROVE IInv'
  <1> DEFINE o == entries[active[k]].owner
  <1>1. active[k] \in Entries /\ o \in Fibers /\ fibers[o].key = k
    BY DEF IInv, TypeOK, Coherent, Interrupt
  <1>2. /\ entries' = [entries EXCEPT ![active[k]].stopping = TRUE,
                                      ![active[k]].pendingWake = FALSE]
        /\ fibers' = [fibers EXCEPT ![o].interrupted = TRUE]
        /\ owed' = [owed EXCEPT ![k] = FALSE]
        /\ UNCHANGED <<active, callers, closed>>
    BY DEF Interrupt
  <1> HIDE DEF o
  <1>3. /\ \A e \in Entries : entries'[e] \in Entry
        /\ \A f \in Fibers : fibers'[f] \in Fiber
    <2> DEFINE r == [entries[active[k]] EXCEPT !.stopping = TRUE, !.pendingWake = FALSE]
    <2>a. entries[active[k]] \in Entry
      BY <1>1 DEF IInv, TypeOK
    <2>b. r \in Entry
      BY <2>a DEF Entry
    <2>c. entries' = [entries EXCEPT ![active[k]] = r]
      BY <1>1, <1>2 DEF IInv, TypeOK
    <2> HIDE DEF r
    <2>1. entries'[active[k]] \in Entry /\ \A e \in Entries \ {active[k]} : entries'[e] = entries[e]
      BY <1>1, <2>b, <2>c DEF IInv, TypeOK
    <2>2. fibers'[o] \in Fiber /\ \A f \in Fibers \ {o} : fibers'[f] = fibers[f]
      BY <1>1, <1>2, ZenonT(60) DEF IInv, TypeOK, Fiber
    <2> QED
      BY <2>1, <2>2 DEF IInv, TypeOK
  <1>4. \A e \in Entries : /\ entries'[e].owner = entries[e].owner
                           /\ entries'[e].done = entries[e].done
                           /\ e # active[k] => entries'[e] = entries[e]
    BY <1>1, <1>2 DEF IInv, TypeOK, Entry
  <1>5. \A f \in Fibers : /\ fibers'[f].phase = fibers[f].phase
                          /\ fibers'[f].key = fibers[f].key
                          /\ fibers'[f].entry = fibers[f].entry
                          /\ f # o => fibers'[f] = fibers[f]
    BY <1>1, <1>2 DEF IInv, TypeOK, Fiber
  <1>6. Coherent'
    BY <1>2, <1>4, <1>5 DEF IInv, TypeOK, Coherent, Live
  <1>7. WakeRemembered'
    <2> SUFFICES ASSUME NEW j \in Keys, owed'[j]
                 PROVE  /\ ~closed' /\ active'[j] # None
                        /\ \/ entries'[active'[j]].pendingWake
                           \/ \E f \in Fibers :
                                 /\ fibers'[f].key = j
                                 /\ fibers'[f].phase = "forked" /\ ~fibers'[f].interrupted
      BY DEF WakeRemembered
    <2>1. owed[j] /\ j # k
      BY <1>2 DEF IInv, TypeOK
    <2>2. active[j] # None /\ ~closed
      BY <2>1 DEF IInv, WakeRemembered
    <2>3. active[j] \in Entries /\ active[j] # active[k]
      BY <1>1, <2>1, <2>2 DEF IInv, TypeOK, Coherent, o
    <2>4. entries'[active[j]] = entries[active[j]]
      BY <1>4, <2>3
    <2>5. \A f \in Fibers : fibers[f].key = j => fibers'[f] = fibers[f]
      BY <1>1, <1>5, <2>1
    <2>6. \/ entries[active[j]].pendingWake
          \/ \E f \in Fibers : /\ fibers[f].key = j
                              /\ fibers[f].phase = "forked" /\ ~fibers[f].interrupted
      BY <2>1 DEF IInv, WakeRemembered
    <2> QED
      BY <1>2, <2>2, <2>4, <2>5, <2>6
  <1>8. WaitersServed'
    BY <1>2, <1>4 DEF IInv, WaitersServed
  <1>9. TypeOK'
    BY <1>1, <1>2, <1>3 DEF IInv, TypeOK
  <1> QED
    BY <1>6, <1>7, <1>8, <1>9 DEF IInv

(* The scope closes: every fiber is interrupted and nothing is owed.       *)
LEMMA CloseStep == ASSUME IInv, Close PROVE IInv'
  <1>1. \A f \in Fibers : /\ fibers'[f] \in Fiber
                          /\ fibers'[f].phase = fibers[f].phase
                          /\ fibers'[f].key = fibers[f].key
                          /\ fibers'[f].entry = fibers[f].entry
    BY DEF IInv, TypeOK, Fiber, Close
  <1>2. TypeOK'
    BY <1>1 DEF IInv, TypeOK, Close
  <1>3. Coherent'
    <2>1. active' = active /\ entries' = entries
      BY DEF Close
    <2> QED
      BY <1>1, <2>1 DEF IInv, Coherent, Live
  <1>4. WakeRemembered' /\ WaitersServed'
    BY DEF IInv, WakeRemembered, WaitersServed, Close
  <1> QED
    BY <1>2, <1>3, <1>4 DEF IInv

(* A forked fiber begins to drain: its key is owed nothing.                *)
LEMMA BeginDrainStep == ASSUME IInv, NEW f \in Fibers, BeginDrain(f) PROVE IInv'
  <1>1. fibers[f].key \in Keys
    BY DEF IInv, Coherent, Live, BeginDrain
  <1>2. \A g \in Fibers : /\ fibers'[g] \in Fiber
                          /\ fibers'[g].phase # "ended" <=> fibers[g].phase # "ended"
                          /\ fibers'[g].key = fibers[g].key
                          /\ fibers'[g].entry = fibers[g].entry
                          /\ g # f => fibers'[g] = fibers[g]
    BY DEF IInv, TypeOK, Fiber, BeginDrain
  <1>3. TypeOK'
    BY <1>1, <1>2 DEF IInv, TypeOK, BeginDrain, Fiber
  <1>4. Coherent'
    BY <1>2 DEF IInv, TypeOK, Coherent, Live, BeginDrain
  <1>5. WakeRemembered'
    BY <1>1, <1>2 DEF IInv, TypeOK, WakeRemembered, BeginDrain
  <1>6. WaitersServed'
    BY DEF IInv, WaitersServed, BeginDrain
  <1> QED
    BY <1>3, <1>4, <1>5, <1>6 DEF IInv

---------------------------------------------------------------------------
(* A fiber that exits is live, and its key's entry is its own.             *)
LEMMA ExitingFiber ==
  ASSUME Coherent, NEW f \in Fibers, NEW exit, Exits(f, exit)
  PROVE  /\ Live(f)
         /\ fibers[f].key \in Keys /\ fibers[f].entry \in Entries
         /\ active[fibers[f].key] = fibers[f].entry
         /\ entries[fibers[f].entry].owner = f
         /\ \A j \in Keys : active[j] = fibers[f].entry => j = fibers[f].key
         /\ \A g \in Fibers \ {f} : Live(g) => /\ fibers[g].key # fibers[f].key
                                               /\ fibers[g].entry # fibers[f].entry
  <1>1. Live(f)
    BY DEF Exits, Live
  <1>2. /\ fibers[f].key \in Keys /\ fibers[f].entry \in Entries
        /\ active[fibers[f].key] = fibers[f].entry
        /\ entries[fibers[f].entry].owner = f
    BY <1>1 DEF Coherent
  <1>3. \A j \in Keys : active[j] = fibers[f].entry => j = fibers[f].key
    BY <1>2, NoneAssumption DEF Coherent
  <1> QED
    BY <1>1, <1>2, <1>3, LiveApart

(* A wake that is owed while the fiber of its key exits is a pendingWake:  *)
(* a fiber that has yet to begin exits only when it was interrupted.       *)
LEMMA OwedAtExit ==
  ASSUME IInv, NEW f \in Fibers, NEW exit, Exits(f, exit), owed[fibers[f].key]
  PROVE  entries[fibers[f].entry].pendingWake
  <1>1. /\ fibers[f].key \in Keys /\ active[fibers[f].key] = fibers[f].entry
        /\ \A g \in Fibers \ {f} : Live(g) => fibers[g].key # fibers[f].key
    BY ExitingFiber DEF IInv
  <1>2. ~\E g \in Fibers : /\ fibers[g].key = fibers[f].key
                           /\ fibers[g].phase = "forked" /\ ~fibers[g].interrupted
    BY <1>1 DEF Exits, Live
  <1> QED
    BY <1>1, <1>2 DEF IInv, WakeRemembered

(* settle that drains the same entry once more.                            *)
LEMMA SettleContinuesStep ==
  ASSUME IInv, NEW f \in Fibers, NEW exit \in {"ok", "failed"}, SettleContinues(f, exit)
  PROVE  IInv'
  <1> DEFINE e == fibers[f].entry
             k == fibers[f].key
             n == FreshFiber
  <1>1. /\ Live(f) /\ k \in Keys /\ e \in Entries /\ active[k] = e
        /\ \A j \in Keys : active[j] = e => j = k
        /\ \A g \in Fibers \ {f} : Live(g) => fibers[g].key # k /\ fibers[g].entry # e
    BY ExitingFiber DEF IInv, SettleContinues
  <1>2. n \in Fibers /\ ~Live(n) /\ n # f
    BY <1>1, FreshFiberFree DEF SettleContinues
  <1>3. /\ entries' = [entries EXCEPT ![e].pendingWake = FALSE, ![e].owner = n]
        /\ fibers' = [fibers EXCEPT ![f] = NoFiber, ![n] = Start(k, e)]
        /\ UNCHANGED <<active, callers, closed, owed>>
    BY DEF SettleContinues
  <1> HIDE DEF e, k, n
  <1>4. /\ entries'[e] \in Entry /\ entries'[e].owner = n /\ entries'[e].done = entries[e].done
        /\ \A d \in Entries \ {e} : entries'[d] = entries[d]
    BY <1>1, <1>2, <1>3, ZenonT(60) DEF IInv, TypeOK, Entry
  <1>5. /\ fibers'[f] = NoFiber /\ fibers'[n] = Start(k, e)
        /\ \A g \in Fibers \ {f, n} : fibers'[g] = fibers[g]
    BY <1>2, <1>3 DEF IInv, TypeOK
  <1>6. TypeOK'
    BY <1>1, <1>2, <1>3, <1>4, <1>5, RecordTypes DEF IInv, TypeOK
  <1>7. Coherent'
    <2>1. ASSUME NEW g \in Fibers, fibers'[g].phase # "ended"
          PROVE  /\ fibers'[g].key \in Keys /\ fibers'[g].entry \in Entries
                 /\ active[fibers'[g].key] = fibers'[g].entry
                 /\ entries'[fibers'[g].entry].owner = g
      <3>1. CASE g = n
        BY <3>1, <1>1, <1>4, <1>5 DEF Start
      <3>2. CASE g = f
        BY <3>2, <2>1, <1>5 DEF NoFiber
      <3>3. CASE g \notin {f, n}
        BY <3>3, <2>1, <1>1, <1>4, <1>5 DEF IInv, Coherent, Live
      <3> QED
        BY <3>1, <3>2, <3>3
    <2>2. ASSUME NEW j \in Keys, active[j] # None
          PROVE  LET g == entries'[active[j]].owner IN
                 g \in Fibers /\ fibers'[g].phase # "ended" /\ fibers'[g].key = j
      <3>1. CASE j = k
        BY <3>1, <1>1, <1>2, <1>4, <1>5 DEF Start
      <3>2. CASE j # k
        <4>1. active[j] # e /\ active[j] \in Entries
          BY <3>2, <2>2, <1>1 DEF IInv, TypeOK
        <4>2. entries[active[j]].owner \notin {f, n}
          BY <3>2, <2>2, <1>1, <1>2 DEF IInv, Coherent, k
        <4> QED
          BY <4>1, <4>2, <2>2, <1>4, <1>5 DEF IInv, Coherent, Live
      <3> QED
        BY <3>1, <3>2
    <2> QED
      BY <2>1, <2>2, <1>3, ZenonT(60) DEF Coherent, Live
  <1>8. WakeRemembered'
    <2> SUFFICES ASSUME NEW j \in Keys, owed[j]
                 PROVE  /\ ~closed /\ active[j] # None
                        /\ \/ entries'[active[j]].pendingWake
                           \/ \E g \in Fibers :
                                 /\ fibers'[g].key = j
                                 /\ fibers'[g].phase = "forked" /\ ~fibers'[g].interrupted
      BY <1>3 DEF WakeRemembered
    <2>1. ~closed /\ active[j] # None
      BY DEF IInv, WakeRemembered
    <2>2. CASE j = k
      BY <2>1, <2>2, <1>2, <1>5 DEF Start
    <2>3. CASE j # k
      <3>1. entries'[active[j]] = entries[active[j]]
        BY <2>1, <2>3, <1>1, <1>4 DEF IInv, TypeOK
      <3>2. \A g \in Fibers : (fibers[g].key = j /\ fibers[g].phase = "forked")
                               => fibers'[g] = fibers[g]
        BY <2>3, <1>2, <1>5 DEF Live, k
      <3> QED
        BY <2>1, <3>1, <3>2 DEF IInv, WakeRemembered
    <2> QED
      BY <2>2, <2>3
  <1>9. WaitersServed'
    <2>1. \A d \in Entries : entries'[d].done = entries[d].done
      BY <1>4
    <2> QED
      BY <1>3, <2>1 DEF IInv, WaitersServed
  <1> QED
    BY <1>6, <1>7, <1>8, <1>9 DEF IInv

(* settle that gives a pending wake an entry of its own.                   *)
LEMMA SettleReplacesStep ==
  ASSUME IInv, NEW f \in Fibers, NEW exit \in {"ok", "failed"}, SettleReplaces(f, exit)
  PROVE  IInv'
  <1> DEFINE e == fibers[f].entry
             k == fibers[f].key
             n == FreshFiber
             d == FreshEntry
  <1>1. /\ Live(f) /\ k \in Keys /\ e \in Entries /\ active[k] = e
        /\ \A j \in Keys : active[j] = e => j = k
        /\ \A g \in Fibers \ {f} : Live(g) => fibers[g].key # k /\ fibers[g].entry # e
    BY ExitingFiber DEF IInv, SettleReplaces
  <1>2. n \in Fibers /\ ~Live(n) /\ n # f
    BY <1>1, FreshFiberFree DEF SettleReplaces
  <1>3. /\ d \in Entries /\ d # e /\ d # None
        /\ \A j \in Keys : active[j] # d
        /\ \A g \in Fibers : Live(g) => fibers[g].entry # d
        /\ \A c \in Callers : callers[c].phase = "waiting" => callers[c].entry # d
    BY <1>1, FreshEntryFree, NoneAssumption DEF SettleReplaces
  <1>4. /\ active' = [active EXCEPT ![k] = d]
        /\ entries' = [entries EXCEPT ![e] = Answered(exit), ![d] = MakeEntry(n)]
        /\ fibers' = [fibers EXCEPT ![f] = NoFiber, ![n] = Start(k, d)]
        /\ UNCHANGED <<callers, closed, owed>>
    BY DEF SettleReplaces
  <1> HIDE DEF e, k, n, d
  <1>5. /\ active'[k] = d /\ \A j \in Keys \ {k} : active'[j] = active[j]
        /\ entries'[e] = Answered(exit) /\ entries'[d] = MakeEntry(n)
        /\ \A x \in Entries \ {e, d} : entries'[x] = entries[x]
        /\ fibers'[f] = NoFiber /\ fibers'[n] = Start(k, d)
        /\ \A g \in Fibers \ {f, n} : fibers'[g] = fibers[g]
    BY <1>1, <1>2, <1>3, <1>4 DEF IInv, TypeOK
  <1>6. TypeOK'
    BY <1>1, <1>2, <1>3, <1>4, <1>5, RecordTypes DEF IInv, TypeOK
  <1>7. Coherent'
    <2>1. ASSUME NEW g \in Fibers, fibers'[g].phase # "ended"
          PROVE  /\ fibers'[g].key \in Keys /\ fibers'[g].entry \in Entries
                 /\ active'[fibers'[g].key] = fibers'[g].entry
                 /\ entries'[fibers'[g].entry].owner = g
      <3>1. CASE g = n
        BY <3>1, <1>1, <1>3, <1>5 DEF Start, MakeEntry
      <3>2. CASE g = f
        BY <3>2, <2>1, <1>5 DEF NoFiber
      <3>3. CASE g \notin {f, n}
        BY <3>3, <2>1, <1>1, <1>3, <1>5 DEF IInv, Coherent, Live
      <3> QED
        BY <3>1, <3>2, <3>3
    <2>2. ASSUME NEW j \in Keys, active'[j] # None
          PROVE  LET g == entries'[active'[j]].owner IN
                 g \in Fibers /\ fibers'[g].phase # "ended" /\ fibers'[g].key = j
      <3>1. CASE j = k
        BY <3>1, <1>1, <1>2, <1>5 DEF Start, MakeEntry
      <3>2. CASE j # k
        <4>1. active'[j] = active[j] /\ active[j] \notin {e, d} /\ active[j] \in Entries
          BY <3>2, <2>2, <1>1, <1>3, <1>5 DEF IInv, TypeOK
        <4>2. entries[active[j]].owner \notin {f, n}
          BY <3>2, <4>1, <2>2, <1>1, <1>2 DEF IInv, Coherent, k
        <4> QED
          BY <4>1, <4>2, <2>2, <1>5 DEF IInv, Coherent, Live
      <3> QED
        BY <3>1, <3>2
    <2> QED
      BY <2>1, <2>2 DEF Coherent, Live
  <1>8. WakeRemembered'
    <2> SUFFICES ASSUME NEW j \in Keys, owed[j]
                 PROVE  /\ ~closed /\ active'[j] # None
                        /\ \/ entries'[active'[j]].pendingWake
                           \/ \E g \in Fibers :
                                 /\ fibers'[g].key = j
                                 /\ fibers'[g].phase = "forked" /\ ~fibers'[g].interrupted
      BY <1>4 DEF WakeRemembered
    <2>1. ~closed /\ active[j] # None
      BY DEF IInv, WakeRemembered
    <2>2. CASE j = k
      BY <2>1, <2>2, <1>2, <1>3, <1>5 DEF Start
    <2>3. CASE j # k
      <3>1. active'[j] = active[j] /\ entries'[active[j]] = entries[active[j]]
        BY <2>1, <2>3, <1>1, <1>3, <1>5 DEF IInv, TypeOK
      <3>2. \A g \in Fibers : (fibers[g].key = j /\ fibers[g].phase = "forked")
                               => fibers'[g] = fibers[g]
        BY <2>3, <1>2, <1>5 DEF Live, k
      <3> QED
        BY <2>1, <3>1, <3>2 DEF IInv, WakeRemembered
    <2> QED
      BY <2>2, <2>3
  <1>9. WaitersServed'
    <2> SUFFICES ASSUME NEW c \in Callers, callers[c].phase = "waiting"
                 PROVE  /\ callers[c].key \in Keys /\ callers[c].entry \in Entries
                        /\ \/ entries'[callers[c].entry].done # "open"
                           \/ active'[callers[c].key] = callers[c].entry
      BY <1>4 DEF WaitersServed
    <2>1. CASE callers[c].entry = e
      BY <2>1, <1>5, RecordTypes DEF IInv, WaitersServed
    <2>2. CASE callers[c].entry # e
      BY <2>2, <1>1, <1>3, <1>5 DEF IInv, WaitersServed
    <2> QED
      BY <2>1, <2>2
  <1> QED
    BY <1>6, <1>7, <1>8, <1>9 DEF IInv

(* settle that leaves the key idle.                                        *)
LEMMA SettleRemovesStep ==
  ASSUME IInv, NEW f \in Fibers, NEW exit \in {"ok", "failed"}, SettleRemoves(f, exit)
  PROVE  IInv'
  <1> DEFINE e == fibers[f].entry
             k == fibers[f].key
  <1>1. /\ Live(f) /\ k \in Keys /\ e \in Entries /\ active[k] = e
        /\ \A j \in Keys : active[j] = e => j = k
        /\ \A g \in Fibers \ {f} : Live(g) => fibers[g].key # k /\ fibers[g].entry # e
    BY ExitingFiber DEF IInv, SettleRemoves
  <1>2. ~owed[k]
    BY OwedAtExit DEF SettleRemoves
  <1>3. /\ active' = [active EXCEPT ![k] = None]
        /\ entries' = [entries EXCEPT ![e] = Answered(exit)]
        /\ fibers' = [fibers EXCEPT ![f] = NoFiber]
        /\ UNCHANGED <<callers, closed, owed>>
    BY DEF SettleRemoves
  <1> HIDE DEF e, k
  <1>4. /\ active'[k] = None /\ \A j \in Keys \ {k} : active'[j] = active[j]
        /\ entries'[e] = Answered(exit)
        /\ \A x \in Entries \ {e} : entries'[x] = entries[x]
        /\ fibers'[f] = NoFiber /\ \A g \in Fibers \ {f} : fibers'[g] = fibers[g]
    BY <1>1, <1>3 DEF IInv, TypeOK
  <1>5. TypeOK'
    BY <1>1, <1>3, RecordTypes DEF IInv, TypeOK
  <1>6. Coherent'
    <2>1. ASSUME NEW g \in Fibers, fibers'[g].phase # "ended"
          PROVE  /\ fibers'[g].key \in Keys /\ fibers'[g].entry \in Entries
                 /\ active'[fibers'[g].key] = fibers'[g].entry
                 /\ entries'[fibers'[g].entry].owner = g
      <3>1. g # f
        BY <2>1, <1>4 DEF NoFiber
      <3> QED
        BY <3>1, <2>1, <1>1, <1>4 DEF IInv, Coherent, Live
    <2>2. ASSUME NEW j \in Keys, active'[j] # None
          PROVE  LET g == entries'[active'[j]].owner IN
                 g \in Fibers /\ fibers'[g].phase # "ended" /\ fibers'[g].key = j
      <3>1. j # k /\ active'[j] = active[j] /\ active[j] # e /\ active[j] \in Entries
        BY <2>2, <1>1, <1>4 DEF IInv, TypeOK
      <3>2. entries[active[j]].owner # f
        BY <3>1, <2>2 DEF IInv, Coherent, k
      <3> QED
        BY <3>1, <3>2, <2>2, <1>4 DEF IInv, Coherent, Live
    <2> QED
      BY <2>1, <2>2 DEF Coherent, Live
  <1>7. WakeRemembered'
    <2> SUFFICES ASSUME NEW j \in Keys, owed[j]
                 PROVE  /\ ~closed /\ active'[j] # None
                        /\ \/ entries'[active'[j]].pendingWake
                           \/ \E g \in Fibers :
                                 /\ fibers'[g].key = j
                                 /\ fibers'[g].phase = "forked" /\ ~fibers'[g].interrupted
      BY <1>3 DEF WakeRemembered
    <2>1. j # k /\ ~closed /\ active[j] # None
      BY <1>2 DEF IInv, WakeRemembered
    <2>2. active'[j] = active[j] /\ entries'[active[j]] = entries[active[j]]
      BY <2>1, <1>1, <1>4 DEF IInv, TypeOK
    <2>3. \A g \in Fibers : fibers[g].key = j => fibers'[g] = fibers[g]
      BY <2>1, <1>4 DEF k
    <2> QED
      BY <2>1, <2>2, <2>3 DEF IInv, WakeRemembered
  <1>8. WaitersServed'
    <2> SUFFICES ASSUME NEW c \in Callers, callers[c].phase = "waiting"
                 PROVE  /\ callers[c].key \in Keys /\ callers[c].entry \in Entries
                        /\ \/ entries'[callers[c].entry].done # "open"
                           \/ active'[callers[c].key] = callers[c].entry
      BY <1>3 DEF WaitersServed
    <2>1. CASE callers[c].entry = e
      BY <2>1, <1>4, RecordTypes DEF IInv, WaitersServed
    <2>2. CASE callers[c].entry # e
      BY <2>2, <1>1, <1>4 DEF IInv, WaitersServed
    <2> QED
      BY <2>1, <2>2
  <1> QED
    BY <1>5, <1>6, <1>7, <1>8 DEF IInv

---------------------------------------------------------------------------
(* Every step of the coordinator keeps the invariant.                      *)
LEMMA NextIInv == IInv /\ [Next]_vars => IInv'
  <1> SUFFICES ASSUME IInv, [Next]_vars PROVE IInv'
    OBVIOUS
  <1>1. CASE UNCHANGED vars
    BY <1>1 DEF vars, IInv, TypeOK, Coherent, WakeRemembered, WaitersServed, Live
  <1>2. ASSUME NEW c \in Callers, NEW k \in Keys, RunJoins(c, k) \/ RunStarts(c, k)
        PROVE  IInv'
    BY <1>2, RunJoinsStep, RunStartsStep
  <1>3. ASSUME NEW c \in Callers, RunReturns(c) \/ RunAbandoned(c) PROVE IInv'
    BY <1>3, RunReturnsStep, RunAbandonedStep
  <1>4. ASSUME NEW k \in Keys, Wake(k) \/ Interrupt(k) PROVE IInv'
    BY <1>4, WakeStep, InterruptStep
  <1>5. CASE Close
    BY <1>5, CloseStep
  <1>6. ASSUME NEW f \in Fibers, BeginDrain(f) PROVE IInv'
    BY <1>6, BeginDrainStep
  <1>7. ASSUME NEW f \in Fibers, Settle(f) PROVE IInv'
    BY <1>7, SettleContinuesStep, SettleReplacesStep, SettleRemovesStep DEF Settle
  <1> QED
    BY <1>1, <1>2, <1>3, <1>4, <1>5, <1>6, <1>7 DEF Next

(* The map, the entries and the fibers always refer to one another.        *)
THEOREM Bookkeeping == Spec => []IInv
  BY InitIInv, NextIInv, PTL DEF Spec

(* Drains of one key never overlap: run, wake, interrupt, settle and the   *)
(* closing scope, in any order and with any number of callers.             *)
THEOREM DrainsExclude == Spec => []OneDrainPerKey
  <1>1. IInv => OneDrainPerKey
    BY LiveApart DEF IInv, OneDrainPerKey
  <1> QED
    BY <1>1, Bookkeeping, PTL

(* No wake is forgotten: until a drain begins after it or an interruption  *)
(* drops it, it is a pendingWake or a fiber that is free to begin.         *)
THEOREM WakesKept == Spec => []WakeRemembered
  <1>1. IInv => WakeRemembered
    BY DEF IInv
  <1> QED
    BY <1>1, Bookkeeping, PTL

(* No caller of run waits for an entry that nobody will answer.            *)
THEOREM WaitersKept == Spec => []WaitersServed
  <1>1. IInv => WaitersServed
    BY DEF IInv
  <1> QED
    BY <1>1, Bookkeeping, PTL

---------------------------------------------------------------------------
(* The heartbeat loop *)

(* The loop starts within its bounds.                                      *)
LEMMA LoopInitIInv == LoopInit => LoopIInv
<1> SUFFICES ASSUME LoopInit PROVE LoopIInv
  OBVIOUS
<1>1. committed \in BOOLEAN /\ stolen \in BOOLEAN /\ ~stolen
  BY Zenon DEF LoopInit
<1>2. /\ time = 0 /\ phase = "starting" /\ nowMs = 0
      /\ lastPulseMs = 0 /\ wakeAt = 0 /\ heartbeatAt = 0
  BY DEF LoopInit
<1> QED
  BY <1>1, <1>2, DurationAssumption
  DEF DurationAssumption, LoopIInv, LoopTypeOK, NoOverlap, Phases

(* Each step of the owner, its store and its peer keeps the bounds.        *)
LEMMA LoopNextIInv == ASSUME Budget, LoopIInv, [LoopNext]_loopVars PROVE LoopIInv'
<1> USE DurationAssumption DEF DurationAssumption, LoopIInv, LoopTypeOK, NoOverlap, Phases, LastReading, Tolerance
<1>1. CASE Tick
  BY <1>1 DEF Tick
<1>2. CASE Begin
  BY <1>2 DEF Begin, Sleep
<1>3. CASE Pulse
  <2>1. committed' \in BOOLEAN /\ ~committed'
    BY <1>3, Zenon DEF Pulse
  <2> QED
    BY <1>3, <2>1 DEF Pulse
<1>4. CASE Commit
  BY <1>4 DEF Commit
<1>5. CASE Updated
  BY <1>5 DEF Updated, Sleep
<1>6. CASE Finish
  BY <1>6 DEF Finish
<1>7. CASE Steal
  <2>1. PICK offset \in 0..MaxOffset : heartbeatAt + StaleAfter < time + offset
    BY <1>7 DEF Steal
  <2>2. ASSUME phase # "stopped" PROVE FALSE
    <3>1. time <= heartbeatAt + StartDelay + LastReading + WriteDelay
      BY <2>2
    <3>2. offset > SkewAllowance + 1 - 2 * WriteDelay - StartDelay
      BY <2>1, <3>1
    <3> QED
      BY <3>2 DEF Budget
  <2> QED
    BY <1>7, <2>2 DEF Steal
<1>8. ASSUME NEW fenceLost \in BOOLEAN, NotUpdated(fenceLost) PROVE LoopIInv'
  BY <1>8 DEF NotUpdated, Sleep
<1>9. CASE UNCHANGED loopVars
  BY <1>9 DEF loopVars
<1> QED
  BY <1>1, <1>2, <1>3, <1>4, <1>5, <1>6, <1>7, <1>8, <1>9 DEF LoopNext

(* With clocks, writes and starts inside the budget, a peer's steal never  *)
(* finds the owner's flow running, whatever the length of the run and      *)
(* whichever pulses fail (heartbeatLoop and heartbeatWriteTolerance).      *)
THEOREM OwnerStopsInTime == ASSUME Budget PROVE LoopSpec => []NoOverlap
<1>1. LoopInit => LoopIInv
  BY LoopInitIInv
<1>2. LoopIInv /\ [LoopNext]_loopVars => LoopIInv'
  BY LoopNextIInv
<1>3. LoopIInv => NoOverlap
  BY DEF LoopIInv
<1> QED
  BY <1>1, <1>2, <1>3, PTL DEF LoopSpec
===========================================================================
