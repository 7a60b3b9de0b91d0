-------------------------- MODULE KgslEventsProofs --------------------------
(***************************************************************************)
(* Proofs about the life of a context and its events, for any number of    *)
(* threads and events, any timestamp window and any bounds: the types, the *)
(* reference count of the context, that it is taken apart once, that it is *)
(* never destroyed while its group can be reached, that no event misses    *)
(* its timestamp, no waiter sleeps on, and "retired" is the truth.         *)
(***************************************************************************)
EXTENDS KgslEvents, FiniteSetTheorems, TLAPS

(***************************************************************************)
(* Counting the users of the context.                                      *)
(***************************************************************************)

\* The threads inside an ioctl and the events in use can be counted.
LEMMA UsersFinite ==
    /\ IsFiniteSet(Busy) /\ Cardinality(Busy) \in Nat
    /\ IsFiniteSet(LiveEvents) /\ Cardinality(LiveEvents) \in Nat
  <1>1. IsFiniteSet(Busy) /\ IsFiniteSet(LiveEvents)
    BY FS_Subset, EventsAssumption DEF Busy, LiveEvents
  <1>2. QED
    BY <1>1, FS_CardinalityType

\* A thread that starts an ioctl is one more user.
LEMMA BusyEnter ==
    ASSUME TypeOK, NEW p \in Threads, pc[p] = "idle",
           NEW l, l # "idle", pc' = [pc EXCEPT ![p] = l]
    PROVE  Cardinality(Busy') = Cardinality(Busy) + 1
  <1>1. Busy' = Busy \cup {p} /\ p \notin Busy
    BY DEF TypeOK, Busy
  <1>2. QED
    BY <1>1, UsersFinite, FS_AddElement

\* A thread that goes from one label of its ioctl to another stays a user.
LEMMA BusySame ==
    ASSUME TypeOK, NEW p \in Threads, pc[p] # "idle",
           NEW l, l # "idle", pc' = [pc EXCEPT ![p] = l]
    PROVE  Busy' = Busy
  BY DEF TypeOK, Busy

\* A thread that ends its ioctl is one user less.
LEMMA BusyLeave ==
    ASSUME TypeOK, NEW p \in Threads, pc[p] # "idle",
           pc' = [pc EXCEPT ![p] = "idle"]
    PROVE  Cardinality(Busy') = Cardinality(Busy) - 1
  <1>1. Busy' = Busy \ {p} /\ p \in Busy
    BY DEF TypeOK, Busy
  <1>2. QED
    BY <1>1, UsersFinite, FS_RemoveElement

\* kgsl_add_event allocates an event.
LEMMA EventNew ==
    ASSUME TypeOK, NEW e \in Events, est[e] = "free",
           est' = [est EXCEPT ![e] = "init"]
    PROVE  Cardinality(LiveEvents') = Cardinality(LiveEvents) + 1
  <1>1. LiveEvents' = LiveEvents \cup {e} /\ e \notin LiveEvents
    BY DEF TypeOK, LiveEvents
  <1>2. QED
    BY <1>1, UsersFinite, FS_AddElement

\* The worker frees an event.
LEMMA EventFreed ==
    ASSUME TypeOK, NEW e \in Events, est[e] # "free",
           est' = [est EXCEPT ![e] = "free"]
    PROVE  Cardinality(LiveEvents') = Cardinality(LiveEvents) - 1
  <1>1. LiveEvents' = LiveEvents \ {e} /\ e \in LiveEvents
    BY DEF TypeOK, LiveEvents
  <1>2. QED
    BY <1>1, UsersFinite, FS_RemoveElement

\* signal_event moves listed events to the worker and frees none.
LEMMA SignalKeepsEvents ==
    ASSUME TypeOK, NEW S \in SUBSET Listed,
           est' = [e \in Events |-> IF e \in S THEN "queued" ELSE est[e]]
    PROVE  LiveEvents' = LiveEvents
  BY DEF TypeOK, LiveEvents, Listed

\* Whoever uses the context keeps it alive.
LEMMA UsersHoldContext ==
    ASSUME TypeOK, ContextRefCount
    PROVE  /\ \A p \in Threads : pc[p] # "idle" => ref > 0
           /\ \A e \in Events : est[e] # "free" => ref > 0
           /\ hpc # "idle" => ref > 0
           /\ master => ref > 0
           /\ \A p \in Threads : pc[p] # "idle" /\ master => ref > 1
  <1>1. ASSUME NEW p \in Threads, pc[p] # "idle"
        PROVE  Cardinality(Busy) > 0
    <2>1. Busy # {}
      BY <1>1 DEF Busy
    <2>2. QED
      BY <2>1, UsersFinite, FS_EmptySet
  <1>2. ASSUME NEW e \in Events, est[e] # "free"
        PROVE  Cardinality(LiveEvents) > 0
    <2>1. LiveEvents # {}
      BY <1>2 DEF LiveEvents
    <2>2. QED
      BY <2>1, UsersFinite, FS_EmptySet
  <1>3. QED
    BY <1>1, <1>2, UsersFinite DEF TypeOK, ContextRefCount, One
-----------------------------------------------------------------------------
(***************************************************************************)
(* The steps of the actors keep each part of the inductive invariant.      *)
(***************************************************************************)

\* Timestamps are closed under the sums the driver makes of them.
LEMMA AddClosed ==
    ASSUME NEW a \in Timestamp, NEW n \in 0 .. Window - 1
    PROVE  AddTimestamp(a, n) \in Timestamp
  BY WindowAssumption DEF Timestamp, AddTimestamp

\* 0 is a timestamp: what the memory of the code is cleared to.
LEMMA ZeroTimestamp == 0 \in Timestamp
  BY WindowAssumption DEF Timestamp

\* Every step keeps the types.
LEMMA TypeStep ==
    ASSUME TypeOK, ContextRefCount, [Next]_vars
    PROVE  TypeOK'
  <1>1. CASE Submit
    BY <1>1, AddClosed, EventsAssumption, WindowAssumption
       DEF Submit, kgsl_context_is_bad, gpuVars, ctxVars, groupVars,
       eventVars, threadVars, TypeOK
  <1>2. CASE GpuRetire
    BY <1>2
       DEF GpuRetire, After, gpuVars, ctxVars, groupVars, eventVars,
       threadVars, TypeOK, PCs
  <1>3. CASE HwschedWork
    <2>1. \/ hpc' = "g_lock" /\ ref' = ref + 1
          \/ hpc' = hpc /\ ref' = ref
      BY <1>3, Zenon DEF HwschedWork
    <2>2. kick' = FALSE /\ UNCHANGED <<gpu, halted, retired,
             queued, submitted, master, debugref, detached, invalid, inidr,
             groupVars, eventVars, threadVars>>
      BY <1>3 DEF HwschedWork
    <2>3. hpc' \in {"idle", "g_lock", "g_put"} /\ ref' \in Nat
      BY <2>1 DEF TypeOK
    <2>4. kick' \in BOOLEAN
      BY <2>2
    <2>5. QED
      BY <2>2, <2>3, <2>4 DEF groupVars, eventVars, threadVars, TypeOK
  <1>4. CASE HwschedProcess
    BY <1>4
       DEF HwschedProcess, _process_event_group, signal_event, gpuVars,
       ctxVars, groupVars, eventVars, threadVars, TypeOK, Listed
  <1>5. CASE HwschedPut
    BY <1>5, UsersHoldContext, ZeroTimestamp
       DEF HwschedPut, kgsl_context_put, gpuVars, ctxVars, groupVars,
       eventVars, threadVars, TypeOK, PCs
  <1>6. ASSUME NEW e \in Events, _kgsl_event_worker(e)
        PROVE  TypeOK'
    <2>1. woken' \in [Threads -> BOOLEAN]
      BY <1>6 DEF _kgsl_event_worker, WakeAll, TypeOK
    <2>2. ref' \in Nat /\ retired' \in Timestamp /\ inidr' \in BOOLEAN
      BY <1>6, UsersHoldContext, ZeroTimestamp
         DEF _kgsl_event_worker, kgsl_context_put, TypeOK
    <2>3. /\ est' \in [Events -> {"free", "init", "listed", "queued"}]
          /\ ets' \in [Events -> Timestamp]
          /\ efunc' \in [Events -> {"wait", "other"}]
          /\ eres' \in [Events -> {"none", "retired", "cancelled"}]
      BY <1>6, ZeroTimestamp DEF _kgsl_event_worker, TypeOK
    <2>4. QED
      BY <1>6, <2>1, <2>2, <2>3 DEF _kgsl_event_worker, groupVars, TypeOK
  <1>7. ASSUME NEW p \in Threads, ContextPut(p)
        PROVE  TypeOK'
    BY <1>7, UsersHoldContext, ZeroTimestamp
       DEF ContextPut, kgsl_context_put, Goto, gpuVars, ctxVars, groupVars,
       eventVars, threadVars, TypeOK, PCs
  <1>8. ASSUME NEW p \in Threads, RetireMarker(p)
        PROVE  TypeOK'
    BY <1>8
       DEF RetireMarker, After, Goto, gpuVars, ctxVars, groupVars, eventVars,
       threadVars, TypeOK, PCs
  <1>9. ASSUME NEW p \in Threads, MarkerProcess(p)
        PROVE  TypeOK'
    BY <1>9
       DEF MarkerProcess, Goto, _process_event_group, signal_event, gpuVars,
       ctxVars, groupVars, eventVars, threadVars, TypeOK, PCs, Listed
  <1>10. ASSUME NEW p \in Threads, WaitCheck(p)
        PROVE  TypeOK'
    BY <1>10
       DEF WaitCheck, Goto, gpuVars, ctxVars, groupVars, eventVars,
       threadVars, TypeOK, PCs
  <1>11. ASSUME NEW p \in Threads, kgsl_add_event(p)
        PROVE  TypeOK'
    BY <1>11
       DEF kgsl_add_event, Goto, gpuVars, ctxVars, groupVars, eventVars,
       threadVars, TypeOK, PCs
  <1>12. ASSUME NEW p \in Threads, AddEventFails(p)
        PROVE  TypeOK'
    BY <1>12
       DEF AddEventFails, Goto, gpuVars, ctxVars, groupVars, eventVars,
       threadVars, TypeOK, PCs
  <1>13. ASSUME NEW p \in Threads, AddEventLocked(p)
        PROVE  TypeOK'
    <2>1. /\ est' \in [Events -> {"free", "init", "listed", "queued"}]
          /\ eres' \in [Events -> {"none", "retired", "cancelled"}]
      BY <1>13 DEF AddEventLocked, TypeOK
    <2>2. woken' \in [Threads -> BOOLEAN]
      BY <1>13 DEF AddEventLocked, TypeOK
    <2>3. pc' \in [Threads -> PCs] /\ ev' \in [Threads -> Events \cup {None}]
      BY <1>13 DEF AddEventLocked, Goto, TypeOK, PCs
    <2>4. QED
      BY <1>13, <2>1, <2>2, <2>3
         DEF AddEventLocked, gpuVars, ctxVars, groupVars, TypeOK
  <1>14. ASSUME NEW p \in Threads, WaitWake(p)
        PROVE  TypeOK'
    BY <1>14
       DEF WaitWake, Goto, gpuVars, ctxVars, groupVars, eventVars,
       threadVars, TypeOK, PCs
  <1>15. ASSUME NEW p \in Threads, kgsl_cancel_event(p)
        PROVE  TypeOK'
    BY <1>15
       DEF kgsl_cancel_event, Goto, CancelEvents, signal_event, gpuVars,
       ctxVars, groupVars, eventVars, threadVars, TypeOK, PCs
  <1>16. ASSUME NEW p \in Threads, DetachInvalidate(p)
        PROVE  TypeOK'
    BY <1>16
       DEF DetachInvalidate, Goto, Invalidate, After, gpuVars, ctxVars,
       groupVars, eventVars, threadVars, TypeOK, PCs
  <1>17. ASSUME NEW p \in Threads, CancelQueued(p)
        PROVE  TypeOK'
    BY <1>17
       DEF CancelQueued, Goto, CancelEvents, signal_event, gpuVars, ctxVars,
       groupVars, eventVars, threadVars, TypeOK, PCs
  <1>18. ASSUME NEW p \in Threads, FlushEvents(p)
        PROVE  TypeOK'
    BY <1>18
       DEF FlushEvents, Goto, _process_event_group, signal_event, gpuVars,
       ctxVars, groupVars, eventVars, threadVars, TypeOK, PCs
  <1>19. ASSUME NEW p \in Threads, InvalidateWake(p)
        PROVE  TypeOK'
    BY <1>19
       DEF InvalidateWake, Goto, WakeAll, gpuVars, ctxVars, groupVars,
       eventVars, threadVars, TypeOK, PCs
  <1>20. ASSUME NEW p \in Threads, DetachSet(p)
        PROVE  TypeOK'
    BY <1>20
       DEF DetachSet, Goto, gpuVars, ctxVars, groupVars, eventVars,
       threadVars, TypeOK, PCs
  <1>21. ASSUME NEW p \in Threads, DetachDebugfs(p)
        PROVE  TypeOK'
    <2>1. ref' \in Nat /\ retired' \in Timestamp /\ inidr' \in BOOLEAN
      BY <1>21, UsersHoldContext, ZeroTimestamp
         DEF DetachDebugfs, kgsl_context_put, TypeOK
    <2>2. pc' \in [Threads -> PCs]
      BY <1>21 DEF DetachDebugfs, Goto, TypeOK, PCs
    <2>3. QED
      BY <1>21, <2>1, <2>2
         DEF DetachDebugfs, groupVars, eventVars, TypeOK
  <1>22. ASSUME NEW p \in Threads, gen7_hwsched_context_detach(p)
        PROVE  TypeOK'
    <2>1. pc' \in [Threads -> PCs]
      BY <1>22 DEF gen7_hwsched_context_detach, Goto, TypeOK, PCs
    <2>2. halted' \in BOOLEAN /\ retired' \in Timestamp
      BY <1>22 DEF gen7_hwsched_context_detach, TypeOK
    <2>3. QED
      BY <1>22, <2>1, <2>2
         DEF gen7_hwsched_context_detach, ctxVars, groupVars, eventVars, TypeOK
  <1>23. ASSUME NEW p \in Threads, DetachWake(p)
        PROVE  TypeOK'
    BY <1>23
       DEF DetachWake, Goto, WakeAll, gpuVars, ctxVars, groupVars, eventVars,
       threadVars, TypeOK, PCs
  <1>24. ASSUME NEW p \in Threads, kgsl_cancel_events(p)
        PROVE  TypeOK'
    BY <1>24
       DEF kgsl_cancel_events, Goto, CancelEvents, signal_event, gpuVars,
       ctxVars, groupVars, eventVars, threadVars, TypeOK, PCs
  <1>25. ASSUME NEW p \in Threads, kgsl_del_event_group(p)
        PROVE  TypeOK'
    BY <1>25
       DEF kgsl_del_event_group, Goto, gpuVars, ctxVars, groupVars,
       eventVars, threadVars, TypeOK, PCs
  <1>26. ASSUME NEW p \in Threads, DetachPut(p)
        PROVE  TypeOK'
    <2>1. ref' \in Nat /\ retired' \in Timestamp /\ inidr' \in BOOLEAN
      BY <1>26, UsersHoldContext, ZeroTimestamp
         DEF DetachPut, kgsl_context_put, TypeOK
    <2>2. pc' \in [Threads -> PCs]
      BY <1>26 DEF DetachPut, Goto, TypeOK, PCs
    <2>3. QED
      BY <1>26, <2>1, <2>2
         DEF DetachPut, groupVars, eventVars, TypeOK
  <1>27. ASSUME NEW p \in Threads, kgsl_context_get(p)
        PROVE  TypeOK'
    BY <1>27, AddClosed, EventsAssumption, WindowAssumption
       DEF kgsl_context_get, Goto, gpuVars, ctxVars, groupVars, eventVars,
       threadVars, TypeOK, PCs
  <1>28. ASSUME NEW p \in Threads, WaitTimeout(p)
        PROVE  TypeOK'
    BY <1>28
       DEF WaitTimeout, Goto, gpuVars, ctxVars, groupVars, eventVars,
       threadVars, TypeOK, PCs
  <1>29. ASSUME NEW p \in Threads, FaultInvalidate(p)
        PROVE  TypeOK'
    BY <1>29
       DEF FaultInvalidate, Goto, Invalidate, After, gpuVars, ctxVars,
       groupVars, eventVars, threadVars, TypeOK, PCs
  <1>30. CASE UNCHANGED vars
    BY <1>30
       DEF vars, gpuVars, ctxVars, groupVars, eventVars, threadVars, TypeOK,
       PCs
  <1>31. QED
    BY <1>1, <1>2, <1>3, <1>4, <1>5, <1>6, <1>7, <1>8, <1>9, <1>10, <1>11,
    <1>12, <1>13, <1>14, <1>15, <1>16, <1>17, <1>18, <1>19, <1>20, <1>21,
    <1>22, <1>23, <1>24, <1>25, <1>26, <1>27, <1>28, <1>29, <1>30
       DEF Next, Hwsched, Step

\* Every step keeps the reference count of the context exact.
LEMMA CountStep ==
    ASSUME TypeOK, ContextRefCount, EventsOwned, DetachedOnce, [Next]_vars
    PROVE  ContextRefCount'
  <1>1. CASE Submit
    <2>1. Busy' = Busy
      BY <1>1
         DEF Submit, threadVars, Busy
    <2>2. LiveEvents' = LiveEvents
      BY <1>1
         DEF Submit, eventVars, LiveEvents
    <2>3. UNCHANGED <<ref, master, debugref, hpc>>
      BY <1>1
         DEF Submit
    <2>4. QED
      BY <2>1, <2>2, <2>3, UsersFinite
         DEF ContextRefCount, One, TypeOK
  <1>2. CASE GpuRetire
    <2>1. Busy' = Busy
      BY <1>2
         DEF GpuRetire, threadVars, Busy
    <2>2. LiveEvents' = LiveEvents
      BY <1>2
         DEF GpuRetire, eventVars, LiveEvents
    <2>3. UNCHANGED <<ref, master, debugref, hpc>>
      BY <1>2
         DEF GpuRetire, ctxVars
    <2>4. QED
      BY <2>1, <2>2, <2>3, UsersFinite
         DEF ContextRefCount, One, TypeOK
  <1>3. CASE HwschedWork
    <2>1. Busy' = Busy
      BY <1>3
         DEF HwschedWork, threadVars, Busy
    <2>2. LiveEvents' = LiveEvents
      BY <1>3
         DEF HwschedWork, eventVars, LiveEvents
    <2>3. /\ UNCHANGED <<master, debugref>>
          /\ \/ ref' = ref + 1 /\ hpc = "idle" /\ hpc' = "g_lock"
             \/ ref' = ref /\ hpc' = hpc
      BY <1>3
         DEF HwschedWork
    <2>4. QED
      BY <2>1, <2>2, <2>3, UsersFinite
         DEF ContextRefCount, One, TypeOK
  <1>4. CASE HwschedProcess
    <2>1. Busy' = Busy
      BY <1>4
         DEF HwschedProcess, threadVars, Busy
    <2>2. LiveEvents' = LiveEvents
      BY <1>4, SignalKeepsEvents
         DEF HwschedProcess, _process_event_group, signal_event, LiveEvents,
         Listed
    <2>3. /\ UNCHANGED <<ref, master, debugref>>
          /\ hpc # "idle" /\ hpc' # "idle"
      BY <1>4
         DEF HwschedProcess, ctxVars
    <2>4. QED
      BY <2>1, <2>2, <2>3, UsersFinite
         DEF ContextRefCount, One, TypeOK
  <1>5. CASE HwschedPut
    <2>1. Busy' = Busy
      BY <1>5
         DEF HwschedPut, threadVars, Busy
    <2>2. LiveEvents' = LiveEvents
      BY <1>5
         DEF HwschedPut, eventVars, LiveEvents
    <2>3. /\ ref' = ref - 1 /\ UNCHANGED <<master, debugref>>
          /\ hpc # "idle" /\ hpc' = "idle"
      BY <1>5
         DEF HwschedPut, kgsl_context_put
    <2>4. QED
      BY <2>1, <2>2, <2>3, UsersFinite
         DEF ContextRefCount, One, TypeOK
  <1>6. ASSUME NEW e \in Events, _kgsl_event_worker(e)
        PROVE  ContextRefCount'
    <2>1. Busy' = Busy
      BY <1>6
         DEF _kgsl_event_worker, Busy
    <2>2. Cardinality(LiveEvents') = Cardinality(LiveEvents) - 1
      BY <1>6, EventFreed
         DEF _kgsl_event_worker
    <2>3. ref' = ref - 1 /\ UNCHANGED <<master, debugref, hpc>>
      BY <1>6
         DEF _kgsl_event_worker, kgsl_context_put
    <2>4. QED
      BY <2>1, <2>2, <2>3, UsersFinite
         DEF ContextRefCount, One, TypeOK
  <1>7. ASSUME NEW p \in Threads, ContextPut(p)
        PROVE  ContextRefCount'
    <2>1. Cardinality(Busy') = Cardinality(Busy) - 1
      BY <1>7, BusyLeave
         DEF ContextPut, Goto
    <2>2. LiveEvents' = LiveEvents
      BY <1>7
         DEF ContextPut, eventVars, LiveEvents
    <2>3. ref' = ref - 1 /\ UNCHANGED <<master, debugref, hpc>>
      BY <1>7
         DEF ContextPut, kgsl_context_put
    <2>4. QED
      BY <2>1, <2>2, <2>3, UsersFinite
         DEF ContextRefCount, One, TypeOK
  <1>8. ASSUME NEW p \in Threads, RetireMarker(p)
        PROVE  ContextRefCount'
    <2>1. Cardinality(Busy') = Cardinality(Busy) + 1
      BY <1>8, BusyEnter
         DEF RetireMarker, Goto
    <2>2. LiveEvents' = LiveEvents
      BY <1>8
         DEF RetireMarker, eventVars, LiveEvents
    <2>3. ref' = ref + 1 /\ UNCHANGED <<master, debugref, hpc>>
      BY <1>8
         DEF RetireMarker
    <2>4. QED
      BY <2>1, <2>2, <2>3, UsersFinite
         DEF ContextRefCount, One, TypeOK
  <1>9. ASSUME NEW p \in Threads, MarkerProcess(p)
        PROVE  ContextRefCount'
    <2>1. Busy' = Busy
      BY <1>9, BusySame
         DEF MarkerProcess, Goto
    <2>2. LiveEvents' = LiveEvents
      BY <1>9, SignalKeepsEvents
         DEF MarkerProcess, _process_event_group, signal_event, LiveEvents,
         Listed
    <2>3. UNCHANGED <<ref, master, debugref, hpc>>
      BY <1>9
         DEF MarkerProcess, ctxVars
    <2>4. QED
      BY <2>1, <2>2, <2>3, UsersFinite
         DEF ContextRefCount, One, TypeOK
  <1>10. ASSUME NEW p \in Threads, WaitCheck(p)
        PROVE  ContextRefCount'
    <2>1. Busy' = Busy
      BY <1>10, BusySame
         DEF WaitCheck, Goto
    <2>2. LiveEvents' = LiveEvents
      BY <1>10
         DEF WaitCheck, eventVars, LiveEvents
    <2>3. UNCHANGED <<ref, master, debugref, hpc>>
      BY <1>10
         DEF WaitCheck, ctxVars
    <2>4. QED
      BY <2>1, <2>2, <2>3, UsersFinite
         DEF ContextRefCount, One, TypeOK
  <1>11. ASSUME NEW p \in Threads, kgsl_add_event(p)
        PROVE  ContextRefCount'
    <2>1. Busy' = Busy
      BY <1>11, BusySame
         DEF kgsl_add_event, Goto
    <2>2. Cardinality(LiveEvents') = Cardinality(LiveEvents) + 1
      BY <1>11, EventNew
         DEF kgsl_add_event
    <2>3. ref' = ref + 1 /\ UNCHANGED <<master, debugref, hpc>>
      BY <1>11
         DEF kgsl_add_event
    <2>4. QED
      BY <2>1, <2>2, <2>3, UsersFinite
         DEF ContextRefCount, One, TypeOK
  <1>12. ASSUME NEW p \in Threads, AddEventFails(p)
        PROVE  ContextRefCount'
    <2>1. Busy' = Busy
      BY <1>12, BusySame
         DEF AddEventFails, Goto
    <2>2. LiveEvents' = LiveEvents
      BY <1>12
         DEF AddEventFails, eventVars, LiveEvents
    <2>3. UNCHANGED <<ref, master, debugref, hpc>>
      BY <1>12
         DEF AddEventFails, ctxVars
    <2>4. QED
      BY <2>1, <2>2, <2>3, UsersFinite
         DEF ContextRefCount, One, TypeOK
  <1>13. ASSUME NEW p \in Threads, AddEventLocked(p)
        PROVE  ContextRefCount'
    <2>1. Busy' = Busy
      BY <1>13, BusySame
         DEF AddEventLocked, Goto
    <2>2. LiveEvents' = LiveEvents
      BY <1>13
         DEF AddEventLocked, LiveEvents, EventsOwned, TypeOK
    <2>3. UNCHANGED <<ref, master, debugref, hpc>>
      BY <1>13
         DEF AddEventLocked, ctxVars
    <2>4. QED
      BY <2>1, <2>2, <2>3, UsersFinite
         DEF ContextRefCount, One, TypeOK
  <1>14. ASSUME NEW p \in Threads, WaitWake(p)
        PROVE  ContextRefCount'
    <2>1. Busy' = Busy
      BY <1>14, BusySame
         DEF WaitWake, Goto
    <2>2. LiveEvents' = LiveEvents
      BY <1>14
         DEF WaitWake, eventVars, LiveEvents
    <2>3. UNCHANGED <<ref, master, debugref, hpc>>
      BY <1>14
         DEF WaitWake, ctxVars
    <2>4. QED
      BY <2>1, <2>2, <2>3, UsersFinite
         DEF ContextRefCount, One, TypeOK
  <1>15. ASSUME NEW p \in Threads, kgsl_cancel_event(p)
        PROVE  ContextRefCount'
    <2>1. Busy' = Busy
      BY <1>15, BusySame
         DEF kgsl_cancel_event, Goto
    <2>2. LiveEvents' = LiveEvents
      BY <1>15, SignalKeepsEvents
         DEF kgsl_cancel_event, CancelEvents, signal_event, LiveEvents,
         Listed
    <2>3. UNCHANGED <<ref, master, debugref, hpc>>
      BY <1>15
         DEF kgsl_cancel_event, ctxVars
    <2>4. QED
      BY <2>1, <2>2, <2>3, UsersFinite
         DEF ContextRefCount, One, TypeOK
  <1>16. ASSUME NEW p \in Threads, DetachInvalidate(p)
        PROVE  ContextRefCount'
    <2>1. Busy' = Busy
      BY <1>16, BusySame
         DEF DetachInvalidate, Goto
    <2>2. LiveEvents' = LiveEvents
      BY <1>16
         DEF DetachInvalidate, eventVars, LiveEvents
    <2>3. UNCHANGED <<ref, master, debugref, hpc>>
      BY <1>16
         DEF DetachInvalidate
    <2>4. QED
      BY <2>1, <2>2, <2>3, UsersFinite
         DEF ContextRefCount, One, TypeOK
  <1>17. ASSUME NEW p \in Threads, CancelQueued(p)
        PROVE  ContextRefCount'
    <2>1. Busy' = Busy
      BY <1>17, BusySame
         DEF CancelQueued, Goto
    <2>2. LiveEvents' = LiveEvents
      BY <1>17, SignalKeepsEvents
         DEF CancelQueued, CancelEvents, signal_event, Listed
    <2>3. UNCHANGED <<ref, master, debugref, hpc>>
      BY <1>17
         DEF CancelQueued, ctxVars
    <2>4. QED
      BY <2>1, <2>2, <2>3, UsersFinite
         DEF ContextRefCount, One, TypeOK
  <1>18. ASSUME NEW p \in Threads, FlushEvents(p)
        PROVE  ContextRefCount'
    <2>1. Busy' = Busy
      BY <1>18, BusySame
         DEF FlushEvents, Goto
    <2>2. LiveEvents' = LiveEvents
      BY <1>18, SignalKeepsEvents
         DEF FlushEvents, _process_event_group, signal_event, LiveEvents,
         Listed
    <2>3. UNCHANGED <<ref, master, debugref, hpc>>
      BY <1>18
         DEF FlushEvents, ctxVars
    <2>4. QED
      BY <2>1, <2>2, <2>3, UsersFinite
         DEF ContextRefCount, One, TypeOK
  <1>19. ASSUME NEW p \in Threads, InvalidateWake(p)
        PROVE  ContextRefCount'
    <2>1. Busy' = Busy
      BY <1>19, BusySame
         DEF InvalidateWake, Goto
    <2>2. LiveEvents' = LiveEvents
      BY <1>19
         DEF InvalidateWake, eventVars, LiveEvents
    <2>3. UNCHANGED <<ref, master, debugref, hpc>>
      BY <1>19
         DEF InvalidateWake, ctxVars
    <2>4. QED
      BY <2>1, <2>2, <2>3, UsersFinite
         DEF ContextRefCount, One, TypeOK
  <1>20. ASSUME NEW p \in Threads, DetachSet(p)
        PROVE  ContextRefCount'
    <2>1. Busy' = Busy
      BY <1>20, BusySame
         DEF DetachSet, Goto
    <2>2. LiveEvents' = LiveEvents
      BY <1>20
         DEF DetachSet, eventVars, LiveEvents
    <2>3. UNCHANGED <<ref, master, debugref, hpc>>
      BY <1>20
         DEF DetachSet
    <2>4. QED
      BY <2>1, <2>2, <2>3, UsersFinite
         DEF ContextRefCount, One, TypeOK
  <1>21. ASSUME NEW p \in Threads, DetachDebugfs(p)
        PROVE  ContextRefCount'
    <2>1. Busy' = Busy
      BY <1>21, BusySame
         DEF DetachDebugfs, Goto
    <2>2. LiveEvents' = LiveEvents
      BY <1>21
         DEF DetachDebugfs, eventVars, LiveEvents
    <2>3. /\ UNCHANGED <<master, hpc>> /\ debugref' = FALSE
          /\ ref' = IF debugref THEN ref - 1 ELSE ref
      BY <1>21
         DEF DetachDebugfs, kgsl_context_put
    <2>4. QED
      BY <2>1, <2>2, <2>3, UsersFinite
         DEF ContextRefCount, One, TypeOK
  <1>22. ASSUME NEW p \in Threads, gen7_hwsched_context_detach(p)
        PROVE  ContextRefCount'
    <2>1. Busy' = Busy
      BY <1>22, BusySame
         DEF gen7_hwsched_context_detach, Goto
    <2>2. LiveEvents' = LiveEvents
      BY <1>22
         DEF gen7_hwsched_context_detach, eventVars, LiveEvents
    <2>3. UNCHANGED <<ref, master, debugref, hpc>>
      BY <1>22
         DEF gen7_hwsched_context_detach, ctxVars
    <2>4. QED
      BY <2>1, <2>2, <2>3, UsersFinite
         DEF ContextRefCount, One, TypeOK
  <1>23. ASSUME NEW p \in Threads, DetachWake(p)
        PROVE  ContextRefCount'
    <2>1. Busy' = Busy
      BY <1>23, BusySame
         DEF DetachWake, Goto
    <2>2. LiveEvents' = LiveEvents
      BY <1>23
         DEF DetachWake, eventVars, LiveEvents
    <2>3. UNCHANGED <<ref, master, debugref, hpc>>
      BY <1>23
         DEF DetachWake, ctxVars
    <2>4. QED
      BY <2>1, <2>2, <2>3, UsersFinite
         DEF ContextRefCount, One, TypeOK
  <1>24. ASSUME NEW p \in Threads, kgsl_cancel_events(p)
        PROVE  ContextRefCount'
    <2>1. Busy' = Busy
      BY <1>24, BusySame
         DEF kgsl_cancel_events, Goto
    <2>2. LiveEvents' = LiveEvents
      BY <1>24, SignalKeepsEvents
         DEF kgsl_cancel_events, CancelEvents, signal_event, Listed
    <2>3. UNCHANGED <<ref, master, debugref, hpc>>
      BY <1>24
         DEF kgsl_cancel_events, ctxVars
    <2>4. QED
      BY <2>1, <2>2, <2>3, UsersFinite
         DEF ContextRefCount, One, TypeOK
  <1>25. ASSUME NEW p \in Threads, kgsl_del_event_group(p)
        PROVE  ContextRefCount'
    <2>1. Busy' = Busy
      BY <1>25, BusySame
         DEF kgsl_del_event_group, Goto
    <2>2. LiveEvents' = LiveEvents
      BY <1>25
         DEF kgsl_del_event_group, eventVars, LiveEvents
    <2>3. UNCHANGED <<ref, master, debugref, hpc>>
      BY <1>25
         DEF kgsl_del_event_group, ctxVars
    <2>4. QED
      BY <2>1, <2>2, <2>3, UsersFinite
         DEF ContextRefCount, One, TypeOK
  <1>26. ASSUME NEW p \in Threads, DetachPut(p)
        PROVE  ContextRefCount'
    <2>1. Busy' = Busy
      BY <1>26, BusySame
         DEF DetachPut, Goto
    <2>2. LiveEvents' = LiveEvents
      BY <1>26
         DEF DetachPut, eventVars, LiveEvents
    <2>3. /\ UNCHANGED <<debugref, hpc>> /\ master /\ master' = FALSE
          /\ ref' = ref - 1
      BY <1>26
         DEF DetachPut, kgsl_context_put, DetachedOnce, DetachPCs
    <2>4. QED
      BY <2>1, <2>2, <2>3, UsersFinite
         DEF ContextRefCount, One, TypeOK
  <1>27. ASSUME NEW p \in Threads, kgsl_context_get(p)
        PROVE  ContextRefCount'
    <2>1. Cardinality(Busy') = Cardinality(Busy) + 1
      BY <1>27, BusyEnter
         DEF kgsl_context_get, Goto
    <2>2. LiveEvents' = LiveEvents
      BY <1>27
         DEF kgsl_context_get, eventVars, LiveEvents
    <2>3. ref' = ref + 1 /\ UNCHANGED <<master, debugref, hpc>>
      BY <1>27
         DEF kgsl_context_get
    <2>4. QED
      BY <2>1, <2>2, <2>3, UsersFinite
         DEF ContextRefCount, One, TypeOK
  <1>28. ASSUME NEW p \in Threads, WaitTimeout(p)
        PROVE  ContextRefCount'
    <2>1. Busy' = Busy
      BY <1>28, BusySame
         DEF WaitTimeout, Goto
    <2>2. LiveEvents' = LiveEvents
      BY <1>28
         DEF WaitTimeout, eventVars, LiveEvents
    <2>3. UNCHANGED <<ref, master, debugref, hpc>>
      BY <1>28
         DEF WaitTimeout, ctxVars
    <2>4. QED
      BY <2>1, <2>2, <2>3, UsersFinite
         DEF ContextRefCount, One, TypeOK
  <1>29. ASSUME NEW p \in Threads, FaultInvalidate(p)
        PROVE  ContextRefCount'
    <2>1. Cardinality(Busy') = Cardinality(Busy) + 1
      BY <1>29, BusyEnter
         DEF FaultInvalidate, Goto
    <2>2. LiveEvents' = LiveEvents
      BY <1>29
         DEF FaultInvalidate, eventVars, LiveEvents
    <2>3. ref' = ref + 1 /\ UNCHANGED <<master, debugref, hpc>>
      BY <1>29
         DEF FaultInvalidate
    <2>4. QED
      BY <2>1, <2>2, <2>3, UsersFinite
         DEF ContextRefCount, One, TypeOK
  <1>30. CASE UNCHANGED vars
    BY <1>30
       DEF vars, gpuVars, ctxVars, groupVars, eventVars, threadVars,
       ContextRefCount, Busy, LiveEvents
  <1>31. QED
    BY <1>1, <1>2, <1>3, <1>4, <1>5, <1>6, <1>7, <1>8, <1>9, <1>10, <1>11,
    <1>12, <1>13, <1>14, <1>15, <1>16, <1>17, <1>18, <1>19, <1>20, <1>21,
    <1>22, <1>23, <1>24, <1>25, <1>26, <1>27, <1>28, <1>29, <1>30
       DEF Next, Hwsched, Step

\* Every step keeps new events with the thread that allocated them.
LEMMA OwnedStep ==
    ASSUME TypeOK, EventsOwned, [Next]_vars
    PROVE  EventsOwned'
  <1>1. CASE Submit
    BY <1>1
       DEF Submit, kgsl_context_is_bad, gpuVars, ctxVars, groupVars,
       eventVars, threadVars, EventsOwned, TypeOK
  <1>2. CASE GpuRetire
    BY <1>2
       DEF GpuRetire, After, gpuVars, ctxVars, groupVars, eventVars,
       threadVars, EventsOwned, TypeOK
  <1>3. CASE HwschedWork
    BY <1>3
       DEF HwschedWork, gpuVars, ctxVars, groupVars, eventVars, threadVars,
       EventsOwned, TypeOK
  <1>4. CASE HwschedProcess
    BY <1>4
       DEF HwschedProcess, _process_event_group, signal_event, gpuVars,
       ctxVars, groupVars, eventVars, threadVars, EventsOwned, TypeOK, Listed
  <1>5. CASE HwschedPut
    BY <1>5
       DEF HwschedPut, kgsl_context_put, gpuVars, ctxVars, groupVars,
       eventVars, threadVars, EventsOwned, TypeOK
  <1>6. ASSUME NEW e \in Events, _kgsl_event_worker(e)
        PROVE  EventsOwned'
    BY <1>6
       DEF _kgsl_event_worker, kgsl_context_put, WakeAll, gpuVars, ctxVars,
       groupVars, eventVars, threadVars, EventsOwned, TypeOK
  <1>7. ASSUME NEW p \in Threads, ContextPut(p)
        PROVE  EventsOwned'
    BY <1>7
       DEF ContextPut, kgsl_context_put, Goto, gpuVars, ctxVars, groupVars,
       eventVars, threadVars, EventsOwned, TypeOK
  <1>8. ASSUME NEW p \in Threads, RetireMarker(p)
        PROVE  EventsOwned'
    BY <1>8
       DEF RetireMarker, After, Goto, gpuVars, ctxVars, groupVars, eventVars,
       threadVars, EventsOwned, TypeOK
  <1>9. ASSUME NEW p \in Threads, MarkerProcess(p)
        PROVE  EventsOwned'
    BY <1>9
       DEF MarkerProcess, Goto, _process_event_group, signal_event, gpuVars,
       ctxVars, groupVars, eventVars, threadVars, EventsOwned, TypeOK, Listed
  <1>10. ASSUME NEW p \in Threads, WaitCheck(p)
        PROVE  EventsOwned'
    BY <1>10
       DEF WaitCheck, Goto, gpuVars, ctxVars, groupVars, eventVars,
       threadVars, EventsOwned, TypeOK
  <1>11. ASSUME NEW p \in Threads, kgsl_add_event(p)
        PROVE  EventsOwned'
    BY <1>11
       DEF kgsl_add_event, Goto, gpuVars, ctxVars, groupVars, eventVars,
       threadVars, EventsOwned, TypeOK
  <1>12. ASSUME NEW p \in Threads, AddEventFails(p)
        PROVE  EventsOwned'
    BY <1>12
       DEF AddEventFails, Goto, gpuVars, ctxVars, groupVars, eventVars,
       threadVars, EventsOwned, TypeOK
  <1>13. ASSUME NEW p \in Threads, AddEventLocked(p)
        PROVE  EventsOwned'
    BY <1>13
       DEF AddEventLocked, Goto, gpuVars, ctxVars, groupVars, eventVars,
       threadVars, EventsOwned, TypeOK
  <1>14. ASSUME NEW p \in Threads, WaitWake(p)
        PROVE  EventsOwned'
    BY <1>14
       DEF WaitWake, Goto, gpuVars, ctxVars, groupVars, eventVars,
       threadVars, EventsOwned, TypeOK
  <1>15. ASSUME NEW p \in Threads, kgsl_cancel_event(p)
        PROVE  EventsOwned'
    BY <1>15
       DEF kgsl_cancel_event, Goto, CancelEvents, signal_event, gpuVars,
       ctxVars, groupVars, eventVars, threadVars, EventsOwned, TypeOK, Listed
  <1>16. ASSUME NEW p \in Threads, DetachInvalidate(p)
        PROVE  EventsOwned'
    BY <1>16
       DEF DetachInvalidate, Goto, Invalidate, After, gpuVars, ctxVars,
       groupVars, eventVars, threadVars, EventsOwned, TypeOK
  <1>17. ASSUME NEW p \in Threads, CancelQueued(p)
        PROVE  EventsOwned'
    BY <1>17
       DEF CancelQueued, Goto, CancelEvents, signal_event, gpuVars, ctxVars,
       groupVars, eventVars, threadVars, EventsOwned, TypeOK, Listed
  <1>18. ASSUME NEW p \in Threads, FlushEvents(p)
        PROVE  EventsOwned'
    BY <1>18
       DEF FlushEvents, Goto, _process_event_group, signal_event, gpuVars,
       ctxVars, groupVars, eventVars, threadVars, EventsOwned, TypeOK, Listed
  <1>19. ASSUME NEW p \in Threads, InvalidateWake(p)
        PROVE  EventsOwned'
    BY <1>19
       DEF InvalidateWake, Goto, WakeAll, gpuVars, ctxVars, groupVars,
       eventVars, threadVars, EventsOwned, TypeOK
  <1>20. ASSUME NEW p \in Threads, DetachSet(p)
        PROVE  EventsOwned'
    BY <1>20
       DEF DetachSet, Goto, gpuVars, ctxVars, groupVars, eventVars,
       threadVars, EventsOwned, TypeOK
  <1>21. ASSUME NEW p \in Threads, DetachDebugfs(p)
        PROVE  EventsOwned'
    BY <1>21
       DEF DetachDebugfs, Goto, kgsl_context_put, gpuVars, ctxVars,
       groupVars, eventVars, threadVars, EventsOwned, TypeOK
  <1>22. ASSUME NEW p \in Threads, gen7_hwsched_context_detach(p)
        PROVE  EventsOwned'
    BY <1>22
       DEF gen7_hwsched_context_detach, Goto, gpuVars, ctxVars, groupVars,
       eventVars, threadVars, EventsOwned, TypeOK
  <1>23. ASSUME NEW p \in Threads, DetachWake(p)
        PROVE  EventsOwned'
    BY <1>23
       DEF DetachWake, Goto, WakeAll, gpuVars, ctxVars, groupVars, eventVars,
       threadVars, EventsOwned, TypeOK
  <1>24. ASSUME NEW p \in Threads, kgsl_cancel_events(p)
        PROVE  EventsOwned'
    BY <1>24
       DEF kgsl_cancel_events, Goto, CancelEvents, signal_event, gpuVars,
       ctxVars, groupVars, eventVars, threadVars, EventsOwned, TypeOK, Listed
  <1>25. ASSUME NEW p \in Threads, kgsl_del_event_group(p)
        PROVE  EventsOwned'
    BY <1>25
       DEF kgsl_del_event_group, Goto, gpuVars, ctxVars, groupVars,
       eventVars, threadVars, EventsOwned, TypeOK
  <1>26. ASSUME NEW p \in Threads, DetachPut(p)
        PROVE  EventsOwned'
    BY <1>26
       DEF DetachPut, Goto, kgsl_context_put, gpuVars, ctxVars, groupVars,
       eventVars, threadVars, EventsOwned, TypeOK
  <1>27. ASSUME NEW p \in Threads, kgsl_context_get(p)
        PROVE  EventsOwned'
    BY <1>27
       DEF kgsl_context_get, Goto, gpuVars, ctxVars, groupVars, eventVars,
       threadVars, EventsOwned, TypeOK
  <1>28. ASSUME NEW p \in Threads, WaitTimeout(p)
        PROVE  EventsOwned'
    BY <1>28
       DEF WaitTimeout, Goto, gpuVars, ctxVars, groupVars, eventVars,
       threadVars, EventsOwned, TypeOK
  <1>29. ASSUME NEW p \in Threads, FaultInvalidate(p)
        PROVE  EventsOwned'
    BY <1>29
       DEF FaultInvalidate, Goto, Invalidate, After, gpuVars, ctxVars,
       groupVars, eventVars, threadVars, EventsOwned, TypeOK
  <1>30. CASE UNCHANGED vars
    BY <1>30
       DEF vars, gpuVars, ctxVars, groupVars, eventVars, threadVars,
       EventsOwned, TypeOK
  <1>31. QED
    BY <1>1, <1>2, <1>3, <1>4, <1>5, <1>6, <1>7, <1>8, <1>9, <1>10, <1>11,
    <1>12, <1>13, <1>14, <1>15, <1>16, <1>17, <1>18, <1>19, <1>20, <1>21,
    <1>22, <1>23, <1>24, <1>25, <1>26, <1>27, <1>28, <1>29, <1>30
       DEF Next, Hwsched, Step

\* Every step keeps the detach of the context with one thread.
LEMMA DetachStep ==
    ASSUME TypeOK, DetachedOnce, [Next]_vars
    PROVE  DetachedOnce'
  <1>1. CASE Submit
    BY <1>1
       DEF Submit, kgsl_context_is_bad, gpuVars, ctxVars, groupVars,
       eventVars, threadVars, DetachedOnce, DetachPCs, TypeOK
  <1>2. CASE GpuRetire
    BY <1>2
       DEF GpuRetire, After, gpuVars, ctxVars, groupVars, eventVars,
       threadVars, DetachedOnce, DetachPCs, TypeOK
  <1>3. CASE HwschedWork
    BY <1>3
       DEF HwschedWork, gpuVars, ctxVars, groupVars, eventVars, threadVars,
       DetachedOnce, DetachPCs, TypeOK
  <1>4. CASE HwschedProcess
    BY <1>4
       DEF HwschedProcess, _process_event_group, signal_event, gpuVars,
       ctxVars, groupVars, eventVars, threadVars, DetachedOnce, DetachPCs,
       TypeOK
  <1>5. CASE HwschedPut
    BY <1>5
       DEF HwschedPut, kgsl_context_put, gpuVars, ctxVars, groupVars,
       eventVars, threadVars, DetachedOnce, DetachPCs, TypeOK
  <1>6. ASSUME NEW e \in Events, _kgsl_event_worker(e)
        PROVE  DetachedOnce'
    BY <1>6
       DEF _kgsl_event_worker, kgsl_context_put, WakeAll, gpuVars, ctxVars,
       groupVars, eventVars, threadVars, DetachedOnce, DetachPCs, TypeOK
  <1>7. ASSUME NEW p \in Threads, ContextPut(p)
        PROVE  DetachedOnce'
    BY <1>7
       DEF ContextPut, kgsl_context_put, Goto, gpuVars, ctxVars, groupVars,
       eventVars, threadVars, DetachedOnce, DetachPCs, TypeOK
  <1>8. ASSUME NEW p \in Threads, RetireMarker(p)
        PROVE  DetachedOnce'
    BY <1>8
       DEF RetireMarker, After, Goto, gpuVars, ctxVars, groupVars, eventVars,
       threadVars, DetachedOnce, DetachPCs, TypeOK
  <1>9. ASSUME NEW p \in Threads, MarkerProcess(p)
        PROVE  DetachedOnce'
    BY <1>9
       DEF MarkerProcess, Goto, _process_event_group, signal_event, gpuVars,
       ctxVars, groupVars, eventVars, threadVars, DetachedOnce, DetachPCs,
       TypeOK
  <1>10. ASSUME NEW p \in Threads, WaitCheck(p)
        PROVE  DetachedOnce'
    BY <1>10
       DEF WaitCheck, Goto, gpuVars, ctxVars, groupVars, eventVars,
       threadVars, DetachedOnce, DetachPCs, TypeOK
  <1>11. ASSUME NEW p \in Threads, kgsl_add_event(p)
        PROVE  DetachedOnce'
    BY <1>11
       DEF kgsl_add_event, Goto, gpuVars, ctxVars, groupVars, eventVars,
       threadVars, DetachedOnce, DetachPCs, TypeOK
  <1>12. ASSUME NEW p \in Threads, AddEventFails(p)
        PROVE  DetachedOnce'
    BY <1>12
       DEF AddEventFails, Goto, gpuVars, ctxVars, groupVars, eventVars,
       threadVars, DetachedOnce, DetachPCs, TypeOK
  <1>13. ASSUME NEW p \in Threads, AddEventLocked(p)
        PROVE  DetachedOnce'
    BY <1>13
       DEF AddEventLocked, Goto, gpuVars, ctxVars, groupVars, eventVars,
       threadVars, DetachedOnce, DetachPCs, TypeOK
  <1>14. ASSUME NEW p \in Threads, WaitWake(p)
        PROVE  DetachedOnce'
    BY <1>14
       DEF WaitWake, Goto, gpuVars, ctxVars, groupVars, eventVars,
       threadVars, DetachedOnce, DetachPCs, TypeOK
  <1>15. ASSUME NEW p \in Threads, kgsl_cancel_event(p)
        PROVE  DetachedOnce'
    BY <1>15
       DEF kgsl_cancel_event, Goto, CancelEvents, signal_event, gpuVars,
       ctxVars, groupVars, eventVars, threadVars, DetachedOnce, DetachPCs,
       TypeOK
  <1>16. ASSUME NEW p \in Threads, DetachInvalidate(p)
        PROVE  DetachedOnce'
    BY <1>16
       DEF DetachInvalidate, Goto, Invalidate, After, gpuVars, ctxVars,
       groupVars, eventVars, threadVars, DetachedOnce, DetachPCs, TypeOK
  <1>17. ASSUME NEW p \in Threads, CancelQueued(p)
        PROVE  DetachedOnce'
    BY <1>17
       DEF CancelQueued, Goto, CancelEvents, signal_event, gpuVars, ctxVars,
       groupVars, eventVars, threadVars, DetachedOnce, DetachPCs, TypeOK
  <1>18. ASSUME NEW p \in Threads, FlushEvents(p)
        PROVE  DetachedOnce'
    BY <1>18
       DEF FlushEvents, Goto, _process_event_group, signal_event, gpuVars,
       ctxVars, groupVars, eventVars, threadVars, DetachedOnce, DetachPCs,
       TypeOK
  <1>19. ASSUME NEW p \in Threads, InvalidateWake(p)
        PROVE  DetachedOnce'
    BY <1>19
       DEF InvalidateWake, Goto, WakeAll, gpuVars, ctxVars, groupVars,
       eventVars, threadVars, DetachedOnce, DetachPCs, TypeOK
  <1>20. ASSUME NEW p \in Threads, DetachSet(p)
        PROVE  DetachedOnce'
    BY <1>20
       DEF DetachSet, Goto, gpuVars, ctxVars, groupVars, eventVars,
       threadVars, DetachedOnce, DetachPCs, TypeOK
  <1>21. ASSUME NEW p \in Threads, DetachDebugfs(p)
        PROVE  DetachedOnce'
    BY <1>21
       DEF DetachDebugfs, Goto, kgsl_context_put, gpuVars, ctxVars,
       groupVars, eventVars, threadVars, DetachedOnce, DetachPCs, TypeOK
  <1>22. ASSUME NEW p \in Threads, gen7_hwsched_context_detach(p)
        PROVE  DetachedOnce'
    BY <1>22
       DEF gen7_hwsched_context_detach, Goto, gpuVars, ctxVars, groupVars,
       eventVars, threadVars, DetachedOnce, DetachPCs, TypeOK
  <1>23. ASSUME NEW p \in Threads, DetachWake(p)
        PROVE  DetachedOnce'
    BY <1>23
       DEF DetachWake, Goto, WakeAll, gpuVars, ctxVars, groupVars, eventVars,
       threadVars, DetachedOnce, DetachPCs, TypeOK
  <1>24. ASSUME NEW p \in Threads, kgsl_cancel_events(p)
        PROVE  DetachedOnce'
    BY <1>24
       DEF kgsl_cancel_events, Goto, CancelEvents, signal_event, gpuVars,
       ctxVars, groupVars, eventVars, threadVars, DetachedOnce, DetachPCs,
       TypeOK
  <1>25. ASSUME NEW p \in Threads, kgsl_del_event_group(p)
        PROVE  DetachedOnce'
    BY <1>25
       DEF kgsl_del_event_group, Goto, gpuVars, ctxVars, groupVars,
       eventVars, threadVars, DetachedOnce, DetachPCs, TypeOK
  <1>26. ASSUME NEW p \in Threads, DetachPut(p)
        PROVE  DetachedOnce'
    BY <1>26
       DEF DetachPut, Goto, kgsl_context_put, gpuVars, ctxVars, groupVars,
       eventVars, threadVars, DetachedOnce, DetachPCs, TypeOK
  <1>27. ASSUME NEW p \in Threads, kgsl_context_get(p)
        PROVE  DetachedOnce'
    BY <1>27
       DEF kgsl_context_get, Goto, gpuVars, ctxVars, groupVars, eventVars,
       threadVars, DetachedOnce, DetachPCs, TypeOK
  <1>28. ASSUME NEW p \in Threads, WaitTimeout(p)
        PROVE  DetachedOnce'
    BY <1>28
       DEF WaitTimeout, Goto, gpuVars, ctxVars, groupVars, eventVars,
       threadVars, DetachedOnce, DetachPCs, TypeOK
  <1>29. ASSUME NEW p \in Threads, FaultInvalidate(p)
        PROVE  DetachedOnce'
    BY <1>29
       DEF FaultInvalidate, Goto, Invalidate, After, gpuVars, ctxVars,
       groupVars, eventVars, threadVars, DetachedOnce, DetachPCs, TypeOK
  <1>30. CASE UNCHANGED vars
    BY <1>30
       DEF vars, gpuVars, ctxVars, groupVars, eventVars, threadVars,
       DetachedOnce, DetachPCs, TypeOK
  <1>31. QED
    BY <1>1, <1>2, <1>3, <1>4, <1>5, <1>6, <1>7, <1>8, <1>9, <1>10, <1>11,
    <1>12, <1>13, <1>14, <1>15, <1>16, <1>17, <1>18, <1>19, <1>20, <1>21,
    <1>22, <1>23, <1>24, <1>25, <1>26, <1>27, <1>28, <1>29, <1>30
       DEF Next, Hwsched, Step

\* A destroyed context stays out of the idr.
LEMMA LookupStep ==
    ASSUME TypeOK, ContextRefCount, DestroyedIsGone, [Next]_vars
    PROVE  DestroyedIsGone'
  <1>1. CASE Submit
    BY <1>1
       DEF Submit, kgsl_context_is_bad, gpuVars, ctxVars, groupVars,
       eventVars, threadVars, DestroyedIsGone, TypeOK
  <1>2. CASE GpuRetire
    BY <1>2
       DEF GpuRetire, After, gpuVars, ctxVars, groupVars, eventVars,
       threadVars, DestroyedIsGone, TypeOK
  <1>3. CASE HwschedWork
    BY <1>3
       DEF HwschedWork, gpuVars, ctxVars, groupVars, eventVars, threadVars,
       DestroyedIsGone, TypeOK
  <1>4. CASE HwschedProcess
    BY <1>4
       DEF HwschedProcess, _process_event_group, signal_event, gpuVars,
       ctxVars, groupVars, eventVars, threadVars, DestroyedIsGone, TypeOK
  <1>5. CASE HwschedPut
    <2>1. ref > 0
      BY <1>5, UsersHoldContext DEF HwschedPut
    <2>2. ref' = ref - 1 /\ inidr' = (inidr /\ ref # 1)
      BY <1>5 DEF HwschedPut, kgsl_context_put
    <2>3. ref' = 0 => ref = 1
      BY <2>1, <2>2 DEF TypeOK
    <2>4. ref = 1 => ~inidr'
      BY <2>2, Zenon
    <2>5. QED
      BY <2>3, <2>4, Zenon DEF DestroyedIsGone
  <1>6. ASSUME NEW e \in Events, _kgsl_event_worker(e)
        PROVE  DestroyedIsGone'
    <2>1. ref > 0
      BY <1>6, UsersHoldContext DEF _kgsl_event_worker
    <2>2. ref' = ref - 1 /\ inidr' = (inidr /\ ref # 1)
      BY <1>6 DEF _kgsl_event_worker, kgsl_context_put
    <2>3. ref' = 0 => ref = 1
      BY <2>1, <2>2 DEF TypeOK
    <2>4. ref = 1 => ~inidr'
      BY <2>2, Zenon
    <2>5. QED
      BY <2>3, <2>4, Zenon DEF DestroyedIsGone
  <1>7. ASSUME NEW p \in Threads, ContextPut(p)
        PROVE  DestroyedIsGone'
    <2>1. ref > 0
      BY <1>7, UsersHoldContext DEF ContextPut
    <2>2. ref' = ref - 1 /\ inidr' = (inidr /\ ref # 1)
      BY <1>7 DEF ContextPut, kgsl_context_put
    <2>3. ref' = 0 => ref = 1
      BY <2>1, <2>2 DEF TypeOK
    <2>4. ref = 1 => ~inidr'
      BY <2>2, Zenon
    <2>5. QED
      BY <2>3, <2>4, Zenon DEF DestroyedIsGone
  <1>8. ASSUME NEW p \in Threads, RetireMarker(p)
        PROVE  DestroyedIsGone'
    BY <1>8
       DEF RetireMarker, After, Goto, gpuVars, ctxVars, groupVars, eventVars,
       threadVars, DestroyedIsGone, TypeOK
  <1>9. ASSUME NEW p \in Threads, MarkerProcess(p)
        PROVE  DestroyedIsGone'
    BY <1>9
       DEF MarkerProcess, Goto, _process_event_group, signal_event, gpuVars,
       ctxVars, groupVars, eventVars, threadVars, DestroyedIsGone, TypeOK
  <1>10. ASSUME NEW p \in Threads, WaitCheck(p)
        PROVE  DestroyedIsGone'
    BY <1>10
       DEF WaitCheck, Goto, gpuVars, ctxVars, groupVars, eventVars,
       threadVars, DestroyedIsGone, TypeOK
  <1>11. ASSUME NEW p \in Threads, kgsl_add_event(p)
        PROVE  DestroyedIsGone'
    BY <1>11
       DEF kgsl_add_event, Goto, gpuVars, ctxVars, groupVars, eventVars,
       threadVars, DestroyedIsGone, TypeOK
  <1>12. ASSUME NEW p \in Threads, AddEventFails(p)
        PROVE  DestroyedIsGone'
    BY <1>12
       DEF AddEventFails, Goto, gpuVars, ctxVars, groupVars, eventVars,
       threadVars, DestroyedIsGone, TypeOK
  <1>13. ASSUME NEW p \in Threads, AddEventLocked(p)
        PROVE  DestroyedIsGone'
    BY <1>13
       DEF AddEventLocked, Goto, gpuVars, ctxVars, groupVars, eventVars,
       threadVars, DestroyedIsGone, TypeOK
  <1>14. ASSUME NEW p \in Threads, WaitWake(p)
        PROVE  DestroyedIsGone'
    BY <1>14
       DEF WaitWake, Goto, gpuVars, ctxVars, groupVars, eventVars,
       threadVars, DestroyedIsGone, TypeOK
  <1>15. ASSUME NEW p \in Threads, kgsl_cancel_event(p)
        PROVE  DestroyedIsGone'
    BY <1>15
       DEF kgsl_cancel_event, Goto, CancelEvents, signal_event, gpuVars,
       ctxVars, groupVars, eventVars, threadVars, DestroyedIsGone, TypeOK
  <1>16. ASSUME NEW p \in Threads, DetachInvalidate(p)
        PROVE  DestroyedIsGone'
    BY <1>16
       DEF DetachInvalidate, Goto, Invalidate, After, gpuVars, ctxVars,
       groupVars, eventVars, threadVars, DestroyedIsGone, TypeOK
  <1>17. ASSUME NEW p \in Threads, CancelQueued(p)
        PROVE  DestroyedIsGone'
    BY <1>17
       DEF CancelQueued, Goto, CancelEvents, signal_event, gpuVars, ctxVars,
       groupVars, eventVars, threadVars, DestroyedIsGone, TypeOK
  <1>18. ASSUME NEW p \in Threads, FlushEvents(p)
        PROVE  DestroyedIsGone'
    BY <1>18
       DEF FlushEvents, Goto, _process_event_group, signal_event, gpuVars,
       ctxVars, groupVars, eventVars, threadVars, DestroyedIsGone, TypeOK
  <1>19. ASSUME NEW p \in Threads, InvalidateWake(p)
        PROVE  DestroyedIsGone'
    BY <1>19
       DEF InvalidateWake, Goto, WakeAll, gpuVars, ctxVars, groupVars,
       eventVars, threadVars, DestroyedIsGone, TypeOK
  <1>20. ASSUME NEW p \in Threads, DetachSet(p)
        PROVE  DestroyedIsGone'
    BY <1>20, UsersHoldContext
       DEF DetachSet, Goto, gpuVars, ctxVars, groupVars, eventVars,
       threadVars, DestroyedIsGone, TypeOK
  <1>21. ASSUME NEW p \in Threads, DetachDebugfs(p)
        PROVE  DestroyedIsGone'
    BY <1>21, UsersHoldContext
       DEF DetachDebugfs, Goto, kgsl_context_put, gpuVars, ctxVars,
       groupVars, eventVars, threadVars, DestroyedIsGone, TypeOK
  <1>22. ASSUME NEW p \in Threads, gen7_hwsched_context_detach(p)
        PROVE  DestroyedIsGone'
    BY <1>22
       DEF gen7_hwsched_context_detach, Goto, gpuVars, ctxVars, groupVars,
       eventVars, threadVars, DestroyedIsGone, TypeOK
  <1>23. ASSUME NEW p \in Threads, DetachWake(p)
        PROVE  DestroyedIsGone'
    BY <1>23
       DEF DetachWake, Goto, WakeAll, gpuVars, ctxVars, groupVars, eventVars,
       threadVars, DestroyedIsGone, TypeOK
  <1>24. ASSUME NEW p \in Threads, kgsl_cancel_events(p)
        PROVE  DestroyedIsGone'
    BY <1>24
       DEF kgsl_cancel_events, Goto, CancelEvents, signal_event, gpuVars,
       ctxVars, groupVars, eventVars, threadVars, DestroyedIsGone, TypeOK
  <1>25. ASSUME NEW p \in Threads, kgsl_del_event_group(p)
        PROVE  DestroyedIsGone'
    BY <1>25
       DEF kgsl_del_event_group, Goto, gpuVars, ctxVars, groupVars,
       eventVars, threadVars, DestroyedIsGone, TypeOK
  <1>26. ASSUME NEW p \in Threads, DetachPut(p)
        PROVE  DestroyedIsGone'
    <2>1. ref > 0
      BY <1>26, UsersHoldContext DEF DetachPut
    <2>2. ref' = ref - 1 /\ inidr' = (inidr /\ ref # 1)
      BY <1>26 DEF DetachPut, kgsl_context_put
    <2>3. ref' = 0 => ref = 1
      BY <2>1, <2>2 DEF TypeOK
    <2>4. ref = 1 => ~inidr'
      BY <2>2, Zenon
    <2>5. QED
      BY <2>3, <2>4, Zenon DEF DestroyedIsGone
  <1>27. ASSUME NEW p \in Threads, kgsl_context_get(p)
        PROVE  DestroyedIsGone'
    BY <1>27
       DEF kgsl_context_get, Goto, gpuVars, ctxVars, groupVars, eventVars,
       threadVars, DestroyedIsGone, TypeOK
  <1>28. ASSUME NEW p \in Threads, WaitTimeout(p)
        PROVE  DestroyedIsGone'
    BY <1>28
       DEF WaitTimeout, Goto, gpuVars, ctxVars, groupVars, eventVars,
       threadVars, DestroyedIsGone, TypeOK
  <1>29. ASSUME NEW p \in Threads, FaultInvalidate(p)
        PROVE  DestroyedIsGone'
    BY <1>29
       DEF FaultInvalidate, Goto, Invalidate, After, gpuVars, ctxVars,
       groupVars, eventVars, threadVars, DestroyedIsGone, TypeOK
  <1>30. CASE UNCHANGED vars
    BY <1>30
       DEF vars, gpuVars, ctxVars, groupVars, eventVars, threadVars,
       DestroyedIsGone, TypeOK
  <1>31. QED
    BY <1>1, <1>2, <1>3, <1>4, <1>5, <1>6, <1>7, <1>8, <1>9, <1>10, <1>11,
    <1>12, <1>13, <1>14, <1>15, <1>16, <1>17, <1>18, <1>19, <1>20, <1>21,
    <1>22, <1>23, <1>24, <1>25, <1>26, <1>27, <1>28, <1>29, <1>30
       DEF Next, Hwsched, Step

\* A group leaves the list before the master reference is put.
LEMMA GroupStep ==
    ASSUME TypeOK, DetachedOnce, GroupHasMaster, [Next]_vars
    PROVE  GroupHasMaster'
  <1>1. CASE Submit
    BY <1>1
       DEF Submit, kgsl_context_is_bad, gpuVars, ctxVars, groupVars,
       eventVars, threadVars, GroupHasMaster, TypeOK
  <1>2. CASE GpuRetire
    BY <1>2
       DEF GpuRetire, After, gpuVars, ctxVars, groupVars, eventVars,
       threadVars, GroupHasMaster, TypeOK
  <1>3. CASE HwschedWork
    BY <1>3
       DEF HwschedWork, gpuVars, ctxVars, groupVars, eventVars, threadVars,
       GroupHasMaster, TypeOK
  <1>4. CASE HwschedProcess
    BY <1>4
       DEF HwschedProcess, _process_event_group, signal_event, gpuVars,
       ctxVars, groupVars, eventVars, threadVars, GroupHasMaster, TypeOK
  <1>5. CASE HwschedPut
    BY <1>5
       DEF HwschedPut, kgsl_context_put, gpuVars, ctxVars, groupVars,
       eventVars, threadVars, GroupHasMaster, TypeOK
  <1>6. ASSUME NEW e \in Events, _kgsl_event_worker(e)
        PROVE  GroupHasMaster'
    BY <1>6
       DEF _kgsl_event_worker, kgsl_context_put, WakeAll, gpuVars, ctxVars,
       groupVars, eventVars, threadVars, GroupHasMaster, TypeOK
  <1>7. ASSUME NEW p \in Threads, ContextPut(p)
        PROVE  GroupHasMaster'
    BY <1>7
       DEF ContextPut, kgsl_context_put, Goto, gpuVars, ctxVars, groupVars,
       eventVars, threadVars, GroupHasMaster, TypeOK
  <1>8. ASSUME NEW p \in Threads, RetireMarker(p)
        PROVE  GroupHasMaster'
    BY <1>8
       DEF RetireMarker, After, Goto, gpuVars, ctxVars, groupVars, eventVars,
       threadVars, GroupHasMaster, TypeOK
  <1>9. ASSUME NEW p \in Threads, MarkerProcess(p)
        PROVE  GroupHasMaster'
    BY <1>9
       DEF MarkerProcess, Goto, _process_event_group, signal_event, gpuVars,
       ctxVars, groupVars, eventVars, threadVars, GroupHasMaster, TypeOK
  <1>10. ASSUME NEW p \in Threads, WaitCheck(p)
        PROVE  GroupHasMaster'
    BY <1>10
       DEF WaitCheck, Goto, gpuVars, ctxVars, groupVars, eventVars,
       threadVars, GroupHasMaster, TypeOK
  <1>11. ASSUME NEW p \in Threads, kgsl_add_event(p)
        PROVE  GroupHasMaster'
    BY <1>11
       DEF kgsl_add_event, Goto, gpuVars, ctxVars, groupVars, eventVars,
       threadVars, GroupHasMaster, TypeOK
  <1>12. ASSUME NEW p \in Threads, AddEventFails(p)
        PROVE  GroupHasMaster'
    BY <1>12
       DEF AddEventFails, Goto, gpuVars, ctxVars, groupVars, eventVars,
       threadVars, GroupHasMaster, TypeOK
  <1>13. ASSUME NEW p \in Threads, AddEventLocked(p)
        PROVE  GroupHasMaster'
    BY <1>13
       DEF AddEventLocked, Goto, gpuVars, ctxVars, groupVars, eventVars,
       threadVars, GroupHasMaster, TypeOK
  <1>14. ASSUME NEW p \in Threads, WaitWake(p)
        PROVE  GroupHasMaster'
    BY <1>14
       DEF WaitWake, Goto, gpuVars, ctxVars, groupVars, eventVars,
       threadVars, GroupHasMaster, TypeOK
  <1>15. ASSUME NEW p \in Threads, kgsl_cancel_event(p)
        PROVE  GroupHasMaster'
    BY <1>15
       DEF kgsl_cancel_event, Goto, CancelEvents, signal_event, gpuVars,
       ctxVars, groupVars, eventVars, threadVars, GroupHasMaster, TypeOK
  <1>16. ASSUME NEW p \in Threads, DetachInvalidate(p)
        PROVE  GroupHasMaster'
    BY <1>16
       DEF DetachInvalidate, Goto, Invalidate, After, gpuVars, ctxVars,
       groupVars, eventVars, threadVars, GroupHasMaster, TypeOK
  <1>17. ASSUME NEW p \in Threads, CancelQueued(p)
        PROVE  GroupHasMaster'
    BY <1>17
       DEF CancelQueued, Goto, CancelEvents, signal_event, gpuVars, ctxVars,
       groupVars, eventVars, threadVars, GroupHasMaster, TypeOK
  <1>18. ASSUME NEW p \in Threads, FlushEvents(p)
        PROVE  GroupHasMaster'
    BY <1>18
       DEF FlushEvents, Goto, _process_event_group, signal_event, gpuVars,
       ctxVars, groupVars, eventVars, threadVars, GroupHasMaster, TypeOK
  <1>19. ASSUME NEW p \in Threads, InvalidateWake(p)
        PROVE  GroupHasMaster'
    BY <1>19
       DEF InvalidateWake, Goto, WakeAll, gpuVars, ctxVars, groupVars,
       eventVars, threadVars, GroupHasMaster, TypeOK
  <1>20. ASSUME NEW p \in Threads, DetachSet(p)
        PROVE  GroupHasMaster'
    BY <1>20
       DEF DetachSet, Goto, gpuVars, ctxVars, groupVars, eventVars,
       threadVars, GroupHasMaster, TypeOK
  <1>21. ASSUME NEW p \in Threads, DetachDebugfs(p)
        PROVE  GroupHasMaster'
    BY <1>21
       DEF DetachDebugfs, Goto, kgsl_context_put, gpuVars, ctxVars,
       groupVars, eventVars, threadVars, GroupHasMaster, TypeOK
  <1>22. ASSUME NEW p \in Threads, gen7_hwsched_context_detach(p)
        PROVE  GroupHasMaster'
    BY <1>22
       DEF gen7_hwsched_context_detach, Goto, gpuVars, ctxVars, groupVars,
       eventVars, threadVars, GroupHasMaster, TypeOK
  <1>23. ASSUME NEW p \in Threads, DetachWake(p)
        PROVE  GroupHasMaster'
    BY <1>23
       DEF DetachWake, Goto, WakeAll, gpuVars, ctxVars, groupVars, eventVars,
       threadVars, GroupHasMaster, TypeOK
  <1>24. ASSUME NEW p \in Threads, kgsl_cancel_events(p)
        PROVE  GroupHasMaster'
    BY <1>24
       DEF kgsl_cancel_events, Goto, CancelEvents, signal_event, gpuVars,
       ctxVars, groupVars, eventVars, threadVars, GroupHasMaster, TypeOK
  <1>25. ASSUME NEW p \in Threads, kgsl_del_event_group(p)
        PROVE  GroupHasMaster'
    BY <1>25
       DEF kgsl_del_event_group, Goto, gpuVars, ctxVars, groupVars,
       eventVars, threadVars, GroupHasMaster, TypeOK
  <1>26. ASSUME NEW p \in Threads, DetachPut(p)
        PROVE  GroupHasMaster'
    BY <1>26
       DEF DetachPut, Goto, kgsl_context_put, gpuVars, ctxVars, groupVars,
       eventVars, threadVars, GroupHasMaster, DetachedOnce, TypeOK
  <1>27. ASSUME NEW p \in Threads, kgsl_context_get(p)
        PROVE  GroupHasMaster'
    BY <1>27
       DEF kgsl_context_get, Goto, gpuVars, ctxVars, groupVars, eventVars,
       threadVars, GroupHasMaster, TypeOK
  <1>28. ASSUME NEW p \in Threads, WaitTimeout(p)
        PROVE  GroupHasMaster'
    BY <1>28
       DEF WaitTimeout, Goto, gpuVars, ctxVars, groupVars, eventVars,
       threadVars, GroupHasMaster, TypeOK
  <1>29. ASSUME NEW p \in Threads, FaultInvalidate(p)
        PROVE  GroupHasMaster'
    BY <1>29
       DEF FaultInvalidate, Goto, Invalidate, After, gpuVars, ctxVars,
       groupVars, eventVars, threadVars, GroupHasMaster, TypeOK
  <1>30. CASE UNCHANGED vars
    BY <1>30
       DEF vars, gpuVars, ctxVars, groupVars, eventVars, threadVars,
       GroupHasMaster, TypeOK
  <1>31. QED
    BY <1>1, <1>2, <1>3, <1>4, <1>5, <1>6, <1>7, <1>8, <1>9, <1>10, <1>11,
    <1>12, <1>13, <1>14, <1>15, <1>16, <1>17, <1>18, <1>19, <1>20, <1>21,
    <1>22, <1>23, <1>24, <1>25, <1>26, <1>27, <1>28, <1>29, <1>30
       DEF Next, Hwsched, Step

-----------------------------------------------------------------------------
(***************************************************************************)
(* The inductive invariant and the theorems.                               *)
(***************************************************************************)
IInv ==
    /\ TypeOK /\ ContextRefCount /\ EventsOwned /\ DetachedOnce
    /\ GroupHasMaster /\ DestroyedIsGone

\* The inductive invariant holds in every state of the context's life.
THEOREM EventsInv == Spec => []IInv
  <1>1. Init => IInv
    <2> SUFFICES ASSUME Init PROVE IInv
      OBVIOUS
    <2>1. TypeOK
      <3>1. /\ gpu \in Timestamp /\ retired \in Timestamp /\ queued \in Timestamp
            /\ processed \in Timestamp /\ submitted \in 0 .. MaxSubmit
        BY EventsAssumption DEF Init
      <3>2. /\ est \in [Events -> {"free", "init", "listed", "queued"}]
            /\ ets \in [Events -> Timestamp]
            /\ efunc \in [Events -> {"wait", "other"}]
            /\ eres \in [Events -> {"none", "retired", "cancelled"}]
        BY ZeroTimestamp DEF Init
      <3>3. /\ pc \in [Threads -> PCs]
            /\ ts \in [Threads -> Timestamp]
            /\ ev \in [Threads -> Events \cup {None}]
            /\ cut \in [Threads -> SUBSET Timestamp]
            /\ woken \in [Threads -> BOOLEAN]
        BY ZeroTimestamp DEF Init, PCs
      <3>4. ref \in Nat
        BY DEF Init
      <3>5. /\ halted \in BOOLEAN /\ kick \in BOOLEAN
            /\ master \in BOOLEAN /\ debugref \in BOOLEAN /\ detached \in BOOLEAN
            /\ invalid \in BOOLEAN /\ inidr \in BOOLEAN /\ grouped \in BOOLEAN
            /\ hpc \in {"idle", "g_lock", "g_put"}
        BY DEF Init
      <3>6. QED
        BY <3>1, <3>2, <3>3, <3>4, <3>5 DEF TypeOK
    <2>2. Busy = {} /\ LiveEvents = {}
      BY DEF Init, Busy, LiveEvents
    <2>3. ContextRefCount
      BY <2>2, FS_EmptySet DEF Init, ContextRefCount, One
    <2>4. EventsOwned /\ DetachedOnce /\ GroupHasMaster /\ DestroyedIsGone
      BY DEF Init, EventsOwned, DetachedOnce, DetachPCs, GroupHasMaster, DestroyedIsGone
    <2>5. QED
      BY <2>1, <2>3, <2>4 DEF IInv
  <1>2. IInv /\ [Next]_vars => IInv'
    <2> SUFFICES ASSUME IInv, [Next]_vars PROVE IInv'
      OBVIOUS
    <2> USE DEF IInv
    <2>1. TypeOK'
      BY TypeStep
    <2>2. ContextRefCount'
      BY CountStep
    <2>3. EventsOwned'
      BY OwnedStep
    <2>4. DetachedOnce'
      BY DetachStep
    <2>5. GroupHasMaster'
      BY GroupStep
    <2>6. DestroyedIsGone'
      BY LookupStep
    <2>7. QED
      BY <2>1, <2>2, <2>3, <2>4, <2>5, <2>6
  <1>3. QED
    BY <1>1, <1>2, PTL DEF Spec

\* Type correctness of the context, its event group and the threads.
THEOREM TypeCorrect == Spec => []TypeOK
  <1>1. IInv => TypeOK
    BY DEF IInv
  <1>2. QED
    BY <1>1, EventsInv, PTL

\* The kref of a context (kgsl_context_get and kgsl_context_put of
\* kgsl_device.h) counts its users exactly, for any number of threads and
\* events: no use after free and no leak on any path through the driver.
THEOREM RefCountExact == Spec => []ContextRefCount
  <1>1. IInv => ContextRefCount
    BY DEF IInv
  <1>2. QED
    BY <1>1, EventsInv, PTL

\* However many threads detach a context, one of them takes it apart
\* (kgsl_context_detach, kgsl.c:764).
THEOREM DetachOnce == Spec => []DetachedOnce
  <1>1. IInv => DetachedOnce
    BY DEF IInv
  <1>2. QED
    BY <1>1, EventsInv, PTL

\* A context is destroyed only once it is detached, off the event group list
\* and out of the idr: kgsl_process_event_groups never meets a dead context.
THEOREM GroupSafe == Spec => []GroupKeepsContext
  <1>1. IInv => GroupKeepsContext
    <2> SUFFICES ASSUME IInv PROVE GroupKeepsContext
      OBVIOUS
    <2>1. ref = 0 => ~master
      BY UsersHoldContext DEF IInv, TypeOK
    <2>2. QED
      BY <2>1
         DEF IInv, TypeOK, DetachedOnce, GroupHasMaster, DestroyedIsGone, GroupKeepsContext
  <1>2. QED
    BY <1>1, EventsInv, PTL

-----------------------------------------------------------------------------
(***************************************************************************)
(* Timestamps by their distance from Start.  All timestamps in use are     *)
(* less than a window from it, and there timestamp_cmp is the order of     *)
(* the distances, whatever the rollover.                                   *)
(***************************************************************************)
Pos(n) == SubTimestamp(n, Start)

\* Distances are natural numbers, and Start has none.
LEMMA PosType ==
    /\ \A n \in Timestamp : Pos(n) \in Nat
    /\ Pos(Start) = 0
  BY WindowAssumption, EventsAssumption DEF Pos, Timestamp, SubTimestamp

\* The sums the driver makes move a timestamp by what is added.
LEMMA PosAdd ==
    ASSUME NEW a \in Timestamp, NEW n \in Nat, Pos(a) + n < Window
    PROVE  /\ AddTimestamp(a, n) \in Timestamp
           /\ Pos(AddTimestamp(a, n)) = Pos(a) + n
  BY WindowAssumption, EventsAssumption
     DEF Pos, Timestamp, AddTimestamp, SubTimestamp

\* timestamp_cmp (kgsl.h:605) compares the distances.
LEMMA CmpByPos ==
    ASSUME NEW a \in Timestamp, NEW b \in Timestamp,
           Pos(a) < Window, Pos(b) < Window
    PROVE  /\ timestamp_cmp(a, b) >= 0 <=> Pos(b) <= Pos(a)
           /\ timestamp_cmp(a, b) <= 0 <=> Pos(a) <= Pos(b)
           /\ timestamp_cmp(a, b) \in Int
  <1>1. CASE a = b
    BY <1>1, WindowAssumption, EventsAssumption
       DEF Pos, Timestamp, SubTimestamp, timestamp_cmp
  <1>2. CASE a > b
    BY <1>2, WindowAssumption, EventsAssumption
       DEF Pos, Timestamp, SubTimestamp, timestamp_cmp, AddWindow
  <1>3. CASE a < b
    BY <1>3, WindowAssumption, EventsAssumption
       DEF Pos, Timestamp, SubTimestamp, timestamp_cmp, AddWindow
  <1>4. QED
    BY <1>1, <1>2, <1>3 DEF Timestamp

\* What the GPU can retire next lies after lo and not beyond hi.
LEMMA PosAfter ==
    ASSUME NEW lo \in Timestamp, NEW hi \in Timestamp,
           Pos(lo) <= Pos(hi), Pos(hi) < Window, NEW n \in After(lo, hi)
    PROVE  n \in Timestamp /\ Pos(lo) < Pos(n) /\ Pos(n) <= Pos(hi)
  <1>1. n \in Timestamp /\ timestamp_cmp(n, lo) > 0 /\ timestamp_cmp(n, hi) <= 0
    BY DEF After
  <1>2. Pos(lo) < Window
    BY PosType, WindowAssumption
  <1>3. CASE Pos(n) < Window
    BY <1>1, <1>2, <1>3, CmpByPos, PosType
  <1>4. CASE ~(Pos(n) < Window)
    BY <1>1, <1>2, <1>4, WindowAssumption, EventsAssumption
       DEF Pos, Timestamp, SubTimestamp, timestamp_cmp, AddWindow
  <1>5. QED
    BY <1>1, <1>3, <1>4

\* _do_process_group (kgsl_events.c:54) skips a group only if the retired
\* timestamp has not moved since, as long as it does not move back.
LEMMA SkippedIsSame ==
    ASSUME NEW a \in Timestamp, NEW b \in Timestamp,
           Pos(a) <= Pos(b), Pos(b) < Window, ~_do_process_group(a, b)
    PROVE  a = b
  BY WindowAssumption, EventsAssumption
     DEF Pos, Timestamp, SubTimestamp, _do_process_group

-----------------------------------------------------------------------------
(***************************************************************************)
(* The inductive invariant.                                                *)
(***************************************************************************)
\* The labels between kgsl_context_get and the end of a wait or an
\* add-event, while ts[p] is the timestamp asked for.
AskPCs == {"w_check", "w_add", "w_lock", "w_sleep", "w_cancel", "a_add", "a_lock"}

\* The labels of a thread that will call wake_up_all.
WakePCs == {"i_cancel", "i_flush", "i_wake", "di_inv", "di_cancel", "di_flush",
            "di_wake", "d_debug", "d_hw", "d_wake"}

\* All timestamps lie less than a window after Start; nothing is retired or
\* processed that was not queued.
InWindow ==
    /\ Pos(queued) = submitted
    /\ Pos(gpu) <= Pos(queued)
    /\ ref > 0 => Pos(retired) <= Pos(queued)
    /\ Pos(processed) <= Pos(queued)
    /\ \A e \in Events : est[e] # "free" => Pos(ets[e]) < Window
    /\ \A p \in Threads : pc[p] \in AskPCs => Pos(ts[p]) < Window

\* Until the context goes bad, the memstore holds what the GPU wrote; an
\* attached context that is invalid is halted, so that the GPU cannot take
\* back what the fault handler wrote.
MemstoreFollowsGpu ==
    /\ ~kgsl_context_is_bad => retired = gpu
    /\ invalid /\ ~detached => halted

\* The group is listed until the detach, which is under way until it has put
\* the master reference.
DetachUnderWay ==
    /\ ~grouped => detached
    /\ detached /\ master => \E p \in Threads : pc[p] \in DetachPCs

\* A waiter about to list an event waits for that event's timestamp.
WaitersEvent ==
    \A p \in Threads : pc[p] = "w_lock" =>
        ets[ev[p]] = ts[p] /\ efunc[ev[p]] = "wait"

\* Listed events lie beyond what has been processed.
ListedAhead ==
    ~detached =>
        /\ Pos(processed) <= Pos(retired)
        /\ \A e \in Events : est[e] = "listed" => Pos(processed) < Pos(ets[e])

\* Somebody owes the group a pass.
PassComes ==
    \/ kick
    \/ hpc = "g_lock"
    \/ \E p \in Threads : pc[p] \in {"m_lock", "i_cancel", "i_flush"}

\* As long as the context is attached, a listed event that is due has a pass
\* to come.
PassOwed ==
    ~detached => \A e \in Events :
        est[e] = "listed" /\ Pos(ets[e]) <= Pos(retired) => PassComes

\* On a bad context, whoever sleeps and has not been woken will be, by the
\* thread that made it bad.
BadWakes ==
    kgsl_context_is_bad => \A p \in Threads :
        pc[p] = "w_sleep" /\ ~woken[p] => \E q \in Threads : pc[q] \in WakePCs

\* The thread of the fault handler works on a context it has invalidated.
FaultIsBad ==
    \A p \in Threads : pc[p] \in {"i_cancel", "i_flush", "i_wake"} => invalid

\* The threads that wait for t, and the listed events that will wake them.
Sleepers(t) == {p \in Threads : pc[p] \in {"w_sleep", "w_cancel"} /\ ts[p] = t}
WaitEvents(t) ==
    {e \in Events : est[e] = "listed" /\ efunc[e] = "wait" /\ ets[e] = t}

\* No waiter loses its event to another one with the same timestamp: there are
\* enough for all, since who cancels one is no longer waiting.
SleepersCounted ==
    ~kgsl_context_is_bad => \A t \in Timestamp : Pos(retired) < Pos(t) =>
        Cardinality(Sleepers(t)) <= Cardinality(WaitEvents(t))

\* A wait event on its way to wake everybody.
DueEvent(e) ==
    /\ efunc[e] = "wait"
    /\ est[e] = "queued" \/ (est[e] = "listed" /\ Pos(ets[e]) <= Pos(retired))

\* A waiter whose timestamp has retired has an event on its way.
DueWakes ==
    ~kgsl_context_is_bad => \A p \in Threads :
        pc[p] = "w_sleep" /\ ~woken[p] /\ Pos(ts[p]) <= Pos(retired) =>
            \E e \in Events : DueEvent(e)

\* RetiredIsTrue, by distances.
RetiredByPos ==
    ~kgsl_context_is_bad => \A e \in Events :
        est[e] = "queued" /\ eres[e] = "retired" => Pos(ets[e]) <= Pos(retired)

OrderInv ==
    /\ InWindow /\ MemstoreFollowsGpu /\ DetachUnderWay /\ WaitersEvent
    /\ ListedAhead /\ PassOwed
    /\ BadWakes /\ FaultIsBad /\ SleepersCounted /\ DueWakes /\ RetiredByPos

-----------------------------------------------------------------------------
(***************************************************************************)
(* What a step can do to the memstore and to an event.                     *)
(***************************************************************************)
\* An attached context has its master reference and is alive.
LEMMA AttachedLives ==
    ASSUME TypeOK, ContextRefCount, DetachedOnce, ~detached
    PROVE  ref > 0
  BY UsersHoldContext DEF DetachedOnce

\* A live context has all its timestamps within the window.
LEMMA Distances ==
    ASSUME TypeOK, InWindow
    PROVE  /\ Pos(queued) \in Nat /\ Pos(queued) < Window
           /\ Pos(gpu) \in Nat /\ Pos(gpu) < Window
           /\ Pos(processed) \in Nat /\ Pos(processed) < Window
           /\ Pos(retired) \in Nat /\ (ref > 0 => Pos(retired) < Window)
           /\ \A e \in Events : Pos(ets[e]) \in Nat
           /\ \A p \in Threads : Pos(ts[p]) \in Nat
           /\ Window \in Nat
  BY PosType, EventsAssumption, WindowAssumption DEF TypeOK, InWindow

\* _process_event_group and the cancelling functions only hand listed events
\* to the worker, and what they take for processed is the memstore.
LEMMA ProcessOutcome ==
    ASSUME TypeOK, NEW flush \in BOOLEAN, _process_event_group(flush)
    PROVE  /\ processed' = processed \/ processed' = retired
           /\ \A e \in Events :
                \/ est'[e] = est[e] /\ eres'[e] = eres[e]
                \/ /\ est[e] = "listed" /\ est'[e] = "queued"
                   /\ \/ eres'[e] = "cancelled"
                      \/ eres'[e] = "retired" /\ timestamp_cmp(ets[e], retired) <= 0
  BY DEF _process_event_group, signal_event, Listed, TypeOK

\* Every step keeps the timestamps in use within a window.
LEMMA WindowStep ==
    ASSUME TypeOK, IInv, InWindow, [Next]_vars
    PROVE  InWindow'
  <1>1. CASE Submit
    <2>1. PICK n \in 1 .. MaxSubmit - submitted :
             queued' = AddTimestamp(queued, n) /\ submitted' = submitted + n
      BY <1>1 DEF Submit
    <2>2. n \in Nat /\ Pos(queued) + n < Window /\ submitted \in Nat
      BY EventsAssumption, WindowAssumption DEF TypeOK, InWindow
    <2>3. Pos(queued') = Pos(queued) + n
      BY <2>1, <2>2, PosAdd DEF TypeOK
    <2>4. InWindow!2' /\ InWindow!3' /\ InWindow!4'
      BY <1>1, <2>2, <2>3, Distances DEF Submit, gpuVars, groupVars, InWindow
    <2>5. QED
      BY <1>1, <2>1, <2>2, <2>3, <2>4
         DEF Submit, eventVars, threadVars, InWindow
  <1>2. CASE GpuRetire
    <2>1. PICK n \in After(gpu, queued) : gpu' = n /\ retired' = n
      BY <1>2 DEF GpuRetire
    <2>2. n \in Timestamp /\ Pos(n) <= Pos(queued)
      BY PosAfter, Distances DEF TypeOK, InWindow
    <2>3. QED
      BY <1>2, <2>1, <2>2, Distances
         DEF GpuRetire, Goto, ctxVars, groupVars, eventVars, threadVars, InWindow,
             AskPCs, TypeOK
  <1>3. CASE HwschedWork
    <2>1. ref > 0 \/ ref' = ref
      BY <1>3, UsersHoldContext DEF HwschedWork, IInv, GroupHasMaster
    <2>2. UNCHANGED <<retired, gpu, queued, submitted, groupVars, eventVars, threadVars>>
      BY <1>3 DEF HwschedWork
    <2>3. QED
      BY <2>1, <2>2 DEF groupVars, eventVars, threadVars, InWindow
  <1>4. CASE HwschedProcess
    <2>1. ref > 0
      BY <1>4, UsersHoldContext DEF HwschedProcess, IInv
    <2>2. _process_event_group(FALSE)
      BY <1>4 DEF HwschedProcess
    <2>3. QED
      BY <1>4, <2>1, <2>2, ProcessOutcome, Distances
         DEF HwschedProcess, Goto, gpuVars, ctxVars, threadVars, InWindow, AskPCs, TypeOK
  <1>5. CASE HwschedPut
    BY <1>5, PosType
       DEF HwschedPut, kgsl_context_put, gpuVars, ctxVars, groupVars,
           eventVars, threadVars, InWindow, AskPCs, TypeOK
  <1>6. ASSUME NEW e \in Events, _kgsl_event_worker(e)
        PROVE  InWindow'
    BY <1>6, PosType
       DEF _kgsl_event_worker, kgsl_context_put, WakeAll, gpuVars, ctxVars,
           groupVars, eventVars, threadVars, InWindow, AskPCs, TypeOK
  <1>7. ASSUME NEW p \in Threads, ContextPut(p)
        PROVE  InWindow'
    BY <1>7, PosType
       DEF ContextPut, kgsl_context_put, Goto, gpuVars, ctxVars, groupVars,
           eventVars, threadVars, InWindow, AskPCs, TypeOK
  <1>8. ASSUME NEW p \in Threads, RetireMarker(p)
        PROVE  InWindow'
    <2>1. PICK n \in After(gpu, queued) : gpu' = n /\ retired' = n
      BY <1>8 DEF RetireMarker
    <2>2. n \in Timestamp /\ Pos(n) <= Pos(queued)
      BY PosAfter, Distances DEF TypeOK, InWindow
    <2>3. QED
      BY <1>8, <2>1, <2>2, Distances
         DEF RetireMarker, Goto, ctxVars, groupVars, eventVars, threadVars, InWindow,
             AskPCs, TypeOK
  <1>9. ASSUME NEW p \in Threads, MarkerProcess(p)
        PROVE  InWindow'
    <2>1. ref > 0
      BY <1>9, UsersHoldContext DEF MarkerProcess, IInv
    <2>2. _process_event_group(FALSE)
      BY <1>9 DEF MarkerProcess
    <2>3. QED
      BY <1>9, <2>1, <2>2, ProcessOutcome, Distances
         DEF MarkerProcess, Goto, gpuVars, ctxVars, threadVars, InWindow, AskPCs, TypeOK
  <1>10. ASSUME NEW p \in Threads, WaitCheck(p)
        PROVE  InWindow'
    BY <1>10, PosType
       DEF WaitCheck, Goto, gpuVars, ctxVars, groupVars, eventVars,
           threadVars, InWindow, AskPCs, TypeOK
  <1>11. ASSUME NEW p \in Threads, kgsl_add_event(p)
        PROVE  InWindow'
    BY <1>11, PosType
       DEF kgsl_add_event, Goto, gpuVars, ctxVars, groupVars, eventVars,
           threadVars, InWindow, AskPCs, TypeOK
  <1>12. ASSUME NEW p \in Threads, AddEventFails(p)
        PROVE  InWindow'
    BY <1>12, PosType
       DEF AddEventFails, Goto, gpuVars, ctxVars, groupVars, eventVars,
           threadVars, InWindow, AskPCs, TypeOK
  <1>13. ASSUME NEW p \in Threads, AddEventLocked(p)
        PROVE  InWindow'
    <2>1. ev[p] \in Events /\ est[ev[p]] = "init"
      BY <1>13 DEF AddEventLocked, IInv, EventsOwned
    <2>2. \A e \in Events : est'[e] # "free" => est[e] # "free"
      BY <1>13, <2>1 DEF AddEventLocked, TypeOK
    <2>3. \A q \in Threads : pc'[q] \in AskPCs => pc[q] \in AskPCs
      BY <1>13 DEF AddEventLocked, Goto, AskPCs, TypeOK
    <2>4. UNCHANGED <<gpu, retired, queued, submitted, ref, processed, ets, ts>>
      BY <1>13 DEF AddEventLocked, gpuVars, ctxVars, groupVars
    <2>5. QED
      BY <2>2, <2>3, <2>4 DEF InWindow
  <1>14. ASSUME NEW p \in Threads, WaitWake(p)
        PROVE  InWindow'
    BY <1>14, PosType
       DEF WaitWake, Goto, gpuVars, ctxVars, groupVars, eventVars, threadVars,
           InWindow, AskPCs, TypeOK
  <1>15. ASSUME NEW p \in Threads, kgsl_cancel_event(p)
        PROVE  InWindow'
    BY <1>15, PosType
       DEF kgsl_cancel_event, Goto, CancelEvents, signal_event, Listed,
           gpuVars, ctxVars, groupVars, eventVars, threadVars, InWindow,
           AskPCs, TypeOK
  <1>16. ASSUME NEW p \in Threads, DetachInvalidate(p)
        PROVE  InWindow'
    BY <1>16, PosType
       DEF DetachInvalidate, Goto, Invalidate, gpuVars, ctxVars, groupVars,
           eventVars, threadVars, InWindow, AskPCs, TypeOK
  <1>17. ASSUME NEW p \in Threads, CancelQueued(p)
        PROVE  InWindow'
    BY <1>17, PosType
       DEF CancelQueued, Goto, CancelEvents, signal_event, Listed, gpuVars,
           ctxVars, groupVars, eventVars, threadVars, InWindow, AskPCs, TypeOK
  <1>18. ASSUME NEW p \in Threads, FlushEvents(p)
        PROVE  InWindow'
    <2>1. ref > 0
      BY <1>18, UsersHoldContext DEF FlushEvents, IInv
    <2>2. _process_event_group(TRUE)
      BY <1>18 DEF FlushEvents
    <2>3. QED
      BY <1>18, <2>1, <2>2, ProcessOutcome, Distances
         DEF FlushEvents, Goto, gpuVars, ctxVars, threadVars, InWindow, AskPCs, TypeOK
  <1>19. ASSUME NEW p \in Threads, InvalidateWake(p)
        PROVE  InWindow'
    BY <1>19, PosType
       DEF InvalidateWake, Goto, WakeAll, gpuVars, ctxVars, groupVars,
           eventVars, threadVars, InWindow, AskPCs, TypeOK
  <1>20. ASSUME NEW p \in Threads, DetachSet(p)
        PROVE  InWindow'
    BY <1>20, PosType
       DEF DetachSet, Goto, gpuVars, ctxVars, groupVars, eventVars,
           threadVars, InWindow, AskPCs, TypeOK
  <1>21. ASSUME NEW p \in Threads, DetachDebugfs(p)
        PROVE  InWindow'
    BY <1>21, PosType
       DEF DetachDebugfs, Goto, kgsl_context_put, gpuVars, ctxVars, groupVars,
           eventVars, threadVars, InWindow, AskPCs, TypeOK
  <1>22. ASSUME NEW p \in Threads, gen7_hwsched_context_detach(p)
        PROVE  InWindow'
    BY <1>22, PosType
       DEF gen7_hwsched_context_detach, Goto, gpuVars, ctxVars, groupVars,
           eventVars, threadVars, InWindow, AskPCs, TypeOK
  <1>23. ASSUME NEW p \in Threads, DetachWake(p)
        PROVE  InWindow'
    BY <1>23, PosType
       DEF DetachWake, Goto, WakeAll, gpuVars, ctxVars, groupVars, eventVars,
           threadVars, InWindow, AskPCs, TypeOK
  <1>24. ASSUME NEW p \in Threads, kgsl_cancel_events(p)
        PROVE  InWindow'
    BY <1>24, PosType
       DEF kgsl_cancel_events, Goto, CancelEvents, signal_event, Listed,
           gpuVars, ctxVars, groupVars, eventVars, threadVars, InWindow,
           AskPCs, TypeOK
  <1>25. ASSUME NEW p \in Threads, kgsl_del_event_group(p)
        PROVE  InWindow'
    BY <1>25, PosType
       DEF kgsl_del_event_group, Goto, gpuVars, ctxVars, groupVars, eventVars,
           threadVars, InWindow, AskPCs, TypeOK
  <1>26. ASSUME NEW p \in Threads, DetachPut(p)
        PROVE  InWindow'
    BY <1>26, PosType
       DEF DetachPut, Goto, kgsl_context_put, gpuVars, ctxVars, groupVars,
           eventVars, threadVars, InWindow, AskPCs, TypeOK
  <1>27. ASSUME NEW p \in Threads, kgsl_context_get(p)
        PROVE  InWindow'
    <2>1. \A q \in Threads : pc'[q] \in AskPCs => Pos(ts'[q]) < Window
      <3>1. ASSUME NEW n \in 0 .. MaxAhead
            PROVE  Pos(AddTimestamp(Start, n)) < Window
        BY PosAdd, PosType, EventsAssumption, WindowAssumption
      <3>2. QED
        BY <1>27, <3>1 DEF kgsl_context_get, Goto, AskPCs, InWindow, TypeOK
    <2>2. QED
      BY <1>27, <2>1
         DEF kgsl_context_get, gpuVars, groupVars, eventVars, InWindow, TypeOK
  <1>28. ASSUME NEW p \in Threads, WaitTimeout(p)
        PROVE  InWindow'
    BY <1>28, PosType
       DEF WaitTimeout, Goto, gpuVars, ctxVars, groupVars, eventVars,
           threadVars, InWindow, AskPCs, TypeOK
  <1>29. ASSUME NEW p \in Threads, FaultInvalidate(p)
        PROVE  InWindow'
    BY <1>29, PosType
       DEF FaultInvalidate, Goto, Invalidate, gpuVars, ctxVars, groupVars,
           eventVars, threadVars, InWindow, AskPCs, TypeOK
  <1>30. CASE UNCHANGED vars
    BY <1>30, PosType
       DEF vars, gpuVars, ctxVars, groupVars, eventVars, threadVars, InWindow,
           AskPCs, TypeOK
  <1>31. QED
    BY <1>1, <1>2, <1>3, <1>4, <1>5, <1>6, <1>7, <1>8, <1>9, <1>10, <1>11,
       <1>12, <1>13, <1>14, <1>15, <1>16, <1>17, <1>18, <1>19, <1>20, <1>21,
       <1>22, <1>23, <1>24, <1>25, <1>26, <1>27, <1>28, <1>29, <1>30
       DEF Next, Hwsched, Step

\* While the context is attached, a reference that is put is not the last: the
\* master reference is there too.
LEMMA AttachedKept ==
    ASSUME IInv, ~detached
    PROVE  /\ master /\ ref > 0
           /\ \A p \in Threads : pc[p] # "idle" => ref > 1
           /\ \A e \in Events : est[e] # "free" => ref > 1
           /\ hpc # "idle" => ref > 1
  <1>1. master /\ TypeOK /\ ContextRefCount
    BY DEF IInv, DetachedOnce, TypeOK
  <1>2. ref > 0 /\ \A p \in Threads : pc[p] # "idle" => ref > 1
    BY <1>1, UsersHoldContext
  <1>3. ASSUME NEW e \in Events, est[e] # "free"
        PROVE  ref > 1
    <2>1. LiveEvents # {}
      BY <1>3 DEF LiveEvents
    <2>2. Cardinality(LiveEvents) > 0
      BY <2>1, UsersFinite, FS_EmptySet
    <2>3. QED
      BY <1>1, <2>2, UsersFinite DEF TypeOK, ContextRefCount, One
  <1>4. hpc # "idle" => ref > 1
    BY <1>1, UsersFinite DEF TypeOK, ContextRefCount, One
  <1>5. QED
    BY <1>1, <1>2, <1>3, <1>4

\* Every step keeps the memstore what the GPU wrote, until the context is
\* bad.
LEMMA MemstoreStep ==
    ASSUME TypeOK, IInv, MemstoreFollowsGpu, [Next]_vars
    PROVE  MemstoreFollowsGpu'
  <1>1. CASE Submit
    BY <1>1
       DEF Submit, kgsl_context_is_bad, gpuVars, ctxVars, groupVars,
           eventVars, threadVars, MemstoreFollowsGpu, TypeOK
  <1>2. CASE GpuRetire
    BY <1>2
       DEF GpuRetire, gpuVars, ctxVars, groupVars, eventVars, threadVars,
           MemstoreFollowsGpu, kgsl_context_is_bad, TypeOK
  <1>3. CASE HwschedWork
    BY <1>3
       DEF HwschedWork, gpuVars, ctxVars, groupVars, eventVars, threadVars,
           MemstoreFollowsGpu, kgsl_context_is_bad, TypeOK
  <1>4. CASE HwschedProcess
    BY <1>4
       DEF HwschedProcess, _process_event_group, signal_event, Listed,
           gpuVars, ctxVars, groupVars, eventVars, threadVars,
           MemstoreFollowsGpu, kgsl_context_is_bad, TypeOK
  <1>5. CASE HwschedPut
    <2>1. ~detached' => ref # 1
      BY <1>5, AttachedKept DEF HwschedPut, TypeOK
    <2>2. QED
      BY <1>5, <2>1 DEF HwschedPut, kgsl_context_put, Goto, groupVars, eventVars, threadVars, kgsl_context_is_bad, MemstoreFollowsGpu
  <1>6. ASSUME NEW e \in Events, _kgsl_event_worker(e)
        PROVE  MemstoreFollowsGpu'
    <2>1. ~detached' => ref # 1
      BY <1>6, AttachedKept DEF _kgsl_event_worker, TypeOK
    <2>2. QED
      BY <1>6, <2>1 DEF _kgsl_event_worker, kgsl_context_put, Goto, groupVars, eventVars, threadVars, kgsl_context_is_bad, MemstoreFollowsGpu
  <1>7. ASSUME NEW p \in Threads, ContextPut(p)
        PROVE  MemstoreFollowsGpu'
    <2>1. ~detached' => ref # 1
      BY <1>7, AttachedKept DEF ContextPut, TypeOK
    <2>2. QED
      BY <1>7, <2>1 DEF ContextPut, kgsl_context_put, Goto, groupVars, eventVars, threadVars, kgsl_context_is_bad, MemstoreFollowsGpu
  <1>8. ASSUME NEW p \in Threads, RetireMarker(p)
        PROVE  MemstoreFollowsGpu'
    BY <1>8
       DEF RetireMarker, Goto, gpuVars, ctxVars, groupVars, eventVars,
           threadVars, MemstoreFollowsGpu, kgsl_context_is_bad, TypeOK
  <1>9. ASSUME NEW p \in Threads, MarkerProcess(p)
        PROVE  MemstoreFollowsGpu'
    BY <1>9
       DEF MarkerProcess, _process_event_group, signal_event, Listed, Goto,
           gpuVars, ctxVars, groupVars, eventVars, threadVars,
           MemstoreFollowsGpu, kgsl_context_is_bad, TypeOK
  <1>10. ASSUME NEW p \in Threads, WaitCheck(p)
        PROVE  MemstoreFollowsGpu'
    BY <1>10
       DEF WaitCheck, Goto, gpuVars, ctxVars, groupVars, eventVars,
           threadVars, MemstoreFollowsGpu, kgsl_context_is_bad, TypeOK
  <1>11. ASSUME NEW p \in Threads, kgsl_add_event(p)
        PROVE  MemstoreFollowsGpu'
    BY <1>11
       DEF kgsl_add_event, Goto, gpuVars, ctxVars, groupVars, eventVars,
           threadVars, MemstoreFollowsGpu, kgsl_context_is_bad, TypeOK
  <1>12. ASSUME NEW p \in Threads, AddEventFails(p)
        PROVE  MemstoreFollowsGpu'
    BY <1>12
       DEF AddEventFails, Goto, gpuVars, ctxVars, groupVars, eventVars,
           threadVars, MemstoreFollowsGpu, kgsl_context_is_bad, TypeOK
  <1>13. ASSUME NEW p \in Threads, AddEventLocked(p)
        PROVE  MemstoreFollowsGpu'
    BY <1>13
       DEF AddEventLocked, Goto, gpuVars, ctxVars, groupVars, eventVars,
           threadVars, MemstoreFollowsGpu, kgsl_context_is_bad, TypeOK
  <1>14. ASSUME NEW p \in Threads, WaitWake(p)
        PROVE  MemstoreFollowsGpu'
    BY <1>14
       DEF WaitWake, Goto, gpuVars, ctxVars, groupVars, eventVars, threadVars,
           MemstoreFollowsGpu, kgsl_context_is_bad, TypeOK
  <1>15. ASSUME NEW p \in Threads, kgsl_cancel_event(p)
        PROVE  MemstoreFollowsGpu'
    BY <1>15
       DEF kgsl_cancel_event, Goto, CancelEvents, signal_event, Listed,
           gpuVars, ctxVars, groupVars, eventVars, threadVars,
           MemstoreFollowsGpu, kgsl_context_is_bad, TypeOK
  <1>16. ASSUME NEW p \in Threads, DetachInvalidate(p)
        PROVE  MemstoreFollowsGpu'
    <2>1. detached /\ detached'
      BY <1>16 DEF DetachInvalidate, ctxVars, IInv, DetachedOnce, DetachPCs
    <2>2. QED
      BY <2>1 DEF MemstoreFollowsGpu, kgsl_context_is_bad
  <1>17. ASSUME NEW p \in Threads, CancelQueued(p)
        PROVE  MemstoreFollowsGpu'
    BY <1>17
       DEF CancelQueued, Goto, CancelEvents, signal_event, Listed, gpuVars,
           ctxVars, groupVars, eventVars, threadVars, MemstoreFollowsGpu,
           kgsl_context_is_bad, TypeOK
  <1>18. ASSUME NEW p \in Threads, FlushEvents(p)
        PROVE  MemstoreFollowsGpu'
    BY <1>18
       DEF FlushEvents, Goto, _process_event_group, signal_event, Listed,
           gpuVars, ctxVars, groupVars, eventVars, threadVars,
           MemstoreFollowsGpu, kgsl_context_is_bad, TypeOK
  <1>19. ASSUME NEW p \in Threads, InvalidateWake(p)
        PROVE  MemstoreFollowsGpu'
    BY <1>19
       DEF InvalidateWake, Goto, WakeAll, gpuVars, ctxVars, groupVars,
           eventVars, threadVars, MemstoreFollowsGpu, kgsl_context_is_bad,
           TypeOK
  <1>20. ASSUME NEW p \in Threads, DetachSet(p)
        PROVE  MemstoreFollowsGpu'
    BY <1>20
       DEF DetachSet, Goto, gpuVars, ctxVars, groupVars, eventVars,
           threadVars, MemstoreFollowsGpu, kgsl_context_is_bad, TypeOK
  <1>21. ASSUME NEW p \in Threads, DetachDebugfs(p)
        PROVE  MemstoreFollowsGpu'
    <2>1. detached /\ detached'
      BY <1>21 DEF DetachDebugfs, ctxVars, IInv, DetachedOnce, DetachPCs
    <2>2. QED
      BY <2>1 DEF MemstoreFollowsGpu, kgsl_context_is_bad
  <1>22. ASSUME NEW p \in Threads, gen7_hwsched_context_detach(p)
        PROVE  MemstoreFollowsGpu'
    <2>1. detached /\ detached'
      BY <1>22 DEF gen7_hwsched_context_detach, ctxVars, IInv, DetachedOnce, DetachPCs
    <2>2. QED
      BY <2>1 DEF MemstoreFollowsGpu, kgsl_context_is_bad
  <1>23. ASSUME NEW p \in Threads, DetachWake(p)
        PROVE  MemstoreFollowsGpu'
    BY <1>23
       DEF DetachWake, Goto, WakeAll, gpuVars, ctxVars, groupVars, eventVars,
           threadVars, MemstoreFollowsGpu, kgsl_context_is_bad, TypeOK
  <1>24. ASSUME NEW p \in Threads, kgsl_cancel_events(p)
        PROVE  MemstoreFollowsGpu'
    BY <1>24
       DEF kgsl_cancel_events, Goto, CancelEvents, signal_event, Listed,
           gpuVars, ctxVars, groupVars, eventVars, threadVars,
           MemstoreFollowsGpu, kgsl_context_is_bad, TypeOK
  <1>25. ASSUME NEW p \in Threads, kgsl_del_event_group(p)
        PROVE  MemstoreFollowsGpu'
    BY <1>25
       DEF kgsl_del_event_group, Goto, gpuVars, ctxVars, groupVars, eventVars,
           threadVars, MemstoreFollowsGpu, kgsl_context_is_bad, TypeOK
  <1>26. ASSUME NEW p \in Threads, DetachPut(p)
        PROVE  MemstoreFollowsGpu'
    <2>1. detached /\ detached'
      BY <1>26 DEF DetachPut, ctxVars, IInv, DetachedOnce, DetachPCs
    <2>2. QED
      BY <2>1 DEF MemstoreFollowsGpu, kgsl_context_is_bad
  <1>27. ASSUME NEW p \in Threads, kgsl_context_get(p)
        PROVE  MemstoreFollowsGpu'
    BY <1>27
       DEF kgsl_context_get, Goto, gpuVars, ctxVars, groupVars, eventVars,
           threadVars, MemstoreFollowsGpu, kgsl_context_is_bad, TypeOK
  <1>28. ASSUME NEW p \in Threads, WaitTimeout(p)
        PROVE  MemstoreFollowsGpu'
    BY <1>28
       DEF WaitTimeout, Goto, gpuVars, ctxVars, groupVars, eventVars,
           threadVars, MemstoreFollowsGpu, kgsl_context_is_bad, TypeOK
  <1>29. ASSUME NEW p \in Threads, FaultInvalidate(p)
        PROVE  MemstoreFollowsGpu'
    BY <1>29
       DEF FaultInvalidate, Goto, Invalidate, gpuVars, ctxVars, groupVars,
           eventVars, threadVars, MemstoreFollowsGpu, kgsl_context_is_bad,
           TypeOK
  <1>30. CASE UNCHANGED vars
    BY <1>30
       DEF vars, gpuVars, ctxVars, groupVars, eventVars, threadVars,
           MemstoreFollowsGpu, kgsl_context_is_bad, TypeOK
  <1>31. QED
    BY <1>1, <1>2, <1>3, <1>4, <1>5, <1>6, <1>7, <1>8, <1>9, <1>10, <1>11,
       <1>12, <1>13, <1>14, <1>15, <1>16, <1>17, <1>18, <1>19, <1>20, <1>21,
       <1>22, <1>23, <1>24, <1>25, <1>26, <1>27, <1>28, <1>29, <1>30
       DEF Next, Hwsched, Step

\* The memstore of an attached context never goes back, and somebody owes a
\* pass over the group when it moves.
LEMMA RetiredForward ==
    ASSUME TypeOK, IInv, InWindow, MemstoreFollowsGpu, [Next]_vars, ~detached
    PROVE  /\ Pos(retired) <= Pos(retired')
           /\ retired' # retired => PassComes'
  <1>1. CASE Submit
    <2>1. retired' = retired
      BY <1>1 DEF Submit, gpuVars
    <2>2. QED
      BY <2>1, Distances
  <1>2. CASE GpuRetire
    <2>1. retired = gpu
      BY <1>2 DEF GpuRetire, MemstoreFollowsGpu, kgsl_context_is_bad, TypeOK
    <2>2. PICK n \in After(gpu, queued) : retired' = n
      BY <1>2 DEF GpuRetire
    <2>3. Pos(gpu) < Pos(n)
      BY PosAfter, Distances DEF TypeOK, InWindow
    <2>4. n \in Timestamp /\ PassComes'
      BY <1>2 DEF GpuRetire, After, Goto, PassComes, TypeOK
    <2>5. QED
      BY <2>1, <2>2, <2>3, <2>4, Distances, PosType
  <1>3. CASE HwschedWork
    <2>1. retired' = retired
      BY <1>3 DEF HwschedWork
    <2>2. QED
      BY <2>1, Distances
  <1>4. CASE HwschedProcess
    <2>1. retired' = retired
      BY <1>4 DEF HwschedProcess, gpuVars
    <2>2. QED
      BY <2>1, Distances
  <1>5. CASE HwschedPut
    <2>1. ref # 1
      BY <1>5, AttachedKept DEF HwschedPut, TypeOK
    <2>2. retired' = retired
      BY <1>5, <2>1 DEF HwschedPut, kgsl_context_put
    <2>3. QED
      BY <2>2, Distances
  <1>6. ASSUME NEW e \in Events, _kgsl_event_worker(e)
        PROVE  /\ Pos(retired) <= Pos(retired')
               /\ retired' # retired => PassComes'
    <2>1. ref # 1
      BY <1>6, AttachedKept DEF _kgsl_event_worker, TypeOK
    <2>2. retired' = retired
      BY <1>6, <2>1 DEF _kgsl_event_worker, kgsl_context_put
    <2>3. QED
      BY <2>2, Distances
  <1>7. ASSUME NEW p \in Threads, ContextPut(p)
        PROVE  /\ Pos(retired) <= Pos(retired')
               /\ retired' # retired => PassComes'
    <2>1. ref # 1
      BY <1>7, AttachedKept DEF ContextPut, TypeOK
    <2>2. retired' = retired
      BY <1>7, <2>1 DEF ContextPut, kgsl_context_put
    <2>3. QED
      BY <2>2, Distances
  <1>8. ASSUME NEW p \in Threads, RetireMarker(p)
        PROVE  /\ Pos(retired) <= Pos(retired')
               /\ retired' # retired => PassComes'
    <2>1. retired = gpu
      BY <1>8 DEF RetireMarker, MemstoreFollowsGpu, kgsl_context_is_bad, TypeOK
    <2>2. PICK n \in After(gpu, queued) : retired' = n
      BY <1>8 DEF RetireMarker
    <2>3. Pos(gpu) < Pos(n)
      BY PosAfter, Distances DEF TypeOK, InWindow
    <2>4. n \in Timestamp /\ PassComes'
      BY <1>8 DEF RetireMarker, After, Goto, PassComes, TypeOK
    <2>5. QED
      BY <2>1, <2>2, <2>3, <2>4, Distances, PosType
  <1>9. ASSUME NEW p \in Threads, MarkerProcess(p)
        PROVE  /\ Pos(retired) <= Pos(retired')
               /\ retired' # retired => PassComes'
    <2>1. retired' = retired
      BY <1>9 DEF MarkerProcess, gpuVars
    <2>2. QED
      BY <2>1, Distances
  <1>10. ASSUME NEW p \in Threads, WaitCheck(p)
        PROVE  /\ Pos(retired) <= Pos(retired')
               /\ retired' # retired => PassComes'
    <2>1. retired' = retired
      BY <1>10 DEF WaitCheck, gpuVars
    <2>2. QED
      BY <2>1, Distances
  <1>11. ASSUME NEW p \in Threads, kgsl_add_event(p)
        PROVE  /\ Pos(retired) <= Pos(retired')
               /\ retired' # retired => PassComes'
    <2>1. retired' = retired
      BY <1>11 DEF kgsl_add_event, gpuVars
    <2>2. QED
      BY <2>1, Distances
  <1>12. ASSUME NEW p \in Threads, AddEventFails(p)
        PROVE  /\ Pos(retired) <= Pos(retired')
               /\ retired' # retired => PassComes'
    <2>1. retired' = retired
      BY <1>12 DEF AddEventFails, gpuVars
    <2>2. QED
      BY <2>1, Distances
  <1>13. ASSUME NEW p \in Threads, AddEventLocked(p)
        PROVE  /\ Pos(retired) <= Pos(retired')
               /\ retired' # retired => PassComes'
    <2>1. retired' = retired
      BY <1>13 DEF AddEventLocked, gpuVars
    <2>2. QED
      BY <2>1, Distances
  <1>14. ASSUME NEW p \in Threads, WaitWake(p)
        PROVE  /\ Pos(retired) <= Pos(retired')
               /\ retired' # retired => PassComes'
    <2>1. retired' = retired
      BY <1>14 DEF WaitWake, gpuVars
    <2>2. QED
      BY <2>1, Distances
  <1>15. ASSUME NEW p \in Threads, kgsl_cancel_event(p)
        PROVE  /\ Pos(retired) <= Pos(retired')
               /\ retired' # retired => PassComes'
    <2>1. retired' = retired
      BY <1>15 DEF kgsl_cancel_event, gpuVars
    <2>2. QED
      BY <2>1, Distances
  <1>16. ASSUME NEW p \in Threads, DetachInvalidate(p)
        PROVE  /\ Pos(retired) <= Pos(retired')
               /\ retired' # retired => PassComes'
    <2>1. detached
      BY <1>16 DEF DetachInvalidate, IInv, DetachedOnce, DetachPCs
    <2>2. QED
      BY <2>1
  <1>17. ASSUME NEW p \in Threads, CancelQueued(p)
        PROVE  /\ Pos(retired) <= Pos(retired')
               /\ retired' # retired => PassComes'
    <2>1. retired' = retired
      BY <1>17 DEF CancelQueued, gpuVars
    <2>2. QED
      BY <2>1, Distances
  <1>18. ASSUME NEW p \in Threads, FlushEvents(p)
        PROVE  /\ Pos(retired) <= Pos(retired')
               /\ retired' # retired => PassComes'
    <2>1. retired' = retired
      BY <1>18 DEF FlushEvents, gpuVars
    <2>2. QED
      BY <2>1, Distances
  <1>19. ASSUME NEW p \in Threads, InvalidateWake(p)
        PROVE  /\ Pos(retired) <= Pos(retired')
               /\ retired' # retired => PassComes'
    <2>1. retired' = retired
      BY <1>19 DEF InvalidateWake
    <2>2. QED
      BY <2>1, Distances
  <1>20. ASSUME NEW p \in Threads, DetachSet(p)
        PROVE  /\ Pos(retired) <= Pos(retired')
               /\ retired' # retired => PassComes'
    <2>1. retired' = retired
      BY <1>20 DEF DetachSet, gpuVars
    <2>2. QED
      BY <2>1, Distances
  <1>21. ASSUME NEW p \in Threads, DetachDebugfs(p)
        PROVE  /\ Pos(retired) <= Pos(retired')
               /\ retired' # retired => PassComes'
    <2>1. detached
      BY <1>21 DEF DetachDebugfs, IInv, DetachedOnce, DetachPCs
    <2>2. QED
      BY <2>1
  <1>22. ASSUME NEW p \in Threads, gen7_hwsched_context_detach(p)
        PROVE  /\ Pos(retired) <= Pos(retired')
               /\ retired' # retired => PassComes'
    <2>1. detached
      BY <1>22 DEF gen7_hwsched_context_detach, IInv, DetachedOnce, DetachPCs
    <2>2. QED
      BY <2>1
  <1>23. ASSUME NEW p \in Threads, DetachWake(p)
        PROVE  /\ Pos(retired) <= Pos(retired')
               /\ retired' # retired => PassComes'
    <2>1. retired' = retired
      BY <1>23 DEF DetachWake, gpuVars
    <2>2. QED
      BY <2>1, Distances
  <1>24. ASSUME NEW p \in Threads, kgsl_cancel_events(p)
        PROVE  /\ Pos(retired) <= Pos(retired')
               /\ retired' # retired => PassComes'
    <2>1. retired' = retired
      BY <1>24 DEF kgsl_cancel_events, gpuVars
    <2>2. QED
      BY <2>1, Distances
  <1>25. ASSUME NEW p \in Threads, kgsl_del_event_group(p)
        PROVE  /\ Pos(retired) <= Pos(retired')
               /\ retired' # retired => PassComes'
    <2>1. retired' = retired
      BY <1>25 DEF kgsl_del_event_group, gpuVars
    <2>2. QED
      BY <2>1, Distances
  <1>26. ASSUME NEW p \in Threads, DetachPut(p)
        PROVE  /\ Pos(retired) <= Pos(retired')
               /\ retired' # retired => PassComes'
    <2>1. detached
      BY <1>26 DEF DetachPut, IInv, DetachedOnce, DetachPCs
    <2>2. QED
      BY <2>1
  <1>27. ASSUME NEW p \in Threads, kgsl_context_get(p)
        PROVE  /\ Pos(retired) <= Pos(retired')
               /\ retired' # retired => PassComes'
    <2>1. retired' = retired
      BY <1>27 DEF kgsl_context_get, gpuVars
    <2>2. QED
      BY <2>1, Distances
  <1>28. ASSUME NEW p \in Threads, WaitTimeout(p)
        PROVE  /\ Pos(retired) <= Pos(retired')
               /\ retired' # retired => PassComes'
    <2>1. retired' = retired
      BY <1>28 DEF WaitTimeout, gpuVars
    <2>2. QED
      BY <2>1, Distances
  <1>29. ASSUME NEW p \in Threads, FaultInvalidate(p)
        PROVE  /\ Pos(retired) <= Pos(retired')
               /\ retired' # retired => PassComes'
    <2>1. Pos(retired) <= Pos(retired')
      BY <1>29, AttachedKept, Distances DEF FaultInvalidate, Invalidate, InWindow
    <2>2. PassComes'
      BY <1>29 DEF FaultInvalidate, Goto, PassComes, TypeOK
    <2>3. QED
      BY <2>1, <2>2
  <1>30. CASE UNCHANGED vars
    <2>1. retired' = retired
      BY <1>30 DEF vars, gpuVars
    <2>2. QED
      BY <2>1, Distances
  <1>31. QED
    BY <1>1, <1>2, <1>3, <1>4, <1>5, <1>6, <1>7, <1>8, <1>9, <1>10, <1>11,
       <1>12, <1>13, <1>14, <1>15, <1>16, <1>17, <1>18, <1>19, <1>20, <1>21,
       <1>22, <1>23, <1>24, <1>25, <1>26, <1>27, <1>28, <1>29, <1>30
       DEF Next, Hwsched, Step

\* What a step can do to the event e.
EventMove(e) ==
    \/ est'[e] = est[e] /\ eres'[e] = eres[e]
       /\ ets'[e] = ets[e] /\ efunc'[e] = efunc[e]
    \/ est[e] = "free" /\ est'[e] = "init"
    \/ /\ est[e] = "init" /\ ets'[e] = ets[e] /\ efunc'[e] = efunc[e]
       /\ \/ est'[e] = "listed" /\ ~kgsl_check_timestamp(ets[e])
          \/ /\ est'[e] = "queued" /\ eres'[e] = "retired"
             /\ kgsl_check_timestamp(ets[e])
    \/ /\ est[e] = "listed" /\ est'[e] = "queued"
       /\ ets'[e] = ets[e] /\ efunc'[e] = efunc[e]
       /\ \/ eres'[e] = "cancelled"
          \/ eres'[e] = "retired" /\ timestamp_cmp(ets[e], retired) <= 0
    \/ est[e] = "queued" /\ est'[e] = "free"

\* Each step moves an event along its life, and says "retired" only after the
\* comparison.
LEMMA EventMoves ==
    ASSUME TypeOK, IInv, [Next]_vars
    PROVE  \A x \in Events : EventMove(x)
  <1>1. CASE Submit
    BY <1>1
       DEF Submit, kgsl_context_is_bad, gpuVars, ctxVars, groupVars,
           eventVars, threadVars, EventMove, TypeOK
  <1>2. CASE GpuRetire
    BY <1>2
       DEF GpuRetire, gpuVars, ctxVars, groupVars, eventVars, threadVars,
           EventMove, TypeOK
  <1>3. CASE HwschedWork
    BY <1>3
       DEF HwschedWork, gpuVars, ctxVars, groupVars, eventVars, threadVars,
           EventMove, TypeOK
  <1>4. CASE HwschedProcess
    <2>1. _process_event_group(FALSE) /\ UNCHANGED <<ets, efunc>>
      BY <1>4 DEF HwschedProcess
    <2>2. QED
      BY <2>1, ProcessOutcome DEF EventMove
  <1>5. CASE HwschedPut
    BY <1>5
       DEF HwschedPut, kgsl_context_put, gpuVars, ctxVars, groupVars,
           eventVars, threadVars, EventMove, TypeOK
  <1>6. ASSUME NEW e \in Events, _kgsl_event_worker(e)
        PROVE  \A x \in Events : EventMove(x)
    BY <1>6
       DEF _kgsl_event_worker, kgsl_context_put, WakeAll, gpuVars, ctxVars,
           groupVars, eventVars, threadVars, EventMove, TypeOK
  <1>7. ASSUME NEW p \in Threads, ContextPut(p)
        PROVE  \A x \in Events : EventMove(x)
    BY <1>7
       DEF ContextPut, kgsl_context_put, Goto, gpuVars, ctxVars, groupVars,
           eventVars, threadVars, EventMove, TypeOK
  <1>8. ASSUME NEW p \in Threads, RetireMarker(p)
        PROVE  \A x \in Events : EventMove(x)
    BY <1>8
       DEF RetireMarker, Goto, gpuVars, ctxVars, groupVars, eventVars,
           threadVars, EventMove, TypeOK
  <1>9. ASSUME NEW p \in Threads, MarkerProcess(p)
        PROVE  \A x \in Events : EventMove(x)
    <2>1. _process_event_group(FALSE) /\ UNCHANGED <<ets, efunc>>
      BY <1>9 DEF MarkerProcess
    <2>2. QED
      BY <2>1, ProcessOutcome DEF EventMove
  <1>10. ASSUME NEW p \in Threads, WaitCheck(p)
        PROVE  \A x \in Events : EventMove(x)
    BY <1>10
       DEF WaitCheck, Goto, gpuVars, ctxVars, groupVars, eventVars,
           threadVars, EventMove, TypeOK
  <1>11. ASSUME NEW p \in Threads, kgsl_add_event(p)
        PROVE  \A x \in Events : EventMove(x)
    BY <1>11
       DEF kgsl_add_event, Goto, gpuVars, ctxVars, groupVars, eventVars,
           threadVars, EventMove, TypeOK
  <1>12. ASSUME NEW p \in Threads, AddEventFails(p)
        PROVE  \A x \in Events : EventMove(x)
    BY <1>12
       DEF AddEventFails, Goto, gpuVars, ctxVars, groupVars, eventVars,
           threadVars, EventMove, TypeOK
  <1>13. ASSUME NEW p \in Threads, AddEventLocked(p)
        PROVE  \A x \in Events : EventMove(x)
    <2>1. ev[p] \in Events /\ est[ev[p]] = "init"
      BY <1>13 DEF AddEventLocked, IInv, EventsOwned
    <2>2. \A x \in Events : x # ev[p] => est'[x] = est[x] /\ eres'[x] = eres[x]
      BY <1>13, <2>1 DEF AddEventLocked, TypeOK
    <2>3. \/ est'[ev[p]] = "listed" /\ ~kgsl_check_timestamp(ets[ev[p]])
          \/ /\ est'[ev[p]] = "queued" /\ eres'[ev[p]] = "retired"
             /\ kgsl_check_timestamp(ets[ev[p]])
      BY <1>13, <2>1 DEF AddEventLocked, TypeOK
    <2>4. UNCHANGED <<ets, efunc>>
      BY <1>13 DEF AddEventLocked
    <2>5. QED
      BY <2>1, <2>2, <2>3, <2>4 DEF EventMove
  <1>14. ASSUME NEW p \in Threads, WaitWake(p)
        PROVE  \A x \in Events : EventMove(x)
    BY <1>14
       DEF WaitWake, Goto, gpuVars, ctxVars, groupVars, eventVars, threadVars,
           EventMove, TypeOK
  <1>15. ASSUME NEW p \in Threads, kgsl_cancel_event(p)
        PROVE  \A x \in Events : EventMove(x)
    BY <1>15
       DEF kgsl_cancel_event, Goto, CancelEvents, signal_event, Listed,
           gpuVars, ctxVars, groupVars, eventVars, threadVars, EventMove,
           TypeOK
  <1>16. ASSUME NEW p \in Threads, DetachInvalidate(p)
        PROVE  \A x \in Events : EventMove(x)
    BY <1>16
       DEF DetachInvalidate, Goto, Invalidate, gpuVars, ctxVars, groupVars,
           eventVars, threadVars, EventMove, TypeOK
  <1>17. ASSUME NEW p \in Threads, CancelQueued(p)
        PROVE  \A x \in Events : EventMove(x)
    BY <1>17
       DEF CancelQueued, Goto, CancelEvents, signal_event, Listed, gpuVars,
           ctxVars, groupVars, eventVars, threadVars, EventMove, TypeOK
  <1>18. ASSUME NEW p \in Threads, FlushEvents(p)
        PROVE  \A x \in Events : EventMove(x)
    <2>1. _process_event_group(TRUE) /\ UNCHANGED <<ets, efunc>>
      BY <1>18 DEF FlushEvents
    <2>2. QED
      BY <2>1, ProcessOutcome DEF EventMove
  <1>19. ASSUME NEW p \in Threads, InvalidateWake(p)
        PROVE  \A x \in Events : EventMove(x)
    BY <1>19
       DEF InvalidateWake, Goto, WakeAll, gpuVars, ctxVars, groupVars,
           eventVars, threadVars, EventMove, TypeOK
  <1>20. ASSUME NEW p \in Threads, DetachSet(p)
        PROVE  \A x \in Events : EventMove(x)
    BY <1>20
       DEF DetachSet, Goto, gpuVars, ctxVars, groupVars, eventVars,
           threadVars, EventMove, TypeOK
  <1>21. ASSUME NEW p \in Threads, DetachDebugfs(p)
        PROVE  \A x \in Events : EventMove(x)
    BY <1>21
       DEF DetachDebugfs, Goto, kgsl_context_put, gpuVars, ctxVars, groupVars,
           eventVars, threadVars, EventMove, TypeOK
  <1>22. ASSUME NEW p \in Threads, gen7_hwsched_context_detach(p)
        PROVE  \A x \in Events : EventMove(x)
    BY <1>22
       DEF gen7_hwsched_context_detach, Goto, gpuVars, ctxVars, groupVars,
           eventVars, threadVars, EventMove, TypeOK
  <1>23. ASSUME NEW p \in Threads, DetachWake(p)
        PROVE  \A x \in Events : EventMove(x)
    BY <1>23
       DEF DetachWake, Goto, WakeAll, gpuVars, ctxVars, groupVars, eventVars,
           threadVars, EventMove, TypeOK
  <1>24. ASSUME NEW p \in Threads, kgsl_cancel_events(p)
        PROVE  \A x \in Events : EventMove(x)
    BY <1>24
       DEF kgsl_cancel_events, Goto, CancelEvents, signal_event, Listed,
           gpuVars, ctxVars, groupVars, eventVars, threadVars, EventMove,
           TypeOK
  <1>25. ASSUME NEW p \in Threads, kgsl_del_event_group(p)
        PROVE  \A x \in Events : EventMove(x)
    BY <1>25
       DEF kgsl_del_event_group, Goto, gpuVars, ctxVars, groupVars, eventVars,
           threadVars, EventMove, TypeOK
  <1>26. ASSUME NEW p \in Threads, DetachPut(p)
        PROVE  \A x \in Events : EventMove(x)
    BY <1>26
       DEF DetachPut, Goto, kgsl_context_put, gpuVars, ctxVars, groupVars,
           eventVars, threadVars, EventMove, TypeOK
  <1>27. ASSUME NEW p \in Threads, kgsl_context_get(p)
        PROVE  \A x \in Events : EventMove(x)
    BY <1>27
       DEF kgsl_context_get, Goto, gpuVars, ctxVars, groupVars, eventVars,
           threadVars, EventMove, TypeOK
  <1>28. ASSUME NEW p \in Threads, WaitTimeout(p)
        PROVE  \A x \in Events : EventMove(x)
    BY <1>28
       DEF WaitTimeout, Goto, gpuVars, ctxVars, groupVars, eventVars,
           threadVars, EventMove, TypeOK
  <1>29. ASSUME NEW p \in Threads, FaultInvalidate(p)
        PROVE  \A x \in Events : EventMove(x)
    BY <1>29
       DEF FaultInvalidate, Goto, Invalidate, gpuVars, ctxVars, groupVars,
           eventVars, threadVars, EventMove, TypeOK
  <1>30. CASE UNCHANGED vars
    BY <1>30
       DEF vars, gpuVars, ctxVars, groupVars, eventVars, threadVars,
           EventMove, TypeOK
  <1>31. QED
    BY <1>1, <1>2, <1>3, <1>4, <1>5, <1>6, <1>7, <1>8, <1>9, <1>10, <1>11,
       <1>12, <1>13, <1>14, <1>15, <1>16, <1>17, <1>18, <1>19, <1>20, <1>21,
       <1>22, <1>23, <1>24, <1>25, <1>26, <1>27, <1>28, <1>29, <1>30
       DEF Next, Hwsched, Step

\* A bad context stays bad, and a detached one detached.
LEMMA BadStays ==
    ASSUME TypeOK, [Next]_vars
    PROVE  /\ kgsl_context_is_bad => kgsl_context_is_bad'
           /\ detached => detached'
  <1>1. CASE Submit
    BY <1>1
       DEF Submit, kgsl_context_is_bad, gpuVars, ctxVars, groupVars,
           eventVars, threadVars, TypeOK
  <1>2. CASE GpuRetire
    BY <1>2
       DEF GpuRetire, gpuVars, ctxVars, groupVars, eventVars, threadVars,
           kgsl_context_is_bad, TypeOK
  <1>3. CASE HwschedWork
    BY <1>3
       DEF HwschedWork, gpuVars, ctxVars, groupVars, eventVars, threadVars,
           kgsl_context_is_bad, TypeOK
  <1>4. CASE HwschedProcess
    BY <1>4
       DEF HwschedProcess, _process_event_group, signal_event, Listed,
           gpuVars, ctxVars, groupVars, eventVars, threadVars,
           kgsl_context_is_bad, TypeOK
  <1>5. CASE HwschedPut
    BY <1>5
       DEF HwschedPut, kgsl_context_put, gpuVars, ctxVars, groupVars,
           eventVars, threadVars, kgsl_context_is_bad, TypeOK
  <1>6. ASSUME NEW e \in Events, _kgsl_event_worker(e)
        PROVE  /\ kgsl_context_is_bad => kgsl_context_is_bad'
               /\ detached => detached'
    BY <1>6
       DEF _kgsl_event_worker, kgsl_context_put, WakeAll, gpuVars, ctxVars,
           groupVars, eventVars, threadVars, kgsl_context_is_bad, TypeOK
  <1>7. ASSUME NEW p \in Threads, ContextPut(p)
        PROVE  /\ kgsl_context_is_bad => kgsl_context_is_bad'
               /\ detached => detached'
    BY <1>7
       DEF ContextPut, kgsl_context_put, Goto, gpuVars, ctxVars, groupVars,
           eventVars, threadVars, kgsl_context_is_bad, TypeOK
  <1>8. ASSUME NEW p \in Threads, RetireMarker(p)
        PROVE  /\ kgsl_context_is_bad => kgsl_context_is_bad'
               /\ detached => detached'
    BY <1>8
       DEF RetireMarker, Goto, gpuVars, ctxVars, groupVars, eventVars,
           threadVars, kgsl_context_is_bad, TypeOK
  <1>9. ASSUME NEW p \in Threads, MarkerProcess(p)
        PROVE  /\ kgsl_context_is_bad => kgsl_context_is_bad'
               /\ detached => detached'
    BY <1>9
       DEF MarkerProcess, _process_event_group, signal_event, Listed, Goto,
           gpuVars, ctxVars, groupVars, eventVars, threadVars,
           kgsl_context_is_bad, TypeOK
  <1>10. ASSUME NEW p \in Threads, WaitCheck(p)
        PROVE  /\ kgsl_context_is_bad => kgsl_context_is_bad'
               /\ detached => detached'
    BY <1>10
       DEF WaitCheck, Goto, gpuVars, ctxVars, groupVars, eventVars,
           threadVars, kgsl_context_is_bad, TypeOK
  <1>11. ASSUME NEW p \in Threads, kgsl_add_event(p)
        PROVE  /\ kgsl_context_is_bad => kgsl_context_is_bad'
               /\ detached => detached'
    BY <1>11
       DEF kgsl_add_event, Goto, gpuVars, ctxVars, groupVars, eventVars,
           threadVars, kgsl_context_is_bad, TypeOK
  <1>12. ASSUME NEW p \in Threads, AddEventFails(p)
        PROVE  /\ kgsl_context_is_bad => kgsl_context_is_bad'
               /\ detached => detached'
    BY <1>12
       DEF AddEventFails, Goto, gpuVars, ctxVars, groupVars, eventVars,
           threadVars, kgsl_context_is_bad, TypeOK
  <1>13. ASSUME NEW p \in Threads, AddEventLocked(p)
        PROVE  /\ kgsl_context_is_bad => kgsl_context_is_bad'
               /\ detached => detached'
    BY <1>13
       DEF AddEventLocked, Goto, gpuVars, ctxVars, groupVars, eventVars,
           threadVars, kgsl_context_is_bad, TypeOK
  <1>14. ASSUME NEW p \in Threads, WaitWake(p)
        PROVE  /\ kgsl_context_is_bad => kgsl_context_is_bad'
               /\ detached => detached'
    BY <1>14
       DEF WaitWake, Goto, gpuVars, ctxVars, groupVars, eventVars, threadVars,
           kgsl_context_is_bad, TypeOK
  <1>15. ASSUME NEW p \in Threads, kgsl_cancel_event(p)
        PROVE  /\ kgsl_context_is_bad => kgsl_context_is_bad'
               /\ detached => detached'
    BY <1>15
       DEF kgsl_cancel_event, Goto, CancelEvents, signal_event, Listed,
           gpuVars, ctxVars, groupVars, eventVars, threadVars,
           kgsl_context_is_bad, TypeOK
  <1>16. ASSUME NEW p \in Threads, DetachInvalidate(p)
        PROVE  /\ kgsl_context_is_bad => kgsl_context_is_bad'
               /\ detached => detached'
    BY <1>16
       DEF DetachInvalidate, Goto, Invalidate, gpuVars, ctxVars, groupVars,
           eventVars, threadVars, kgsl_context_is_bad, TypeOK
  <1>17. ASSUME NEW p \in Threads, CancelQueued(p)
        PROVE  /\ kgsl_context_is_bad => kgsl_context_is_bad'
               /\ detached => detached'
    BY <1>17
       DEF CancelQueued, Goto, CancelEvents, signal_event, Listed, gpuVars,
           ctxVars, groupVars, eventVars, threadVars, kgsl_context_is_bad,
           TypeOK
  <1>18. ASSUME NEW p \in Threads, FlushEvents(p)
        PROVE  /\ kgsl_context_is_bad => kgsl_context_is_bad'
               /\ detached => detached'
    BY <1>18
       DEF FlushEvents, Goto, _process_event_group, signal_event, Listed,
           gpuVars, ctxVars, groupVars, eventVars, threadVars,
           kgsl_context_is_bad, TypeOK
  <1>19. ASSUME NEW p \in Threads, InvalidateWake(p)
        PROVE  /\ kgsl_context_is_bad => kgsl_context_is_bad'
               /\ detached => detached'
    BY <1>19
       DEF InvalidateWake, Goto, WakeAll, gpuVars, ctxVars, groupVars,
           eventVars, threadVars, kgsl_context_is_bad, TypeOK
  <1>20. ASSUME NEW p \in Threads, DetachSet(p)
        PROVE  /\ kgsl_context_is_bad => kgsl_context_is_bad'
               /\ detached => detached'
    BY <1>20
       DEF DetachSet, Goto, gpuVars, ctxVars, groupVars, eventVars,
           threadVars, kgsl_context_is_bad, TypeOK
  <1>21. ASSUME NEW p \in Threads, DetachDebugfs(p)
        PROVE  /\ kgsl_context_is_bad => kgsl_context_is_bad'
               /\ detached => detached'
    BY <1>21
       DEF DetachDebugfs, Goto, kgsl_context_put, gpuVars, ctxVars, groupVars,
           eventVars, threadVars, kgsl_context_is_bad, TypeOK
  <1>22. ASSUME NEW p \in Threads, gen7_hwsched_context_detach(p)
        PROVE  /\ kgsl_context_is_bad => kgsl_context_is_bad'
               /\ detached => detached'
    BY <1>22
       DEF gen7_hwsched_context_detach, Goto, gpuVars, ctxVars, groupVars,
           eventVars, threadVars, kgsl_context_is_bad, TypeOK
  <1>23. ASSUME NEW p \in Threads, DetachWake(p)
        PROVE  /\ kgsl_context_is_bad => kgsl_context_is_bad'
               /\ detached => detached'
    BY <1>23
       DEF DetachWake, Goto, WakeAll, gpuVars, ctxVars, groupVars, eventVars,
           threadVars, kgsl_context_is_bad, TypeOK
  <1>24. ASSUME NEW p \in Threads, kgsl_cancel_events(p)
        PROVE  /\ kgsl_context_is_bad => kgsl_context_is_bad'
               /\ detached => detached'
    BY <1>24
       DEF kgsl_cancel_events, Goto, CancelEvents, signal_event, Listed,
           gpuVars, ctxVars, groupVars, eventVars, threadVars,
           kgsl_context_is_bad, TypeOK
  <1>25. ASSUME NEW p \in Threads, kgsl_del_event_group(p)
        PROVE  /\ kgsl_context_is_bad => kgsl_context_is_bad'
               /\ detached => detached'
    BY <1>25
       DEF kgsl_del_event_group, Goto, gpuVars, ctxVars, groupVars, eventVars,
           threadVars, kgsl_context_is_bad, TypeOK
  <1>26. ASSUME NEW p \in Threads, DetachPut(p)
        PROVE  /\ kgsl_context_is_bad => kgsl_context_is_bad'
               /\ detached => detached'
    BY <1>26
       DEF DetachPut, Goto, kgsl_context_put, gpuVars, ctxVars, groupVars,
           eventVars, threadVars, kgsl_context_is_bad, TypeOK
  <1>27. ASSUME NEW p \in Threads, kgsl_context_get(p)
        PROVE  /\ kgsl_context_is_bad => kgsl_context_is_bad'
               /\ detached => detached'
    BY <1>27
       DEF kgsl_context_get, Goto, gpuVars, ctxVars, groupVars, eventVars,
           threadVars, kgsl_context_is_bad, TypeOK
  <1>28. ASSUME NEW p \in Threads, WaitTimeout(p)
        PROVE  /\ kgsl_context_is_bad => kgsl_context_is_bad'
               /\ detached => detached'
    BY <1>28
       DEF WaitTimeout, Goto, gpuVars, ctxVars, groupVars, eventVars,
           threadVars, kgsl_context_is_bad, TypeOK
  <1>29. ASSUME NEW p \in Threads, FaultInvalidate(p)
        PROVE  /\ kgsl_context_is_bad => kgsl_context_is_bad'
               /\ detached => detached'
    BY <1>29
       DEF FaultInvalidate, Goto, Invalidate, gpuVars, ctxVars, groupVars,
           eventVars, threadVars, kgsl_context_is_bad, TypeOK
  <1>30. CASE UNCHANGED vars
    BY <1>30
       DEF vars, gpuVars, ctxVars, groupVars, eventVars, threadVars,
           kgsl_context_is_bad, TypeOK
  <1>31. QED
    BY <1>1, <1>2, <1>3, <1>4, <1>5, <1>6, <1>7, <1>8, <1>9, <1>10, <1>11,
       <1>12, <1>13, <1>14, <1>15, <1>16, <1>17, <1>18, <1>19, <1>20, <1>21,
       <1>22, <1>23, <1>24, <1>25, <1>26, <1>27, <1>28, <1>29, <1>30
       DEF Next, Hwsched, Step

\* Every step keeps it that an event says "retired" only of what is.
LEMMA RetiredStep ==
    ASSUME TypeOK, IInv, InWindow, MemstoreFollowsGpu, RetiredByPos, [Next]_vars
    PROVE  RetiredByPos'
  <1> SUFFICES ASSUME ~kgsl_context_is_bad', NEW e \in Events,
                      est'[e] = "queued", eres'[e] = "retired"
               PROVE  Pos(ets'[e]) <= Pos(retired')
    BY DEF RetiredByPos
  <1>1. ~kgsl_context_is_bad /\ ~detached
    BY BadStays DEF kgsl_context_is_bad
  <1>2. Pos(retired) <= Pos(retired') /\ Pos(retired') \in Nat
    BY <1>1, RetiredForward, PosType, TypeStep DEF IInv, TypeOK
  <1>3. ref > 0 /\ retired \in Timestamp /\ ets[e] \in Timestamp
    BY <1>1, AttachedKept DEF TypeOK
  <1>4. EventMove(e)
    BY EventMoves
  <1>5. Pos(ets[e]) <= Pos(retired) /\ ets'[e] = ets[e]
    <2>1. CASE est[e] = "queued"
      BY <1>1, <1>4, <2>1 DEF EventMove, RetiredByPos
    <2>2. CASE est[e] # "queued"
      <3>1. Pos(ets[e]) < Window /\ Pos(retired) < Window
        BY <1>3, <1>4, <2>2, Distances DEF EventMove, InWindow
      <3>2. QED
        BY <1>3, <1>4, <2>2, <3>1, CmpByPos DEF EventMove, kgsl_check_timestamp
    <2>3. QED
      BY <2>1, <2>2
  <1>6. QED
    BY <1>2, <1>3, <1>5, Distances

\* Every step keeps a detach under way until the master reference is put.
LEMMA DetachUnderWayStep ==
    ASSUME TypeOK, IInv, DetachUnderWay, [Next]_vars
    PROVE  DetachUnderWay'
  <1>1. CASE Submit
    BY <1>1
       DEF Submit, kgsl_context_is_bad, gpuVars, ctxVars, groupVars,
           eventVars, threadVars, DetachUnderWay, DetachPCs, IInv,
           DetachedOnce, TypeOK
  <1>2. CASE GpuRetire
    BY <1>2
       DEF GpuRetire, gpuVars, ctxVars, groupVars, eventVars, threadVars,
           DetachUnderWay, DetachPCs, IInv, DetachedOnce, TypeOK
  <1>3. CASE HwschedWork
    BY <1>3
       DEF HwschedWork, gpuVars, ctxVars, groupVars, eventVars, threadVars,
           DetachUnderWay, DetachPCs, IInv, DetachedOnce, TypeOK
  <1>4. CASE HwschedProcess
    BY <1>4
       DEF HwschedProcess, _process_event_group, signal_event, Listed,
           gpuVars, ctxVars, groupVars, eventVars, threadVars, DetachUnderWay,
           DetachPCs, IInv, DetachedOnce, TypeOK
  <1>5. CASE HwschedPut
    BY <1>5
       DEF HwschedPut, kgsl_context_put, gpuVars, ctxVars, groupVars,
           eventVars, threadVars, DetachUnderWay, DetachPCs, IInv,
           DetachedOnce, TypeOK
  <1>6. ASSUME NEW e \in Events, _kgsl_event_worker(e)
        PROVE  DetachUnderWay'
    BY <1>6
       DEF _kgsl_event_worker, kgsl_context_put, WakeAll, gpuVars, ctxVars,
           groupVars, eventVars, threadVars, DetachUnderWay, DetachPCs, IInv,
           DetachedOnce, TypeOK
  <1>7. ASSUME NEW p \in Threads, ContextPut(p)
        PROVE  DetachUnderWay'
    BY <1>7
       DEF ContextPut, kgsl_context_put, Goto, gpuVars, ctxVars, groupVars,
           eventVars, threadVars, DetachUnderWay, DetachPCs, IInv,
           DetachedOnce, TypeOK
  <1>8. ASSUME NEW p \in Threads, RetireMarker(p)
        PROVE  DetachUnderWay'
    BY <1>8
       DEF RetireMarker, Goto, gpuVars, ctxVars, groupVars, eventVars,
           threadVars, DetachUnderWay, DetachPCs, IInv, DetachedOnce, TypeOK
  <1>9. ASSUME NEW p \in Threads, MarkerProcess(p)
        PROVE  DetachUnderWay'
    BY <1>9
       DEF MarkerProcess, _process_event_group, signal_event, Listed, Goto,
           gpuVars, ctxVars, groupVars, eventVars, threadVars, DetachUnderWay,
           DetachPCs, IInv, DetachedOnce, TypeOK
  <1>10. ASSUME NEW p \in Threads, WaitCheck(p)
        PROVE  DetachUnderWay'
    BY <1>10
       DEF WaitCheck, Goto, gpuVars, ctxVars, groupVars, eventVars,
           threadVars, DetachUnderWay, DetachPCs, IInv, DetachedOnce, TypeOK
  <1>11. ASSUME NEW p \in Threads, kgsl_add_event(p)
        PROVE  DetachUnderWay'
    BY <1>11
       DEF kgsl_add_event, Goto, gpuVars, ctxVars, groupVars, eventVars,
           threadVars, DetachUnderWay, DetachPCs, IInv, DetachedOnce, TypeOK
  <1>12. ASSUME NEW p \in Threads, AddEventFails(p)
        PROVE  DetachUnderWay'
    BY <1>12
       DEF AddEventFails, Goto, gpuVars, ctxVars, groupVars, eventVars,
           threadVars, DetachUnderWay, DetachPCs, IInv, DetachedOnce, TypeOK
  <1>13. ASSUME NEW p \in Threads, AddEventLocked(p)
        PROVE  DetachUnderWay'
    BY <1>13
       DEF AddEventLocked, Goto, gpuVars, ctxVars, groupVars, eventVars,
           threadVars, DetachUnderWay, DetachPCs, IInv, DetachedOnce, TypeOK
  <1>14. ASSUME NEW p \in Threads, WaitWake(p)
        PROVE  DetachUnderWay'
    BY <1>14
       DEF WaitWake, Goto, gpuVars, ctxVars, groupVars, eventVars, threadVars,
           DetachUnderWay, DetachPCs, IInv, DetachedOnce, TypeOK
  <1>15. ASSUME NEW p \in Threads, kgsl_cancel_event(p)
        PROVE  DetachUnderWay'
    BY <1>15
       DEF kgsl_cancel_event, Goto, CancelEvents, signal_event, Listed,
           gpuVars, ctxVars, groupVars, eventVars, threadVars, DetachUnderWay,
           DetachPCs, IInv, DetachedOnce, TypeOK
  <1>16. ASSUME NEW p \in Threads, DetachInvalidate(p)
        PROVE  DetachUnderWay'
    BY <1>16
       DEF DetachInvalidate, Goto, Invalidate, gpuVars, ctxVars, groupVars,
           eventVars, threadVars, DetachUnderWay, DetachPCs, IInv,
           DetachedOnce, TypeOK
  <1>17. ASSUME NEW p \in Threads, CancelQueued(p)
        PROVE  DetachUnderWay'
    BY <1>17
       DEF CancelQueued, Goto, CancelEvents, signal_event, Listed, gpuVars,
           ctxVars, groupVars, eventVars, threadVars, DetachUnderWay,
           DetachPCs, IInv, DetachedOnce, TypeOK
  <1>18. ASSUME NEW p \in Threads, FlushEvents(p)
        PROVE  DetachUnderWay'
    BY <1>18
       DEF FlushEvents, Goto, _process_event_group, signal_event, Listed,
           gpuVars, ctxVars, groupVars, eventVars, threadVars, DetachUnderWay,
           DetachPCs, IInv, DetachedOnce, TypeOK
  <1>19. ASSUME NEW p \in Threads, InvalidateWake(p)
        PROVE  DetachUnderWay'
    BY <1>19
       DEF InvalidateWake, Goto, WakeAll, gpuVars, ctxVars, groupVars,
           eventVars, threadVars, DetachUnderWay, DetachPCs, IInv,
           DetachedOnce, TypeOK
  <1>20. ASSUME NEW p \in Threads, DetachSet(p)
        PROVE  DetachUnderWay'
    BY <1>20
       DEF DetachSet, Goto, gpuVars, ctxVars, groupVars, eventVars,
           threadVars, DetachUnderWay, DetachPCs, IInv, DetachedOnce, TypeOK
  <1>21. ASSUME NEW p \in Threads, DetachDebugfs(p)
        PROVE  DetachUnderWay'
    BY <1>21
       DEF DetachDebugfs, Goto, kgsl_context_put, gpuVars, ctxVars, groupVars,
           eventVars, threadVars, DetachUnderWay, DetachPCs, IInv,
           DetachedOnce, TypeOK
  <1>22. ASSUME NEW p \in Threads, gen7_hwsched_context_detach(p)
        PROVE  DetachUnderWay'
    BY <1>22
       DEF gen7_hwsched_context_detach, Goto, gpuVars, ctxVars, groupVars,
           eventVars, threadVars, DetachUnderWay, DetachPCs, IInv,
           DetachedOnce, TypeOK
  <1>23. ASSUME NEW p \in Threads, DetachWake(p)
        PROVE  DetachUnderWay'
    BY <1>23
       DEF DetachWake, Goto, WakeAll, gpuVars, ctxVars, groupVars, eventVars,
           threadVars, DetachUnderWay, DetachPCs, IInv, DetachedOnce, TypeOK
  <1>24. ASSUME NEW p \in Threads, kgsl_cancel_events(p)
        PROVE  DetachUnderWay'
    BY <1>24
       DEF kgsl_cancel_events, Goto, CancelEvents, signal_event, Listed,
           gpuVars, ctxVars, groupVars, eventVars, threadVars, DetachUnderWay,
           DetachPCs, IInv, DetachedOnce, TypeOK
  <1>25. ASSUME NEW p \in Threads, kgsl_del_event_group(p)
        PROVE  DetachUnderWay'
    BY <1>25
       DEF kgsl_del_event_group, Goto, gpuVars, ctxVars, groupVars, eventVars,
           threadVars, DetachUnderWay, DetachPCs, IInv, DetachedOnce, TypeOK
  <1>26. ASSUME NEW p \in Threads, DetachPut(p)
        PROVE  DetachUnderWay'
    BY <1>26
       DEF DetachPut, Goto, kgsl_context_put, gpuVars, ctxVars, groupVars,
           eventVars, threadVars, DetachUnderWay, DetachPCs, IInv,
           DetachedOnce, TypeOK
  <1>27. ASSUME NEW p \in Threads, kgsl_context_get(p)
        PROVE  DetachUnderWay'
    BY <1>27
       DEF kgsl_context_get, Goto, gpuVars, ctxVars, groupVars, eventVars,
           threadVars, DetachUnderWay, DetachPCs, IInv, DetachedOnce, TypeOK
  <1>28. ASSUME NEW p \in Threads, WaitTimeout(p)
        PROVE  DetachUnderWay'
    BY <1>28
       DEF WaitTimeout, Goto, gpuVars, ctxVars, groupVars, eventVars,
           threadVars, DetachUnderWay, DetachPCs, IInv, DetachedOnce, TypeOK
  <1>29. ASSUME NEW p \in Threads, FaultInvalidate(p)
        PROVE  DetachUnderWay'
    BY <1>29
       DEF FaultInvalidate, Goto, Invalidate, gpuVars, ctxVars, groupVars,
           eventVars, threadVars, DetachUnderWay, DetachPCs, IInv,
           DetachedOnce, TypeOK
  <1>30. CASE UNCHANGED vars
    BY <1>30
       DEF vars, gpuVars, ctxVars, groupVars, eventVars, threadVars,
           DetachUnderWay, DetachPCs, IInv, DetachedOnce, TypeOK
  <1>31. QED
    BY <1>1, <1>2, <1>3, <1>4, <1>5, <1>6, <1>7, <1>8, <1>9, <1>10, <1>11,
       <1>12, <1>13, <1>14, <1>15, <1>16, <1>17, <1>18, <1>19, <1>20, <1>21,
       <1>22, <1>23, <1>24, <1>25, <1>26, <1>27, <1>28, <1>29, <1>30
       DEF Next, Hwsched, Step

\* Every step keeps the event of a waiter the one it asked for.
LEMMA WaitersEventStep ==
    ASSUME TypeOK, IInv, WaitersEvent, [Next]_vars
    PROVE  WaitersEvent'
  <1>1. CASE Submit
    BY <1>1
       DEF Submit, kgsl_context_is_bad, gpuVars, ctxVars, groupVars,
           eventVars, threadVars, WaitersEvent, IInv, EventsOwned, TypeOK
  <1>2. CASE GpuRetire
    BY <1>2
       DEF GpuRetire, gpuVars, ctxVars, groupVars, eventVars, threadVars,
           WaitersEvent, IInv, EventsOwned, TypeOK
  <1>3. CASE HwschedWork
    BY <1>3
       DEF HwschedWork, gpuVars, ctxVars, groupVars, eventVars, threadVars,
           WaitersEvent, IInv, EventsOwned, TypeOK
  <1>4. CASE HwschedProcess
    BY <1>4
       DEF HwschedProcess, _process_event_group, signal_event, Listed,
           gpuVars, ctxVars, groupVars, eventVars, threadVars, WaitersEvent,
           IInv, EventsOwned, TypeOK
  <1>5. CASE HwschedPut
    BY <1>5
       DEF HwschedPut, kgsl_context_put, gpuVars, ctxVars, groupVars,
           eventVars, threadVars, WaitersEvent, IInv, EventsOwned, TypeOK
  <1>6. ASSUME NEW e \in Events, _kgsl_event_worker(e)
        PROVE  WaitersEvent'
    BY <1>6
       DEF _kgsl_event_worker, kgsl_context_put, WakeAll, gpuVars, ctxVars,
           groupVars, eventVars, threadVars, WaitersEvent, IInv, EventsOwned,
           TypeOK
  <1>7. ASSUME NEW p \in Threads, ContextPut(p)
        PROVE  WaitersEvent'
    BY <1>7
       DEF ContextPut, kgsl_context_put, Goto, gpuVars, ctxVars, groupVars,
           eventVars, threadVars, WaitersEvent, IInv, EventsOwned, TypeOK
  <1>8. ASSUME NEW p \in Threads, RetireMarker(p)
        PROVE  WaitersEvent'
    BY <1>8
       DEF RetireMarker, Goto, gpuVars, ctxVars, groupVars, eventVars,
           threadVars, WaitersEvent, IInv, EventsOwned, TypeOK
  <1>9. ASSUME NEW p \in Threads, MarkerProcess(p)
        PROVE  WaitersEvent'
    BY <1>9
       DEF MarkerProcess, _process_event_group, signal_event, Listed, Goto,
           gpuVars, ctxVars, groupVars, eventVars, threadVars, WaitersEvent,
           IInv, EventsOwned, TypeOK
  <1>10. ASSUME NEW p \in Threads, WaitCheck(p)
        PROVE  WaitersEvent'
    BY <1>10
       DEF WaitCheck, Goto, gpuVars, ctxVars, groupVars, eventVars,
           threadVars, WaitersEvent, IInv, EventsOwned, TypeOK
  <1>11. ASSUME NEW p \in Threads, kgsl_add_event(p)
        PROVE  WaitersEvent'
    BY <1>11
       DEF kgsl_add_event, Goto, gpuVars, ctxVars, groupVars, eventVars,
           threadVars, WaitersEvent, IInv, EventsOwned, TypeOK
  <1>12. ASSUME NEW p \in Threads, AddEventFails(p)
        PROVE  WaitersEvent'
    BY <1>12
       DEF AddEventFails, Goto, gpuVars, ctxVars, groupVars, eventVars,
           threadVars, WaitersEvent, IInv, EventsOwned, TypeOK
  <1>13. ASSUME NEW p \in Threads, AddEventLocked(p)
        PROVE  WaitersEvent'
    BY <1>13
       DEF AddEventLocked, Goto, gpuVars, ctxVars, groupVars, eventVars,
           threadVars, WaitersEvent, IInv, EventsOwned, TypeOK
  <1>14. ASSUME NEW p \in Threads, WaitWake(p)
        PROVE  WaitersEvent'
    BY <1>14
       DEF WaitWake, Goto, gpuVars, ctxVars, groupVars, eventVars, threadVars,
           WaitersEvent, IInv, EventsOwned, TypeOK
  <1>15. ASSUME NEW p \in Threads, kgsl_cancel_event(p)
        PROVE  WaitersEvent'
    BY <1>15
       DEF kgsl_cancel_event, Goto, CancelEvents, signal_event, Listed,
           gpuVars, ctxVars, groupVars, eventVars, threadVars, WaitersEvent,
           IInv, EventsOwned, TypeOK
  <1>16. ASSUME NEW p \in Threads, DetachInvalidate(p)
        PROVE  WaitersEvent'
    BY <1>16
       DEF DetachInvalidate, Goto, Invalidate, gpuVars, ctxVars, groupVars,
           eventVars, threadVars, WaitersEvent, IInv, EventsOwned, TypeOK
  <1>17. ASSUME NEW p \in Threads, CancelQueued(p)
        PROVE  WaitersEvent'
    BY <1>17
       DEF CancelQueued, Goto, CancelEvents, signal_event, Listed, gpuVars,
           ctxVars, groupVars, eventVars, threadVars, WaitersEvent, IInv,
           EventsOwned, TypeOK
  <1>18. ASSUME NEW p \in Threads, FlushEvents(p)
        PROVE  WaitersEvent'
    BY <1>18
       DEF FlushEvents, Goto, _process_event_group, signal_event, Listed,
           gpuVars, ctxVars, groupVars, eventVars, threadVars, WaitersEvent,
           IInv, EventsOwned, TypeOK
  <1>19. ASSUME NEW p \in Threads, InvalidateWake(p)
        PROVE  WaitersEvent'
    BY <1>19
       DEF InvalidateWake, Goto, WakeAll, gpuVars, ctxVars, groupVars,
           eventVars, threadVars, WaitersEvent, IInv, EventsOwned, TypeOK
  <1>20. ASSUME NEW p \in Threads, DetachSet(p)
        PROVE  WaitersEvent'
    BY <1>20
       DEF DetachSet, Goto, gpuVars, ctxVars, groupVars, eventVars,
           threadVars, WaitersEvent, IInv, EventsOwned, TypeOK
  <1>21. ASSUME NEW p \in Threads, DetachDebugfs(p)
        PROVE  WaitersEvent'
    BY <1>21
       DEF DetachDebugfs, Goto, kgsl_context_put, gpuVars, ctxVars, groupVars,
           eventVars, threadVars, WaitersEvent, IInv, EventsOwned, TypeOK
  <1>22. ASSUME NEW p \in Threads, gen7_hwsched_context_detach(p)
        PROVE  WaitersEvent'
    BY <1>22
       DEF gen7_hwsched_context_detach, Goto, gpuVars, ctxVars, groupVars,
           eventVars, threadVars, WaitersEvent, IInv, EventsOwned, TypeOK
  <1>23. ASSUME NEW p \in Threads, DetachWake(p)
        PROVE  WaitersEvent'
    BY <1>23
       DEF DetachWake, Goto, WakeAll, gpuVars, ctxVars, groupVars, eventVars,
           threadVars, WaitersEvent, IInv, EventsOwned, TypeOK
  <1>24. ASSUME NEW p \in Threads, kgsl_cancel_events(p)
        PROVE  WaitersEvent'
    BY <1>24
       DEF kgsl_cancel_events, Goto, CancelEvents, signal_event, Listed,
           gpuVars, ctxVars, groupVars, eventVars, threadVars, WaitersEvent,
           IInv, EventsOwned, TypeOK
  <1>25. ASSUME NEW p \in Threads, kgsl_del_event_group(p)
        PROVE  WaitersEvent'
    BY <1>25
       DEF kgsl_del_event_group, Goto, gpuVars, ctxVars, groupVars, eventVars,
           threadVars, WaitersEvent, IInv, EventsOwned, TypeOK
  <1>26. ASSUME NEW p \in Threads, DetachPut(p)
        PROVE  WaitersEvent'
    BY <1>26
       DEF DetachPut, Goto, kgsl_context_put, gpuVars, ctxVars, groupVars,
           eventVars, threadVars, WaitersEvent, IInv, EventsOwned, TypeOK
  <1>27. ASSUME NEW p \in Threads, kgsl_context_get(p)
        PROVE  WaitersEvent'
    BY <1>27
       DEF kgsl_context_get, Goto, gpuVars, ctxVars, groupVars, eventVars,
           threadVars, WaitersEvent, IInv, EventsOwned, TypeOK
  <1>28. ASSUME NEW p \in Threads, WaitTimeout(p)
        PROVE  WaitersEvent'
    BY <1>28
       DEF WaitTimeout, Goto, gpuVars, ctxVars, groupVars, eventVars,
           threadVars, WaitersEvent, IInv, EventsOwned, TypeOK
  <1>29. ASSUME NEW p \in Threads, FaultInvalidate(p)
        PROVE  WaitersEvent'
    BY <1>29
       DEF FaultInvalidate, Goto, Invalidate, gpuVars, ctxVars, groupVars,
           eventVars, threadVars, WaitersEvent, IInv, EventsOwned, TypeOK
  <1>30. CASE UNCHANGED vars
    BY <1>30
       DEF vars, gpuVars, ctxVars, groupVars, eventVars, threadVars,
           WaitersEvent, IInv, EventsOwned, TypeOK
  <1>31. QED
    BY <1>1, <1>2, <1>3, <1>4, <1>5, <1>6, <1>7, <1>8, <1>9, <1>10, <1>11,
       <1>12, <1>13, <1>14, <1>15, <1>16, <1>17, <1>18, <1>19, <1>20, <1>21,
       <1>22, <1>23, <1>24, <1>25, <1>26, <1>27, <1>28, <1>29, <1>30
       DEF Next, Hwsched, Step

\* A pass over the group leaves no due event on the list.
LEMMA PassClears ==
    ASSUME TypeOK, InWindow, ref > 0, ListedAhead, ~detached,
           NEW flush \in BOOLEAN, _process_event_group(flush)
    PROVE  /\ processed' = retired
           /\ \A e \in Events : est'[e] = "listed" =>
                est[e] = "listed" /\ Pos(retired) < Pos(ets[e])
  <1>1. retired \in Timestamp /\ processed \in Timestamp /\ ets \in [Events -> Timestamp]
    BY DEF TypeOK
  <1>2. ASSUME NEW e \in Events, est[e] = "listed"
        PROVE  timestamp_cmp(ets[e], retired) <= 0 <=> Pos(ets[e]) <= Pos(retired)
    BY <1>1, <1>2, CmpByPos, Distances DEF InWindow
  <1>3. CASE flush \/ _do_process_group(processed, retired)
    BY <1>1, <1>2, <1>3, Distances
       DEF _process_event_group, signal_event, Listed, TypeOK
  <1>4. CASE ~flush /\ ~_do_process_group(processed, retired)
    <2>1. processed = retired
      BY <1>1, <1>4, SkippedIsSame, Distances DEF ListedAhead
    <2>2. UNCHANGED <<est, processed>>
      BY <1>4 DEF _process_event_group
    <2>3. QED
      BY <2>1, <2>2 DEF ListedAhead
  <1>5. QED
    BY <1>3, <1>4

\* The memstore keeps holding a timestamp.
LEMMA RetiredNext ==
    ASSUME TypeOK, IInv, [Next]_vars
    PROVE  Pos(retired') \in Nat
  BY TypeStep, PosType DEF IInv, TypeOK

\* Every step keeps the listed events of an attached context beyond what was
\* processed.
LEMMA AheadStep ==
    ASSUME TypeOK, IInv, InWindow, MemstoreFollowsGpu, ListedAhead,
           [Next]_vars
    PROVE  ListedAhead'
  <1>1. CASE Submit
    <2>1. processed' = processed
      BY <1>1 DEF Submit, gpuVars, ctxVars, groupVars, eventVars, threadVars
    <2>2. \A x \in Events : est'[x] = "listed" => est[x] = "listed" /\ ets'[x] = ets[x]
      BY <1>1 DEF Submit, eventVars, TypeOK
    <2>3. QED
      BY <2>1, <2>2, RetiredForward, BadStays, Distances, RetiredNext DEF ListedAhead
  <1>2. CASE GpuRetire
    <2>1. processed' = processed
      BY <1>2 DEF GpuRetire, gpuVars, ctxVars, groupVars, eventVars, threadVars
    <2>2. \A x \in Events : est'[x] = "listed" => est[x] = "listed" /\ ets'[x] = ets[x]
      BY <1>2 DEF GpuRetire, eventVars, TypeOK
    <2>3. QED
      BY <2>1, <2>2, RetiredForward, BadStays, Distances, RetiredNext DEF ListedAhead
  <1>3. CASE HwschedWork
    <2>1. processed' = processed
      BY <1>3 DEF HwschedWork, gpuVars, ctxVars, groupVars, eventVars, threadVars
    <2>2. \A x \in Events : est'[x] = "listed" => est[x] = "listed" /\ ets'[x] = ets[x]
      BY <1>3 DEF HwschedWork, eventVars, TypeOK
    <2>3. QED
      BY <2>1, <2>2, RetiredForward, BadStays, Distances, RetiredNext DEF ListedAhead
  <1>4. CASE HwschedProcess
    <2>1. _process_event_group(FALSE) /\ ref > 0
      BY <1>4, UsersHoldContext DEF HwschedProcess, IInv
    <2>2. UNCHANGED <<retired, ets, detached>>
      BY <1>4 DEF HwschedProcess, gpuVars, ctxVars
    <2>3. ASSUME ~detached
          PROVE  /\ processed' = retired
                 /\ \A x \in Events : est'[x] = "listed" =>
                      est[x] = "listed" /\ Pos(retired) < Pos(ets[x])
      BY <2>1, <2>3, PassClears
    <2>4. QED
      BY <2>2, <2>3, Distances DEF ListedAhead
  <1>5. CASE HwschedPut
    <2>1. processed' = processed
      BY <1>5 DEF HwschedPut, gpuVars, ctxVars, groupVars, eventVars, threadVars
    <2>2. \A x \in Events : est'[x] = "listed" => est[x] = "listed" /\ ets'[x] = ets[x]
      BY <1>5 DEF HwschedPut, eventVars, TypeOK
    <2>3. QED
      BY <2>1, <2>2, RetiredForward, BadStays, Distances, RetiredNext DEF ListedAhead
  <1>6. ASSUME NEW e \in Events, _kgsl_event_worker(e)
        PROVE  ListedAhead'
    <2>1. processed' = processed
      BY <1>6 DEF _kgsl_event_worker, gpuVars, ctxVars, groupVars, eventVars, threadVars
    <2>2. \A x \in Events : est'[x] = "listed" => est[x] = "listed" /\ ets'[x] = ets[x]
      BY <1>6 DEF _kgsl_event_worker, eventVars, TypeOK
    <2>3. QED
      BY <2>1, <2>2, RetiredForward, BadStays, Distances, RetiredNext DEF ListedAhead
  <1>7. ASSUME NEW p \in Threads, ContextPut(p)
        PROVE  ListedAhead'
    <2>1. processed' = processed
      BY <1>7 DEF ContextPut, gpuVars, ctxVars, groupVars, eventVars, threadVars
    <2>2. \A x \in Events : est'[x] = "listed" => est[x] = "listed" /\ ets'[x] = ets[x]
      BY <1>7 DEF ContextPut, eventVars, TypeOK
    <2>3. QED
      BY <2>1, <2>2, RetiredForward, BadStays, Distances, RetiredNext DEF ListedAhead
  <1>8. ASSUME NEW p \in Threads, RetireMarker(p)
        PROVE  ListedAhead'
    <2>1. processed' = processed
      BY <1>8 DEF RetireMarker, gpuVars, ctxVars, groupVars, eventVars, threadVars
    <2>2. \A x \in Events : est'[x] = "listed" => est[x] = "listed" /\ ets'[x] = ets[x]
      BY <1>8 DEF RetireMarker, eventVars, TypeOK
    <2>3. QED
      BY <2>1, <2>2, RetiredForward, BadStays, Distances, RetiredNext DEF ListedAhead
  <1>9. ASSUME NEW p \in Threads, MarkerProcess(p)
        PROVE  ListedAhead'
    <2>1. _process_event_group(FALSE) /\ ref > 0
      BY <1>9, UsersHoldContext DEF MarkerProcess, IInv
    <2>2. UNCHANGED <<retired, ets, detached>>
      BY <1>9 DEF MarkerProcess, gpuVars, ctxVars
    <2>3. ASSUME ~detached
          PROVE  /\ processed' = retired
                 /\ \A x \in Events : est'[x] = "listed" =>
                      est[x] = "listed" /\ Pos(retired) < Pos(ets[x])
      BY <2>1, <2>3, PassClears
    <2>4. QED
      BY <2>2, <2>3, Distances DEF ListedAhead
  <1>10. ASSUME NEW p \in Threads, WaitCheck(p)
        PROVE  ListedAhead'
    <2>1. processed' = processed
      BY <1>10 DEF WaitCheck, gpuVars, ctxVars, groupVars, eventVars, threadVars
    <2>2. \A x \in Events : est'[x] = "listed" => est[x] = "listed" /\ ets'[x] = ets[x]
      BY <1>10 DEF WaitCheck, eventVars, TypeOK
    <2>3. QED
      BY <2>1, <2>2, RetiredForward, BadStays, Distances, RetiredNext DEF ListedAhead
  <1>11. ASSUME NEW p \in Threads, kgsl_add_event(p)
        PROVE  ListedAhead'
    <2>1. processed' = processed
      BY <1>11 DEF kgsl_add_event, gpuVars, ctxVars, groupVars, eventVars, threadVars
    <2>2. \A x \in Events : est'[x] = "listed" => est[x] = "listed" /\ ets'[x] = ets[x]
      BY <1>11 DEF kgsl_add_event, eventVars, TypeOK
    <2>3. QED
      BY <2>1, <2>2, RetiredForward, BadStays, Distances, RetiredNext DEF ListedAhead
  <1>12. ASSUME NEW p \in Threads, AddEventFails(p)
        PROVE  ListedAhead'
    <2>1. processed' = processed
      BY <1>12 DEF AddEventFails, gpuVars, ctxVars, groupVars, eventVars, threadVars
    <2>2. \A x \in Events : est'[x] = "listed" => est[x] = "listed" /\ ets'[x] = ets[x]
      BY <1>12 DEF AddEventFails, eventVars, TypeOK
    <2>3. QED
      BY <2>1, <2>2, RetiredForward, BadStays, Distances, RetiredNext DEF ListedAhead
  <1>13. ASSUME NEW p \in Threads, AddEventLocked(p)
        PROVE  ListedAhead'
    <2>1. UNCHANGED <<retired, processed, detached>>
      BY <1>13 DEF AddEventLocked, gpuVars, ctxVars, groupVars
    <2>2. ASSUME ~detached, NEW x \in Events, est'[x] = "listed"
          PROVE  Pos(processed) < Pos(ets'[x])
      <3>1. EventMove(x) /\ ref > 0 /\ ets[x] \in Timestamp /\ retired \in Timestamp
        BY <2>2, EventMoves, AttachedKept DEF TypeOK
      <3>2. CASE est[x] = "listed"
        BY <2>2, <3>1, <3>2 DEF EventMove, ListedAhead
      <3>3. CASE est[x] # "listed"
        <4>1. est[x] = "init" /\ ~kgsl_check_timestamp(ets[x]) /\ ets'[x] = ets[x]
          BY <2>2, <3>1, <3>3 DEF EventMove
        <4>2. Pos(retired) < Pos(ets[x])
          BY <3>1, <4>1, CmpByPos, Distances DEF InWindow, kgsl_check_timestamp
        <4>3. QED
          BY <2>2, <4>1, <4>2, Distances DEF ListedAhead
      <3>4. QED
        BY <3>2, <3>3
    <2>3. QED
      BY <2>1, <2>2 DEF ListedAhead
  <1>14. ASSUME NEW p \in Threads, WaitWake(p)
        PROVE  ListedAhead'
    <2>1. processed' = processed
      BY <1>14 DEF WaitWake, gpuVars, ctxVars, groupVars, eventVars, threadVars
    <2>2. \A x \in Events : est'[x] = "listed" => est[x] = "listed" /\ ets'[x] = ets[x]
      BY <1>14 DEF WaitWake, eventVars, TypeOK
    <2>3. QED
      BY <2>1, <2>2, RetiredForward, BadStays, Distances, RetiredNext DEF ListedAhead
  <1>15. ASSUME NEW p \in Threads, kgsl_cancel_event(p)
        PROVE  ListedAhead'
    <2>1. processed' = processed
      BY <1>15 DEF kgsl_cancel_event, gpuVars, ctxVars, groupVars, eventVars, threadVars
    <2>2. \A x \in Events : est'[x] = "listed" => est[x] = "listed" /\ ets'[x] = ets[x]
      BY <1>15 DEF kgsl_cancel_event, CancelEvents, signal_event, Listed, eventVars, TypeOK
    <2>3. QED
      BY <2>1, <2>2, RetiredForward, BadStays, Distances, RetiredNext DEF ListedAhead
  <1>16. ASSUME NEW p \in Threads, DetachInvalidate(p)
        PROVE  ListedAhead'
    <2>1. processed' = processed
      BY <1>16 DEF DetachInvalidate, gpuVars, ctxVars, groupVars, eventVars, threadVars
    <2>2. \A x \in Events : est'[x] = "listed" => est[x] = "listed" /\ ets'[x] = ets[x]
      BY <1>16 DEF DetachInvalidate, eventVars, TypeOK
    <2>3. QED
      BY <2>1, <2>2, RetiredForward, BadStays, Distances, RetiredNext DEF ListedAhead
  <1>17. ASSUME NEW p \in Threads, CancelQueued(p)
        PROVE  ListedAhead'
    <2>1. processed' = processed
      BY <1>17 DEF CancelQueued, gpuVars, ctxVars, groupVars, eventVars, threadVars
    <2>2. \A x \in Events : est'[x] = "listed" => est[x] = "listed" /\ ets'[x] = ets[x]
      BY <1>17 DEF CancelQueued, CancelEvents, signal_event, Listed, eventVars, TypeOK
    <2>3. QED
      BY <2>1, <2>2, RetiredForward, BadStays, Distances, RetiredNext DEF ListedAhead
  <1>18. ASSUME NEW p \in Threads, FlushEvents(p)
        PROVE  ListedAhead'
    <2>1. _process_event_group(TRUE) /\ ref > 0
      BY <1>18, UsersHoldContext DEF FlushEvents, IInv
    <2>2. UNCHANGED <<retired, ets, detached>>
      BY <1>18 DEF FlushEvents, gpuVars, ctxVars
    <2>3. ASSUME ~detached
          PROVE  /\ processed' = retired
                 /\ \A x \in Events : est'[x] = "listed" =>
                      est[x] = "listed" /\ Pos(retired) < Pos(ets[x])
      BY <2>1, <2>3, PassClears
    <2>4. QED
      BY <2>2, <2>3, Distances DEF ListedAhead
  <1>19. ASSUME NEW p \in Threads, InvalidateWake(p)
        PROVE  ListedAhead'
    <2>1. processed' = processed
      BY <1>19 DEF InvalidateWake, gpuVars, ctxVars, groupVars, eventVars, threadVars
    <2>2. \A x \in Events : est'[x] = "listed" => est[x] = "listed" /\ ets'[x] = ets[x]
      BY <1>19 DEF InvalidateWake, eventVars, TypeOK
    <2>3. QED
      BY <2>1, <2>2, RetiredForward, BadStays, Distances, RetiredNext DEF ListedAhead
  <1>20. ASSUME NEW p \in Threads, DetachSet(p)
        PROVE  ListedAhead'
    <2>1. processed' = processed
      BY <1>20 DEF DetachSet, gpuVars, ctxVars, groupVars, eventVars, threadVars
    <2>2. \A x \in Events : est'[x] = "listed" => est[x] = "listed" /\ ets'[x] = ets[x]
      BY <1>20 DEF DetachSet, eventVars, TypeOK
    <2>3. QED
      BY <2>1, <2>2, RetiredForward, BadStays, Distances, RetiredNext DEF ListedAhead
  <1>21. ASSUME NEW p \in Threads, DetachDebugfs(p)
        PROVE  ListedAhead'
    <2>1. processed' = processed
      BY <1>21 DEF DetachDebugfs, gpuVars, ctxVars, groupVars, eventVars, threadVars
    <2>2. \A x \in Events : est'[x] = "listed" => est[x] = "listed" /\ ets'[x] = ets[x]
      BY <1>21 DEF DetachDebugfs, eventVars, TypeOK
    <2>3. QED
      BY <2>1, <2>2, RetiredForward, BadStays, Distances, RetiredNext DEF ListedAhead
  <1>22. ASSUME NEW p \in Threads, gen7_hwsched_context_detach(p)
        PROVE  ListedAhead'
    <2>1. processed' = processed
      BY <1>22 DEF gen7_hwsched_context_detach, gpuVars, ctxVars, groupVars, eventVars, threadVars
    <2>2. \A x \in Events : est'[x] = "listed" => est[x] = "listed" /\ ets'[x] = ets[x]
      BY <1>22 DEF gen7_hwsched_context_detach, eventVars, TypeOK
    <2>3. QED
      BY <2>1, <2>2, RetiredForward, BadStays, Distances, RetiredNext DEF ListedAhead
  <1>23. ASSUME NEW p \in Threads, DetachWake(p)
        PROVE  ListedAhead'
    <2>1. processed' = processed
      BY <1>23 DEF DetachWake, gpuVars, ctxVars, groupVars, eventVars, threadVars
    <2>2. \A x \in Events : est'[x] = "listed" => est[x] = "listed" /\ ets'[x] = ets[x]
      BY <1>23 DEF DetachWake, eventVars, TypeOK
    <2>3. QED
      BY <2>1, <2>2, RetiredForward, BadStays, Distances, RetiredNext DEF ListedAhead
  <1>24. ASSUME NEW p \in Threads, kgsl_cancel_events(p)
        PROVE  ListedAhead'
    <2>1. processed' = processed
      BY <1>24 DEF kgsl_cancel_events, gpuVars, ctxVars, groupVars, eventVars, threadVars
    <2>2. \A x \in Events : est'[x] = "listed" => est[x] = "listed" /\ ets'[x] = ets[x]
      BY <1>24 DEF kgsl_cancel_events, CancelEvents, signal_event, Listed, eventVars, TypeOK
    <2>3. QED
      BY <2>1, <2>2, RetiredForward, BadStays, Distances, RetiredNext DEF ListedAhead
  <1>25. ASSUME NEW p \in Threads, kgsl_del_event_group(p)
        PROVE  ListedAhead'
    <2>1. processed' = processed
      BY <1>25 DEF kgsl_del_event_group, gpuVars, ctxVars, groupVars, eventVars, threadVars
    <2>2. \A x \in Events : est'[x] = "listed" => est[x] = "listed" /\ ets'[x] = ets[x]
      BY <1>25 DEF kgsl_del_event_group, eventVars, TypeOK
    <2>3. QED
      BY <2>1, <2>2, RetiredForward, BadStays, Distances, RetiredNext DEF ListedAhead
  <1>26. ASSUME NEW p \in Threads, DetachPut(p)
        PROVE  ListedAhead'
    <2>1. processed' = processed
      BY <1>26 DEF DetachPut, gpuVars, ctxVars, groupVars, eventVars, threadVars
    <2>2. \A x \in Events : est'[x] = "listed" => est[x] = "listed" /\ ets'[x] = ets[x]
      BY <1>26 DEF DetachPut, eventVars, TypeOK
    <2>3. QED
      BY <2>1, <2>2, RetiredForward, BadStays, Distances, RetiredNext DEF ListedAhead
  <1>27. ASSUME NEW p \in Threads, kgsl_context_get(p)
        PROVE  ListedAhead'
    <2>1. processed' = processed
      BY <1>27 DEF kgsl_context_get, gpuVars, ctxVars, groupVars, eventVars, threadVars
    <2>2. \A x \in Events : est'[x] = "listed" => est[x] = "listed" /\ ets'[x] = ets[x]
      BY <1>27 DEF kgsl_context_get, eventVars, TypeOK
    <2>3. QED
      BY <2>1, <2>2, RetiredForward, BadStays, Distances, RetiredNext DEF ListedAhead
  <1>28. ASSUME NEW p \in Threads, WaitTimeout(p)
        PROVE  ListedAhead'
    <2>1. processed' = processed
      BY <1>28 DEF WaitTimeout, gpuVars, ctxVars, groupVars, eventVars, threadVars
    <2>2. \A x \in Events : est'[x] = "listed" => est[x] = "listed" /\ ets'[x] = ets[x]
      BY <1>28 DEF WaitTimeout, eventVars, TypeOK
    <2>3. QED
      BY <2>1, <2>2, RetiredForward, BadStays, Distances, RetiredNext DEF ListedAhead
  <1>29. ASSUME NEW p \in Threads, FaultInvalidate(p)
        PROVE  ListedAhead'
    <2>1. processed' = processed
      BY <1>29 DEF FaultInvalidate, gpuVars, ctxVars, groupVars, eventVars, threadVars
    <2>2. \A x \in Events : est'[x] = "listed" => est[x] = "listed" /\ ets'[x] = ets[x]
      BY <1>29 DEF FaultInvalidate, eventVars, TypeOK
    <2>3. QED
      BY <2>1, <2>2, RetiredForward, BadStays, Distances, RetiredNext DEF ListedAhead
  <1>30. CASE UNCHANGED vars
    <2>1. processed' = processed
      BY <1>30 DEF vars, gpuVars, ctxVars, groupVars, eventVars, threadVars
    <2>2. \A x \in Events : est'[x] = "listed" => est[x] = "listed" /\ ets'[x] = ets[x]
      BY <1>30 DEF vars, eventVars, TypeOK
    <2>3. QED
      BY <2>1, <2>2, RetiredForward, BadStays, Distances, RetiredNext DEF ListedAhead
  <1>31. QED
    BY <1>1, <1>2, <1>3, <1>4, <1>5, <1>6, <1>7, <1>8, <1>9, <1>10, <1>11,
       <1>12, <1>13, <1>14, <1>15, <1>16, <1>17, <1>18, <1>19, <1>20, <1>21,
       <1>22, <1>23, <1>24, <1>25, <1>26, <1>27, <1>28, <1>29, <1>30
       DEF Next, Hwsched, Step

\* Every step leaves a pass to come for a due event of an attached context.
LEMMA PassStep ==
    ASSUME TypeOK, IInv, InWindow, MemstoreFollowsGpu, DetachUnderWay,
           ListedAhead, PassOwed, [Next]_vars
    PROVE  PassOwed'
  <1>1. CASE Submit
    <2>1. \A x \in Events : est'[x] = "listed" => est[x] = "listed" /\ ets'[x] = ets[x]
      BY <1>1 DEF Submit, eventVars, TypeOK
    <2>2. PassComes => PassComes'
      BY <1>1 DEF Submit, gpuVars, ctxVars, groupVars, eventVars, threadVars, Goto, PassComes, TypeOK
    <2>3. QED
      BY <2>1, <2>2, RetiredForward, BadStays DEF PassOwed
  <1>2. CASE GpuRetire
    <2>1. \A x \in Events : est'[x] = "listed" => est[x] = "listed" /\ ets'[x] = ets[x]
      BY <1>2 DEF GpuRetire, eventVars, TypeOK
    <2>2. PassComes => PassComes'
      BY <1>2 DEF GpuRetire, gpuVars, ctxVars, groupVars, eventVars, threadVars, Goto, PassComes, TypeOK
    <2>3. QED
      BY <2>1, <2>2, RetiredForward, BadStays DEF PassOwed
  <1>3. CASE HwschedWork
    <2>1. \A x \in Events : est'[x] = "listed" => est[x] = "listed" /\ ets'[x] = ets[x]
      BY <1>3 DEF HwschedWork, eventVars, TypeOK
    <2>2. ~detached => PassComes'
      BY <1>3 DEF HwschedWork, DetachUnderWay, PassComes, TypeOK
    <2>3. QED
      BY <2>1, <2>2, RetiredForward, BadStays DEF PassOwed
  <1>4. CASE HwschedProcess
    <2>1. _process_event_group(FALSE) /\ ref > 0
      BY <1>4, UsersHoldContext DEF HwschedProcess, IInv
    <2>2. UNCHANGED <<retired, ets, detached>>
      BY <1>4 DEF HwschedProcess, gpuVars, ctxVars
    <2>3. ASSUME ~detached
          PROVE  /\ processed' = retired
                 /\ \A x \in Events : est'[x] = "listed" =>
                      est[x] = "listed" /\ Pos(retired) < Pos(ets[x])
      BY <2>1, <2>3, PassClears
    <2>4. QED
      BY <2>2, <2>3, Distances DEF PassOwed
  <1>5. CASE HwschedPut
    <2>1. \A x \in Events : est'[x] = "listed" => est[x] = "listed" /\ ets'[x] = ets[x]
      BY <1>5 DEF HwschedPut, eventVars, TypeOK
    <2>2. PassComes => PassComes'
      BY <1>5 DEF HwschedPut, gpuVars, ctxVars, groupVars, eventVars, threadVars, Goto, PassComes, TypeOK
    <2>3. QED
      BY <2>1, <2>2, RetiredForward, BadStays DEF PassOwed
  <1>6. ASSUME NEW e \in Events, _kgsl_event_worker(e)
        PROVE  PassOwed'
    <2>1. \A x \in Events : est'[x] = "listed" => est[x] = "listed" /\ ets'[x] = ets[x]
      BY <1>6 DEF _kgsl_event_worker, eventVars, TypeOK
    <2>2. PassComes => PassComes'
      BY <1>6 DEF _kgsl_event_worker, gpuVars, ctxVars, groupVars, eventVars, threadVars, Goto, PassComes, TypeOK
    <2>3. QED
      BY <2>1, <2>2, RetiredForward, BadStays DEF PassOwed
  <1>7. ASSUME NEW p \in Threads, ContextPut(p)
        PROVE  PassOwed'
    <2>1. \A x \in Events : est'[x] = "listed" => est[x] = "listed" /\ ets'[x] = ets[x]
      BY <1>7 DEF ContextPut, eventVars, TypeOK
    <2>2. PassComes => PassComes'
      BY <1>7 DEF ContextPut, gpuVars, ctxVars, groupVars, eventVars, threadVars, Goto, PassComes, TypeOK
    <2>3. QED
      BY <2>1, <2>2, RetiredForward, BadStays DEF PassOwed
  <1>8. ASSUME NEW p \in Threads, RetireMarker(p)
        PROVE  PassOwed'
    <2>1. \A x \in Events : est'[x] = "listed" => est[x] = "listed" /\ ets'[x] = ets[x]
      BY <1>8 DEF RetireMarker, eventVars, TypeOK
    <2>2. PassComes => PassComes'
      BY <1>8 DEF RetireMarker, gpuVars, ctxVars, groupVars, eventVars, threadVars, Goto, PassComes, TypeOK
    <2>3. QED
      BY <2>1, <2>2, RetiredForward, BadStays DEF PassOwed
  <1>9. ASSUME NEW p \in Threads, MarkerProcess(p)
        PROVE  PassOwed'
    <2>1. _process_event_group(FALSE) /\ ref > 0
      BY <1>9, UsersHoldContext DEF MarkerProcess, IInv
    <2>2. UNCHANGED <<retired, ets, detached>>
      BY <1>9 DEF MarkerProcess, gpuVars, ctxVars
    <2>3. ASSUME ~detached
          PROVE  /\ processed' = retired
                 /\ \A x \in Events : est'[x] = "listed" =>
                      est[x] = "listed" /\ Pos(retired) < Pos(ets[x])
      BY <2>1, <2>3, PassClears
    <2>4. QED
      BY <2>2, <2>3, Distances DEF PassOwed
  <1>10. ASSUME NEW p \in Threads, WaitCheck(p)
        PROVE  PassOwed'
    <2>1. \A x \in Events : est'[x] = "listed" => est[x] = "listed" /\ ets'[x] = ets[x]
      BY <1>10 DEF WaitCheck, eventVars, TypeOK
    <2>2. PassComes => PassComes'
      BY <1>10 DEF WaitCheck, gpuVars, ctxVars, groupVars, eventVars, threadVars, Goto, PassComes, TypeOK
    <2>3. QED
      BY <2>1, <2>2, RetiredForward, BadStays DEF PassOwed
  <1>11. ASSUME NEW p \in Threads, kgsl_add_event(p)
        PROVE  PassOwed'
    <2>1. \A x \in Events : est'[x] = "listed" => est[x] = "listed" /\ ets'[x] = ets[x]
      BY <1>11 DEF kgsl_add_event, eventVars, TypeOK
    <2>2. PassComes => PassComes'
      BY <1>11 DEF kgsl_add_event, gpuVars, ctxVars, groupVars, eventVars, threadVars, Goto, PassComes, TypeOK
    <2>3. QED
      BY <2>1, <2>2, RetiredForward, BadStays DEF PassOwed
  <1>12. ASSUME NEW p \in Threads, AddEventFails(p)
        PROVE  PassOwed'
    <2>1. \A x \in Events : est'[x] = "listed" => est[x] = "listed" /\ ets'[x] = ets[x]
      BY <1>12 DEF AddEventFails, eventVars, TypeOK
    <2>2. PassComes => PassComes'
      BY <1>12 DEF AddEventFails, gpuVars, ctxVars, groupVars, eventVars, threadVars, Goto, PassComes, TypeOK
    <2>3. QED
      BY <2>1, <2>2, RetiredForward, BadStays DEF PassOwed
  <1>13. ASSUME NEW p \in Threads, AddEventLocked(p)
        PROVE  PassOwed'
    <2>1. UNCHANGED <<retired, detached>> /\ (PassComes => PassComes')
      BY <1>13 DEF AddEventLocked, gpuVars, ctxVars, Goto, PassComes, TypeOK
    <2>2. ASSUME ~detached, NEW x \in Events, est'[x] = "listed", est[x] # "listed"
          PROVE  Pos(retired) < Pos(ets'[x])
      <3>1. EventMove(x) /\ ref > 0 /\ ets[x] \in Timestamp /\ retired \in Timestamp
        BY <2>2, EventMoves, AttachedKept DEF TypeOK
      <3>2. est[x] = "init" /\ ~kgsl_check_timestamp(ets[x]) /\ ets'[x] = ets[x]
        BY <2>2, <3>1 DEF EventMove
      <3>3. QED
        BY <3>1, <3>2, CmpByPos, Distances DEF InWindow, kgsl_check_timestamp
    <2>3. ets' = ets
      BY <1>13 DEF AddEventLocked
    <2>4. QED
      BY <2>1, <2>2, <2>3, Distances DEF PassOwed
  <1>14. ASSUME NEW p \in Threads, WaitWake(p)
        PROVE  PassOwed'
    <2>1. \A x \in Events : est'[x] = "listed" => est[x] = "listed" /\ ets'[x] = ets[x]
      BY <1>14 DEF WaitWake, eventVars, TypeOK
    <2>2. PassComes => PassComes'
      BY <1>14 DEF WaitWake, gpuVars, ctxVars, groupVars, eventVars, threadVars, Goto, PassComes, TypeOK
    <2>3. QED
      BY <2>1, <2>2, RetiredForward, BadStays DEF PassOwed
  <1>15. ASSUME NEW p \in Threads, kgsl_cancel_event(p)
        PROVE  PassOwed'
    <2>1. \A x \in Events : est'[x] = "listed" => est[x] = "listed" /\ ets'[x] = ets[x]
      BY <1>15 DEF kgsl_cancel_event, CancelEvents, signal_event, Listed, eventVars, TypeOK
    <2>2. PassComes => PassComes'
      BY <1>15 DEF kgsl_cancel_event, gpuVars, ctxVars, groupVars, eventVars, threadVars, Goto, PassComes, TypeOK
    <2>3. QED
      BY <2>1, <2>2, RetiredForward, BadStays DEF PassOwed
  <1>16. ASSUME NEW p \in Threads, DetachInvalidate(p)
        PROVE  PassOwed'
    <2>1. \A x \in Events : est'[x] = "listed" => est[x] = "listed" /\ ets'[x] = ets[x]
      BY <1>16 DEF DetachInvalidate, eventVars, TypeOK
    <2>2. PassComes => PassComes'
      BY <1>16 DEF DetachInvalidate, gpuVars, ctxVars, groupVars, eventVars, threadVars, Goto, PassComes, TypeOK
    <2>3. QED
      BY <2>1, <2>2, RetiredForward, BadStays DEF PassOwed
  <1>17. ASSUME NEW p \in Threads, CancelQueued(p)
        PROVE  PassOwed'
    <2>1. \A x \in Events : est'[x] = "listed" => est[x] = "listed" /\ ets'[x] = ets[x]
      BY <1>17 DEF CancelQueued, CancelEvents, signal_event, Listed, eventVars, TypeOK
    <2>2. PassComes => PassComes'
      BY <1>17 DEF CancelQueued, gpuVars, ctxVars, groupVars, eventVars, threadVars, Goto, PassComes, TypeOK
    <2>3. QED
      BY <2>1, <2>2, RetiredForward, BadStays DEF PassOwed
  <1>18. ASSUME NEW p \in Threads, FlushEvents(p)
        PROVE  PassOwed'
    <2>1. _process_event_group(TRUE) /\ ref > 0
      BY <1>18, UsersHoldContext DEF FlushEvents, IInv
    <2>2. UNCHANGED <<retired, ets, detached>>
      BY <1>18 DEF FlushEvents, gpuVars, ctxVars
    <2>3. ASSUME ~detached
          PROVE  /\ processed' = retired
                 /\ \A x \in Events : est'[x] = "listed" =>
                      est[x] = "listed" /\ Pos(retired) < Pos(ets[x])
      BY <2>1, <2>3, PassClears
    <2>4. QED
      BY <2>2, <2>3, Distances DEF PassOwed
  <1>19. ASSUME NEW p \in Threads, InvalidateWake(p)
        PROVE  PassOwed'
    <2>1. \A x \in Events : est'[x] = "listed" => est[x] = "listed" /\ ets'[x] = ets[x]
      BY <1>19 DEF InvalidateWake, eventVars, TypeOK
    <2>2. PassComes => PassComes'
      BY <1>19 DEF InvalidateWake, gpuVars, ctxVars, groupVars, eventVars, threadVars, Goto, PassComes, TypeOK
    <2>3. QED
      BY <2>1, <2>2, RetiredForward, BadStays DEF PassOwed
  <1>20. ASSUME NEW p \in Threads, DetachSet(p)
        PROVE  PassOwed'
    <2>1. \A x \in Events : est'[x] = "listed" => est[x] = "listed" /\ ets'[x] = ets[x]
      BY <1>20 DEF DetachSet, eventVars, TypeOK
    <2>2. PassComes => PassComes'
      BY <1>20 DEF DetachSet, gpuVars, ctxVars, groupVars, eventVars, threadVars, Goto, PassComes, TypeOK
    <2>3. QED
      BY <2>1, <2>2, RetiredForward, BadStays DEF PassOwed
  <1>21. ASSUME NEW p \in Threads, DetachDebugfs(p)
        PROVE  PassOwed'
    <2>1. \A x \in Events : est'[x] = "listed" => est[x] = "listed" /\ ets'[x] = ets[x]
      BY <1>21 DEF DetachDebugfs, eventVars, TypeOK
    <2>2. PassComes => PassComes'
      BY <1>21 DEF DetachDebugfs, gpuVars, ctxVars, groupVars, eventVars, threadVars, Goto, PassComes, TypeOK
    <2>3. QED
      BY <2>1, <2>2, RetiredForward, BadStays DEF PassOwed
  <1>22. ASSUME NEW p \in Threads, gen7_hwsched_context_detach(p)
        PROVE  PassOwed'
    <2>1. \A x \in Events : est'[x] = "listed" => est[x] = "listed" /\ ets'[x] = ets[x]
      BY <1>22 DEF gen7_hwsched_context_detach, eventVars, TypeOK
    <2>2. PassComes => PassComes'
      BY <1>22 DEF gen7_hwsched_context_detach, gpuVars, ctxVars, groupVars, eventVars, threadVars, Goto, PassComes, TypeOK
    <2>3. QED
      BY <2>1, <2>2, RetiredForward, BadStays DEF PassOwed
  <1>23. ASSUME NEW p \in Threads, DetachWake(p)
        PROVE  PassOwed'
    <2>1. \A x \in Events : est'[x] = "listed" => est[x] = "listed" /\ ets'[x] = ets[x]
      BY <1>23 DEF DetachWake, eventVars, TypeOK
    <2>2. PassComes => PassComes'
      BY <1>23 DEF DetachWake, gpuVars, ctxVars, groupVars, eventVars, threadVars, Goto, PassComes, TypeOK
    <2>3. QED
      BY <2>1, <2>2, RetiredForward, BadStays DEF PassOwed
  <1>24. ASSUME NEW p \in Threads, kgsl_cancel_events(p)
        PROVE  PassOwed'
    <2>1. \A x \in Events : est'[x] = "listed" => est[x] = "listed" /\ ets'[x] = ets[x]
      BY <1>24 DEF kgsl_cancel_events, CancelEvents, signal_event, Listed, eventVars, TypeOK
    <2>2. PassComes => PassComes'
      BY <1>24 DEF kgsl_cancel_events, gpuVars, ctxVars, groupVars, eventVars, threadVars, Goto, PassComes, TypeOK
    <2>3. QED
      BY <2>1, <2>2, RetiredForward, BadStays DEF PassOwed
  <1>25. ASSUME NEW p \in Threads, kgsl_del_event_group(p)
        PROVE  PassOwed'
    <2>1. \A x \in Events : est'[x] = "listed" => est[x] = "listed" /\ ets'[x] = ets[x]
      BY <1>25 DEF kgsl_del_event_group, eventVars, TypeOK
    <2>2. PassComes => PassComes'
      BY <1>25 DEF kgsl_del_event_group, gpuVars, ctxVars, groupVars, eventVars, threadVars, Goto, PassComes, TypeOK
    <2>3. QED
      BY <2>1, <2>2, RetiredForward, BadStays DEF PassOwed
  <1>26. ASSUME NEW p \in Threads, DetachPut(p)
        PROVE  PassOwed'
    <2>1. \A x \in Events : est'[x] = "listed" => est[x] = "listed" /\ ets'[x] = ets[x]
      BY <1>26 DEF DetachPut, eventVars, TypeOK
    <2>2. PassComes => PassComes'
      BY <1>26 DEF DetachPut, gpuVars, ctxVars, groupVars, eventVars, threadVars, Goto, PassComes, TypeOK
    <2>3. QED
      BY <2>1, <2>2, RetiredForward, BadStays DEF PassOwed
  <1>27. ASSUME NEW p \in Threads, kgsl_context_get(p)
        PROVE  PassOwed'
    <2>1. \A x \in Events : est'[x] = "listed" => est[x] = "listed" /\ ets'[x] = ets[x]
      BY <1>27 DEF kgsl_context_get, eventVars, TypeOK
    <2>2. PassComes => PassComes'
      BY <1>27 DEF kgsl_context_get, gpuVars, ctxVars, groupVars, eventVars, threadVars, Goto, PassComes, TypeOK
    <2>3. QED
      BY <2>1, <2>2, RetiredForward, BadStays DEF PassOwed
  <1>28. ASSUME NEW p \in Threads, WaitTimeout(p)
        PROVE  PassOwed'
    <2>1. \A x \in Events : est'[x] = "listed" => est[x] = "listed" /\ ets'[x] = ets[x]
      BY <1>28 DEF WaitTimeout, eventVars, TypeOK
    <2>2. PassComes => PassComes'
      BY <1>28 DEF WaitTimeout, gpuVars, ctxVars, groupVars, eventVars, threadVars, Goto, PassComes, TypeOK
    <2>3. QED
      BY <2>1, <2>2, RetiredForward, BadStays DEF PassOwed
  <1>29. ASSUME NEW p \in Threads, FaultInvalidate(p)
        PROVE  PassOwed'
    <2>1. \A x \in Events : est'[x] = "listed" => est[x] = "listed" /\ ets'[x] = ets[x]
      BY <1>29 DEF FaultInvalidate, eventVars, TypeOK
    <2>2. PassComes => PassComes'
      BY <1>29 DEF FaultInvalidate, gpuVars, ctxVars, groupVars, eventVars, threadVars, Goto, PassComes, TypeOK
    <2>3. QED
      BY <2>1, <2>2, RetiredForward, BadStays DEF PassOwed
  <1>30. CASE UNCHANGED vars
    <2>1. \A x \in Events : est'[x] = "listed" => est[x] = "listed" /\ ets'[x] = ets[x]
      BY <1>30 DEF vars, eventVars, TypeOK
    <2>2. PassComes => PassComes'
      BY <1>30 DEF vars, gpuVars, ctxVars, groupVars, eventVars, threadVars, Goto, PassComes, TypeOK
    <2>3. QED
      BY <2>1, <2>2, RetiredForward, BadStays DEF PassOwed
  <1>31. QED
    BY <1>1, <1>2, <1>3, <1>4, <1>5, <1>6, <1>7, <1>8, <1>9, <1>10, <1>11,
       <1>12, <1>13, <1>14, <1>15, <1>16, <1>17, <1>18, <1>19, <1>20, <1>21,
       <1>22, <1>23, <1>24, <1>25, <1>26, <1>27, <1>28, <1>29, <1>30
       DEF Next, Hwsched, Step

\* Every step keeps the context of the fault handler invalid.
LEMMA FaultIsBadStep ==
    ASSUME TypeOK, FaultIsBad, [Next]_vars
    PROVE  FaultIsBad'
  <1>1. CASE Submit
    BY <1>1
       DEF Submit, kgsl_context_is_bad, gpuVars, ctxVars, groupVars,
           eventVars, threadVars, FaultIsBad, TypeOK
  <1>2. CASE GpuRetire
    BY <1>2
       DEF GpuRetire, gpuVars, ctxVars, groupVars, eventVars, threadVars,
           FaultIsBad, TypeOK
  <1>3. CASE HwschedWork
    BY <1>3
       DEF HwschedWork, gpuVars, ctxVars, groupVars, eventVars, threadVars,
           FaultIsBad, TypeOK
  <1>4. CASE HwschedProcess
    BY <1>4
       DEF HwschedProcess, _process_event_group, signal_event, Listed,
           gpuVars, ctxVars, groupVars, eventVars, threadVars, FaultIsBad,
           TypeOK
  <1>5. CASE HwschedPut
    BY <1>5
       DEF HwschedPut, kgsl_context_put, gpuVars, ctxVars, groupVars,
           eventVars, threadVars, FaultIsBad, TypeOK
  <1>6. ASSUME NEW e \in Events, _kgsl_event_worker(e)
        PROVE  FaultIsBad'
    BY <1>6
       DEF _kgsl_event_worker, kgsl_context_put, WakeAll, gpuVars, ctxVars,
           groupVars, eventVars, threadVars, FaultIsBad, TypeOK
  <1>7. ASSUME NEW p \in Threads, ContextPut(p)
        PROVE  FaultIsBad'
    BY <1>7
       DEF ContextPut, kgsl_context_put, Goto, gpuVars, ctxVars, groupVars,
           eventVars, threadVars, FaultIsBad, TypeOK
  <1>8. ASSUME NEW p \in Threads, RetireMarker(p)
        PROVE  FaultIsBad'
    BY <1>8
       DEF RetireMarker, Goto, gpuVars, ctxVars, groupVars, eventVars,
           threadVars, FaultIsBad, TypeOK
  <1>9. ASSUME NEW p \in Threads, MarkerProcess(p)
        PROVE  FaultIsBad'
    BY <1>9
       DEF MarkerProcess, _process_event_group, signal_event, Listed, Goto,
           gpuVars, ctxVars, groupVars, eventVars, threadVars, FaultIsBad,
           TypeOK
  <1>10. ASSUME NEW p \in Threads, WaitCheck(p)
        PROVE  FaultIsBad'
    BY <1>10
       DEF WaitCheck, Goto, gpuVars, ctxVars, groupVars, eventVars,
           threadVars, FaultIsBad, TypeOK
  <1>11. ASSUME NEW p \in Threads, kgsl_add_event(p)
        PROVE  FaultIsBad'
    BY <1>11
       DEF kgsl_add_event, Goto, gpuVars, ctxVars, groupVars, eventVars,
           threadVars, FaultIsBad, TypeOK
  <1>12. ASSUME NEW p \in Threads, AddEventFails(p)
        PROVE  FaultIsBad'
    BY <1>12
       DEF AddEventFails, Goto, gpuVars, ctxVars, groupVars, eventVars,
           threadVars, FaultIsBad, TypeOK
  <1>13. ASSUME NEW p \in Threads, AddEventLocked(p)
        PROVE  FaultIsBad'
    BY <1>13
       DEF AddEventLocked, Goto, gpuVars, ctxVars, groupVars, eventVars,
           threadVars, FaultIsBad, TypeOK
  <1>14. ASSUME NEW p \in Threads, WaitWake(p)
        PROVE  FaultIsBad'
    BY <1>14
       DEF WaitWake, Goto, gpuVars, ctxVars, groupVars, eventVars, threadVars,
           FaultIsBad, TypeOK
  <1>15. ASSUME NEW p \in Threads, kgsl_cancel_event(p)
        PROVE  FaultIsBad'
    BY <1>15
       DEF kgsl_cancel_event, Goto, CancelEvents, signal_event, Listed,
           gpuVars, ctxVars, groupVars, eventVars, threadVars, FaultIsBad,
           TypeOK
  <1>16. ASSUME NEW p \in Threads, DetachInvalidate(p)
        PROVE  FaultIsBad'
    BY <1>16
       DEF DetachInvalidate, Goto, Invalidate, gpuVars, ctxVars, groupVars,
           eventVars, threadVars, FaultIsBad, TypeOK
  <1>17. ASSUME NEW p \in Threads, CancelQueued(p)
        PROVE  FaultIsBad'
    BY <1>17
       DEF CancelQueued, Goto, CancelEvents, signal_event, Listed, gpuVars,
           ctxVars, groupVars, eventVars, threadVars, FaultIsBad, TypeOK
  <1>18. ASSUME NEW p \in Threads, FlushEvents(p)
        PROVE  FaultIsBad'
    BY <1>18
       DEF FlushEvents, Goto, _process_event_group, signal_event, Listed,
           gpuVars, ctxVars, groupVars, eventVars, threadVars, FaultIsBad,
           TypeOK
  <1>19. ASSUME NEW p \in Threads, InvalidateWake(p)
        PROVE  FaultIsBad'
    BY <1>19
       DEF InvalidateWake, Goto, WakeAll, gpuVars, ctxVars, groupVars,
           eventVars, threadVars, FaultIsBad, TypeOK
  <1>20. ASSUME NEW p \in Threads, DetachSet(p)
        PROVE  FaultIsBad'
    BY <1>20
       DEF DetachSet, Goto, gpuVars, ctxVars, groupVars, eventVars,
           threadVars, FaultIsBad, TypeOK
  <1>21. ASSUME NEW p \in Threads, DetachDebugfs(p)
        PROVE  FaultIsBad'
    BY <1>21
       DEF DetachDebugfs, Goto, kgsl_context_put, gpuVars, ctxVars, groupVars,
           eventVars, threadVars, FaultIsBad, TypeOK
  <1>22. ASSUME NEW p \in Threads, gen7_hwsched_context_detach(p)
        PROVE  FaultIsBad'
    BY <1>22
       DEF gen7_hwsched_context_detach, Goto, gpuVars, ctxVars, groupVars,
           eventVars, threadVars, FaultIsBad, TypeOK
  <1>23. ASSUME NEW p \in Threads, DetachWake(p)
        PROVE  FaultIsBad'
    BY <1>23
       DEF DetachWake, Goto, WakeAll, gpuVars, ctxVars, groupVars, eventVars,
           threadVars, FaultIsBad, TypeOK
  <1>24. ASSUME NEW p \in Threads, kgsl_cancel_events(p)
        PROVE  FaultIsBad'
    BY <1>24
       DEF kgsl_cancel_events, Goto, CancelEvents, signal_event, Listed,
           gpuVars, ctxVars, groupVars, eventVars, threadVars, FaultIsBad,
           TypeOK
  <1>25. ASSUME NEW p \in Threads, kgsl_del_event_group(p)
        PROVE  FaultIsBad'
    BY <1>25
       DEF kgsl_del_event_group, Goto, gpuVars, ctxVars, groupVars, eventVars,
           threadVars, FaultIsBad, TypeOK
  <1>26. ASSUME NEW p \in Threads, DetachPut(p)
        PROVE  FaultIsBad'
    BY <1>26
       DEF DetachPut, Goto, kgsl_context_put, gpuVars, ctxVars, groupVars,
           eventVars, threadVars, FaultIsBad, TypeOK
  <1>27. ASSUME NEW p \in Threads, kgsl_context_get(p)
        PROVE  FaultIsBad'
    BY <1>27
       DEF kgsl_context_get, Goto, gpuVars, ctxVars, groupVars, eventVars,
           threadVars, FaultIsBad, TypeOK
  <1>28. ASSUME NEW p \in Threads, WaitTimeout(p)
        PROVE  FaultIsBad'
    BY <1>28
       DEF WaitTimeout, Goto, gpuVars, ctxVars, groupVars, eventVars,
           threadVars, FaultIsBad, TypeOK
  <1>29. ASSUME NEW p \in Threads, FaultInvalidate(p)
        PROVE  FaultIsBad'
    BY <1>29
       DEF FaultInvalidate, Goto, Invalidate, gpuVars, ctxVars, groupVars,
           eventVars, threadVars, FaultIsBad, TypeOK
  <1>30. CASE UNCHANGED vars
    BY <1>30
       DEF vars, gpuVars, ctxVars, groupVars, eventVars, threadVars,
           FaultIsBad, TypeOK
  <1>31. QED
    BY <1>1, <1>2, <1>3, <1>4, <1>5, <1>6, <1>7, <1>8, <1>9, <1>10, <1>11,
       <1>12, <1>13, <1>14, <1>15, <1>16, <1>17, <1>18, <1>19, <1>20, <1>21,
       <1>22, <1>23, <1>24, <1>25, <1>26, <1>27, <1>28, <1>29, <1>30
       DEF Next, Hwsched, Step

\* Every step keeps a wake-up to come for those who sleep on a bad context.
LEMMA BadWakesStep ==
    ASSUME TypeOK, IInv, BadWakes, [Next]_vars
    PROVE  BadWakes'
  <1>1. CASE Submit
    BY <1>1
       DEF Submit, kgsl_context_is_bad, gpuVars, ctxVars, groupVars,
           eventVars, threadVars, BadWakes, WakePCs, _check_context_timestamp,
           TypeOK
  <1>2. CASE GpuRetire
    BY <1>2
       DEF GpuRetire, gpuVars, ctxVars, groupVars, eventVars, threadVars,
           BadWakes, WakePCs, kgsl_context_is_bad, _check_context_timestamp,
           TypeOK
  <1>3. CASE HwschedWork
    BY <1>3
       DEF HwschedWork, gpuVars, ctxVars, groupVars, eventVars, threadVars,
           BadWakes, WakePCs, kgsl_context_is_bad, _check_context_timestamp,
           TypeOK
  <1>4. CASE HwschedProcess
    BY <1>4
       DEF HwschedProcess, _process_event_group, signal_event, Listed,
           gpuVars, ctxVars, groupVars, eventVars, threadVars, BadWakes,
           WakePCs, kgsl_context_is_bad, _check_context_timestamp, TypeOK
  <1>5. CASE HwschedPut
    BY <1>5
       DEF HwschedPut, kgsl_context_put, gpuVars, ctxVars, groupVars,
           eventVars, threadVars, BadWakes, WakePCs, kgsl_context_is_bad,
           _check_context_timestamp, TypeOK
  <1>6. ASSUME NEW e \in Events, _kgsl_event_worker(e)
        PROVE  BadWakes'
    BY <1>6
       DEF _kgsl_event_worker, kgsl_context_put, WakeAll, gpuVars, ctxVars,
           groupVars, eventVars, threadVars, BadWakes, WakePCs,
           kgsl_context_is_bad, _check_context_timestamp, TypeOK
  <1>7. ASSUME NEW p \in Threads, ContextPut(p)
        PROVE  BadWakes'
    BY <1>7
       DEF ContextPut, kgsl_context_put, Goto, gpuVars, ctxVars, groupVars,
           eventVars, threadVars, BadWakes, WakePCs, kgsl_context_is_bad,
           _check_context_timestamp, TypeOK
  <1>8. ASSUME NEW p \in Threads, RetireMarker(p)
        PROVE  BadWakes'
    BY <1>8
       DEF RetireMarker, Goto, gpuVars, ctxVars, groupVars, eventVars,
           threadVars, BadWakes, WakePCs, kgsl_context_is_bad,
           _check_context_timestamp, TypeOK
  <1>9. ASSUME NEW p \in Threads, MarkerProcess(p)
        PROVE  BadWakes'
    BY <1>9
       DEF MarkerProcess, _process_event_group, signal_event, Listed, Goto,
           gpuVars, ctxVars, groupVars, eventVars, threadVars, BadWakes,
           WakePCs, kgsl_context_is_bad, _check_context_timestamp, TypeOK
  <1>10. ASSUME NEW p \in Threads, WaitCheck(p)
        PROVE  BadWakes'
    BY <1>10
       DEF WaitCheck, Goto, gpuVars, ctxVars, groupVars, eventVars,
           threadVars, BadWakes, WakePCs, kgsl_context_is_bad,
           _check_context_timestamp, TypeOK
  <1>11. ASSUME NEW p \in Threads, kgsl_add_event(p)
        PROVE  BadWakes'
    BY <1>11
       DEF kgsl_add_event, Goto, gpuVars, ctxVars, groupVars, eventVars,
           threadVars, BadWakes, WakePCs, kgsl_context_is_bad,
           _check_context_timestamp, TypeOK
  <1>12. ASSUME NEW p \in Threads, AddEventFails(p)
        PROVE  BadWakes'
    BY <1>12
       DEF AddEventFails, Goto, gpuVars, ctxVars, groupVars, eventVars,
           threadVars, BadWakes, WakePCs, kgsl_context_is_bad,
           _check_context_timestamp, TypeOK
  <1>13. ASSUME NEW p \in Threads, AddEventLocked(p)
        PROVE  BadWakes'
    BY <1>13
       DEF AddEventLocked, Goto, gpuVars, ctxVars, groupVars, eventVars,
           threadVars, BadWakes, WakePCs, kgsl_context_is_bad,
           _check_context_timestamp, TypeOK
  <1>14. ASSUME NEW p \in Threads, WaitWake(p)
        PROVE  BadWakes'
    <2>1. \A q \in Threads : pc'[q] = "w_sleep" /\ ~woken'[q] /\ kgsl_context_is_bad =>
             pc[q] = "w_sleep" /\ ~woken[q]
      BY <1>14 DEF WaitWake, Goto, _check_context_timestamp, TypeOK
    <2>2. \A q \in Threads : pc[q] \in WakePCs => pc'[q] \in WakePCs
      BY <1>14 DEF WaitWake, Goto, WakePCs, TypeOK
    <2>3. kgsl_context_is_bad' => kgsl_context_is_bad
      BY <1>14 DEF WaitWake, ctxVars, kgsl_context_is_bad
    <2>4. QED
      BY <2>1, <2>2, <2>3 DEF BadWakes
  <1>15. ASSUME NEW p \in Threads, kgsl_cancel_event(p)
        PROVE  BadWakes'
    BY <1>15
       DEF kgsl_cancel_event, Goto, CancelEvents, signal_event, Listed,
           gpuVars, ctxVars, groupVars, eventVars, threadVars, BadWakes,
           WakePCs, kgsl_context_is_bad, _check_context_timestamp, TypeOK
  <1>16. ASSUME NEW p \in Threads, DetachInvalidate(p)
        PROVE  BadWakes'
    BY <1>16
       DEF DetachInvalidate, Goto, Invalidate, gpuVars, ctxVars, groupVars,
           eventVars, threadVars, BadWakes, WakePCs, kgsl_context_is_bad,
           _check_context_timestamp, TypeOK
  <1>17. ASSUME NEW p \in Threads, CancelQueued(p)
        PROVE  BadWakes'
    BY <1>17
       DEF CancelQueued, Goto, CancelEvents, signal_event, Listed, gpuVars,
           ctxVars, groupVars, eventVars, threadVars, BadWakes, WakePCs,
           kgsl_context_is_bad, _check_context_timestamp, TypeOK
  <1>18. ASSUME NEW p \in Threads, FlushEvents(p)
        PROVE  BadWakes'
    BY <1>18
       DEF FlushEvents, Goto, _process_event_group, signal_event, Listed,
           gpuVars, ctxVars, groupVars, eventVars, threadVars, BadWakes,
           WakePCs, kgsl_context_is_bad, _check_context_timestamp, TypeOK
  <1>19. ASSUME NEW p \in Threads, InvalidateWake(p)
        PROVE  BadWakes'
    BY <1>19
       DEF InvalidateWake, Goto, WakeAll, gpuVars, ctxVars, groupVars,
           eventVars, threadVars, BadWakes, WakePCs, kgsl_context_is_bad,
           _check_context_timestamp, TypeOK
  <1>20. ASSUME NEW p \in Threads, DetachSet(p)
        PROVE  BadWakes'
    BY <1>20
       DEF DetachSet, Goto, gpuVars, ctxVars, groupVars, eventVars,
           threadVars, BadWakes, WakePCs, kgsl_context_is_bad,
           _check_context_timestamp, TypeOK
  <1>21. ASSUME NEW p \in Threads, DetachDebugfs(p)
        PROVE  BadWakes'
    BY <1>21
       DEF DetachDebugfs, Goto, kgsl_context_put, gpuVars, ctxVars, groupVars,
           eventVars, threadVars, BadWakes, WakePCs, kgsl_context_is_bad,
           _check_context_timestamp, TypeOK
  <1>22. ASSUME NEW p \in Threads, gen7_hwsched_context_detach(p)
        PROVE  BadWakes'
    BY <1>22
       DEF gen7_hwsched_context_detach, Goto, gpuVars, ctxVars, groupVars,
           eventVars, threadVars, BadWakes, WakePCs, kgsl_context_is_bad,
           _check_context_timestamp, TypeOK
  <1>23. ASSUME NEW p \in Threads, DetachWake(p)
        PROVE  BadWakes'
    BY <1>23
       DEF DetachWake, Goto, WakeAll, gpuVars, ctxVars, groupVars, eventVars,
           threadVars, BadWakes, WakePCs, kgsl_context_is_bad,
           _check_context_timestamp, TypeOK
  <1>24. ASSUME NEW p \in Threads, kgsl_cancel_events(p)
        PROVE  BadWakes'
    BY <1>24
       DEF kgsl_cancel_events, Goto, CancelEvents, signal_event, Listed,
           gpuVars, ctxVars, groupVars, eventVars, threadVars, BadWakes,
           WakePCs, kgsl_context_is_bad, _check_context_timestamp, TypeOK
  <1>25. ASSUME NEW p \in Threads, kgsl_del_event_group(p)
        PROVE  BadWakes'
    BY <1>25
       DEF kgsl_del_event_group, Goto, gpuVars, ctxVars, groupVars, eventVars,
           threadVars, BadWakes, WakePCs, kgsl_context_is_bad,
           _check_context_timestamp, TypeOK
  <1>26. ASSUME NEW p \in Threads, DetachPut(p)
        PROVE  BadWakes'
    BY <1>26
       DEF DetachPut, Goto, kgsl_context_put, gpuVars, ctxVars, groupVars,
           eventVars, threadVars, BadWakes, WakePCs, kgsl_context_is_bad,
           _check_context_timestamp, TypeOK
  <1>27. ASSUME NEW p \in Threads, kgsl_context_get(p)
        PROVE  BadWakes'
    BY <1>27
       DEF kgsl_context_get, Goto, gpuVars, ctxVars, groupVars, eventVars,
           threadVars, BadWakes, WakePCs, kgsl_context_is_bad,
           _check_context_timestamp, TypeOK
  <1>28. ASSUME NEW p \in Threads, WaitTimeout(p)
        PROVE  BadWakes'
    BY <1>28
       DEF WaitTimeout, Goto, gpuVars, ctxVars, groupVars, eventVars,
           threadVars, BadWakes, WakePCs, kgsl_context_is_bad,
           _check_context_timestamp, TypeOK
  <1>29. ASSUME NEW p \in Threads, FaultInvalidate(p)
        PROVE  BadWakes'
    BY <1>29
       DEF FaultInvalidate, Goto, Invalidate, gpuVars, ctxVars, groupVars,
           eventVars, threadVars, BadWakes, WakePCs, kgsl_context_is_bad,
           _check_context_timestamp, TypeOK
  <1>30. CASE UNCHANGED vars
    BY <1>30
       DEF vars, gpuVars, ctxVars, groupVars, eventVars, threadVars, BadWakes,
           WakePCs, kgsl_context_is_bad, _check_context_timestamp, TypeOK
  <1>31. QED
    BY <1>1, <1>2, <1>3, <1>4, <1>5, <1>6, <1>7, <1>8, <1>9, <1>10, <1>11,
       <1>12, <1>13, <1>14, <1>15, <1>16, <1>17, <1>18, <1>19, <1>20, <1>21,
       <1>22, <1>23, <1>24, <1>25, <1>26, <1>27, <1>28, <1>29, <1>30
       DEF Next, Hwsched, Step

\* Who sleeps unwoken after a step slept before it, and either was not woken
\* or has just found its condition false; no wait event was called in it.
SleepMove(q) ==
    pc'[q] = "w_sleep" /\ ~woken'[q] =>
        /\ pc[q] = "w_sleep" /\ ts'[q] = ts[q]
        /\ woken[q] => ~_check_context_timestamp(q) /\ retired' = retired
        /\ \A x \in Events : est[x] = "queued" /\ est'[x] = "free" => efunc[x] # "wait"

\* A thread falls asleep only after it has looked, and the worker wakes
\* everybody.
LEMMA SleepMoves ==
    ASSUME TypeOK, [Next]_vars
    PROVE  \A q \in Threads : SleepMove(q)
  <1>1. CASE Submit
    BY <1>1
       DEF Submit, kgsl_context_is_bad, gpuVars, ctxVars, groupVars,
           eventVars, threadVars, SleepMove, TypeOK
  <1>2. CASE GpuRetire
    BY <1>2
       DEF GpuRetire, gpuVars, ctxVars, groupVars, eventVars, threadVars,
           SleepMove, TypeOK
  <1>3. CASE HwschedWork
    BY <1>3
       DEF HwschedWork, gpuVars, ctxVars, groupVars, eventVars, threadVars,
           SleepMove, TypeOK
  <1>4. CASE HwschedProcess
    <2>1. UNCHANGED <<pc, ts, woken>>
      BY <1>4 DEF HwschedProcess, threadVars
    <2>2. \A x \in Events : est[x] = "queued" => est'[x] # "free"
      BY <1>4 DEF HwschedProcess, eventVars, _process_event_group, signal_event, TypeOK
    <2>3. QED
      BY <2>1, <2>2 DEF SleepMove
  <1>5. CASE HwschedPut
    BY <1>5
       DEF HwschedPut, kgsl_context_put, gpuVars, ctxVars, groupVars,
           eventVars, threadVars, SleepMove, TypeOK
  <1>6. ASSUME NEW e \in Events, _kgsl_event_worker(e)
        PROVE  \A q \in Threads : SleepMove(q)
    <2>1. UNCHANGED <<pc, ts>>
      BY <1>6 DEF _kgsl_event_worker
    <2>2. \A x \in Events : x # e => est'[x] = est[x]
      BY <1>6 DEF _kgsl_event_worker, TypeOK
    <2>3. CASE efunc[e] = "wait"
      BY <1>6, <2>1, <2>3 DEF _kgsl_event_worker, WakeAll, SleepMove
    <2>4. CASE efunc[e] # "wait"
      BY <1>6, <2>1, <2>2, <2>4 DEF _kgsl_event_worker, SleepMove
    <2>5. QED
      BY <2>3, <2>4
  <1>7. ASSUME NEW p \in Threads, ContextPut(p)
        PROVE  \A q \in Threads : SleepMove(q)
    BY <1>7
       DEF ContextPut, kgsl_context_put, Goto, gpuVars, ctxVars, groupVars,
           eventVars, threadVars, SleepMove, TypeOK
  <1>8. ASSUME NEW p \in Threads, RetireMarker(p)
        PROVE  \A q \in Threads : SleepMove(q)
    BY <1>8
       DEF RetireMarker, Goto, gpuVars, ctxVars, groupVars, eventVars,
           threadVars, SleepMove, TypeOK
  <1>9. ASSUME NEW p \in Threads, MarkerProcess(p)
        PROVE  \A q \in Threads : SleepMove(q)
    BY <1>9
       DEF MarkerProcess, _process_event_group, signal_event, Listed, Goto,
           gpuVars, ctxVars, groupVars, eventVars, threadVars, SleepMove,
           TypeOK
  <1>10. ASSUME NEW p \in Threads, WaitCheck(p)
        PROVE  \A q \in Threads : SleepMove(q)
    BY <1>10
       DEF WaitCheck, Goto, gpuVars, ctxVars, groupVars, eventVars,
           threadVars, SleepMove, TypeOK
  <1>11. ASSUME NEW p \in Threads, kgsl_add_event(p)
        PROVE  \A q \in Threads : SleepMove(q)
    BY <1>11
       DEF kgsl_add_event, Goto, gpuVars, ctxVars, groupVars, eventVars,
           threadVars, SleepMove, TypeOK
  <1>12. ASSUME NEW p \in Threads, AddEventFails(p)
        PROVE  \A q \in Threads : SleepMove(q)
    BY <1>12
       DEF AddEventFails, Goto, gpuVars, ctxVars, groupVars, eventVars,
           threadVars, SleepMove, TypeOK
  <1>13. ASSUME NEW p \in Threads, AddEventLocked(p)
        PROVE  \A q \in Threads : SleepMove(q)
    <2>1. \A q \in Threads : pc'[q] = "w_sleep" /\ ~woken'[q] =>
             pc[q] = "w_sleep" /\ ts'[q] = ts[q] /\ ~woken[q]
      BY <1>13 DEF AddEventLocked, Goto, TypeOK
    <2>2. \A x \in Events : est[x] = "queued" => est'[x] # "free"
      BY <1>13 DEF AddEventLocked, TypeOK
    <2>3. QED
      BY <2>1, <2>2 DEF SleepMove
  <1>14. ASSUME NEW p \in Threads, WaitWake(p)
        PROVE  \A q \in Threads : SleepMove(q)
    <2>1. \A q \in Threads : pc'[q] = "w_sleep" /\ ~woken'[q] =>
             /\ pc[q] = "w_sleep" /\ ts'[q] = ts[q]
             /\ woken[q] => ~_check_context_timestamp(q)
      BY <1>14 DEF WaitWake, Goto, TypeOK
    <2>2. UNCHANGED <<retired, est>>
      BY <1>14 DEF WaitWake, gpuVars, eventVars
    <2>3. QED
      BY <2>1, <2>2 DEF SleepMove
  <1>15. ASSUME NEW p \in Threads, kgsl_cancel_event(p)
        PROVE  \A q \in Threads : SleepMove(q)
    BY <1>15
       DEF kgsl_cancel_event, Goto, CancelEvents, signal_event, Listed,
           gpuVars, ctxVars, groupVars, eventVars, threadVars, SleepMove,
           TypeOK
  <1>16. ASSUME NEW p \in Threads, DetachInvalidate(p)
        PROVE  \A q \in Threads : SleepMove(q)
    BY <1>16
       DEF DetachInvalidate, Goto, Invalidate, gpuVars, ctxVars, groupVars,
           eventVars, threadVars, SleepMove, TypeOK
  <1>17. ASSUME NEW p \in Threads, CancelQueued(p)
        PROVE  \A q \in Threads : SleepMove(q)
    BY <1>17
       DEF CancelQueued, Goto, CancelEvents, signal_event, Listed, gpuVars,
           ctxVars, groupVars, eventVars, threadVars, SleepMove, TypeOK
  <1>18. ASSUME NEW p \in Threads, FlushEvents(p)
        PROVE  \A q \in Threads : SleepMove(q)
    BY <1>18
       DEF FlushEvents, Goto, _process_event_group, signal_event, Listed,
           gpuVars, ctxVars, groupVars, eventVars, threadVars, SleepMove,
           TypeOK
  <1>19. ASSUME NEW p \in Threads, InvalidateWake(p)
        PROVE  \A q \in Threads : SleepMove(q)
    BY <1>19
       DEF InvalidateWake, Goto, WakeAll, gpuVars, ctxVars, groupVars,
           eventVars, threadVars, SleepMove, TypeOK
  <1>20. ASSUME NEW p \in Threads, DetachSet(p)
        PROVE  \A q \in Threads : SleepMove(q)
    BY <1>20
       DEF DetachSet, Goto, gpuVars, ctxVars, groupVars, eventVars,
           threadVars, SleepMove, TypeOK
  <1>21. ASSUME NEW p \in Threads, DetachDebugfs(p)
        PROVE  \A q \in Threads : SleepMove(q)
    BY <1>21
       DEF DetachDebugfs, Goto, kgsl_context_put, gpuVars, ctxVars, groupVars,
           eventVars, threadVars, SleepMove, TypeOK
  <1>22. ASSUME NEW p \in Threads, gen7_hwsched_context_detach(p)
        PROVE  \A q \in Threads : SleepMove(q)
    BY <1>22
       DEF gen7_hwsched_context_detach, Goto, gpuVars, ctxVars, groupVars,
           eventVars, threadVars, SleepMove, TypeOK
  <1>23. ASSUME NEW p \in Threads, DetachWake(p)
        PROVE  \A q \in Threads : SleepMove(q)
    BY <1>23
       DEF DetachWake, Goto, WakeAll, gpuVars, ctxVars, groupVars, eventVars,
           threadVars, SleepMove, TypeOK
  <1>24. ASSUME NEW p \in Threads, kgsl_cancel_events(p)
        PROVE  \A q \in Threads : SleepMove(q)
    BY <1>24
       DEF kgsl_cancel_events, Goto, CancelEvents, signal_event, Listed,
           gpuVars, ctxVars, groupVars, eventVars, threadVars, SleepMove,
           TypeOK
  <1>25. ASSUME NEW p \in Threads, kgsl_del_event_group(p)
        PROVE  \A q \in Threads : SleepMove(q)
    BY <1>25
       DEF kgsl_del_event_group, Goto, gpuVars, ctxVars, groupVars, eventVars,
           threadVars, SleepMove, TypeOK
  <1>26. ASSUME NEW p \in Threads, DetachPut(p)
        PROVE  \A q \in Threads : SleepMove(q)
    BY <1>26
       DEF DetachPut, Goto, kgsl_context_put, gpuVars, ctxVars, groupVars,
           eventVars, threadVars, SleepMove, TypeOK
  <1>27. ASSUME NEW p \in Threads, kgsl_context_get(p)
        PROVE  \A q \in Threads : SleepMove(q)
    BY <1>27
       DEF kgsl_context_get, Goto, gpuVars, ctxVars, groupVars, eventVars,
           threadVars, SleepMove, TypeOK
  <1>28. ASSUME NEW p \in Threads, WaitTimeout(p)
        PROVE  \A q \in Threads : SleepMove(q)
    BY <1>28
       DEF WaitTimeout, Goto, gpuVars, ctxVars, groupVars, eventVars,
           threadVars, SleepMove, TypeOK
  <1>29. ASSUME NEW p \in Threads, FaultInvalidate(p)
        PROVE  \A q \in Threads : SleepMove(q)
    BY <1>29
       DEF FaultInvalidate, Goto, Invalidate, gpuVars, ctxVars, groupVars,
           eventVars, threadVars, SleepMove, TypeOK
  <1>30. CASE UNCHANGED vars
    BY <1>30
       DEF vars, gpuVars, ctxVars, groupVars, eventVars, threadVars,
           SleepMove, TypeOK
  <1>31. QED
    BY <1>1, <1>2, <1>3, <1>4, <1>5, <1>6, <1>7, <1>8, <1>9, <1>10, <1>11,
       <1>12, <1>13, <1>14, <1>15, <1>16, <1>17, <1>18, <1>19, <1>20, <1>21,
       <1>22, <1>23, <1>24, <1>25, <1>26, <1>27, <1>28, <1>29, <1>30
       DEF Next, Hwsched, Step

\* The sleepers and the events for t can be counted.
LEMMA SleepersFinite ==
    ASSUME NEW t
    PROVE  /\ IsFiniteSet(Sleepers(t)) /\ Cardinality(Sleepers(t)) \in Nat
           /\ IsFiniteSet(WaitEvents(t)) /\ Cardinality(WaitEvents(t)) \in Nat
  <1>1. IsFiniteSet(Sleepers(t)) /\ IsFiniteSet(WaitEvents(t))
    BY FS_Subset, EventsAssumption DEF Sleepers, WaitEvents
  <1>2. QED
    BY <1>1, FS_CardinalityType

\* Fewer sleepers and more events keep the balance.
LEMMA FewerSleepers ==
    ASSUME NEW S, NEW E, NEW t, IsFiniteSet(E),
           S \subseteq Sleepers(t), WaitEvents(t) \subseteq E,
           Cardinality(Sleepers(t)) <= Cardinality(WaitEvents(t))
    PROVE  Cardinality(S) <= Cardinality(E)
  <1>1. IsFiniteSet(S) /\ Cardinality(S) <= Cardinality(Sleepers(t))
    BY SleepersFinite, FS_Subset
  <1>2. Cardinality(WaitEvents(t)) <= Cardinality(E)
    BY FS_Subset
  <1>3. QED
    BY <1>1, <1>2, SleepersFinite, FS_CardinalityType

\* The events after a step are finitely many as well.
LEMMA EventsFiniteNext ==
    ASSUME NEW t
    PROVE  IsFiniteSet(WaitEvents(t)')
  BY FS_Subset, EventsAssumption DEF WaitEvents

\* Every step keeps an event for each thread that waits for a timestamp to
\* come.
LEMMA BalanceStep ==
    ASSUME TypeOK, IInv, InWindow, WaitersEvent, FaultIsBad, [Next]_vars,
           ~kgsl_context_is_bad, NEW t \in Timestamp, Pos(retired) < Pos(t),
           Cardinality(Sleepers(t)) <= Cardinality(WaitEvents(t))
    PROVE  Cardinality(Sleepers(t)') <= Cardinality(WaitEvents(t)')
  <1>1. CASE Submit
    <2>1. Sleepers(t)' \subseteq Sleepers(t)
      BY <1>1 DEF Submit, Sleepers, Goto, threadVars, TypeOK
    <2>2. WaitEvents(t) \subseteq WaitEvents(t)'
      BY <1>1 DEF Submit, WaitEvents, eventVars, TypeOK
    <2>3. QED
      BY <2>1, <2>2, FewerSleepers, EventsFiniteNext
  <1>2. CASE GpuRetire
    <2>1. Sleepers(t)' \subseteq Sleepers(t)
      BY <1>2 DEF GpuRetire, Sleepers, Goto, threadVars, TypeOK
    <2>2. WaitEvents(t) \subseteq WaitEvents(t)'
      BY <1>2 DEF GpuRetire, WaitEvents, eventVars, TypeOK
    <2>3. QED
      BY <2>1, <2>2, FewerSleepers, EventsFiniteNext
  <1>3. CASE HwschedWork
    <2>1. Sleepers(t)' \subseteq Sleepers(t)
      BY <1>3 DEF HwschedWork, Sleepers, Goto, threadVars, TypeOK
    <2>2. WaitEvents(t) \subseteq WaitEvents(t)'
      BY <1>3 DEF HwschedWork, WaitEvents, eventVars, TypeOK
    <2>3. QED
      BY <2>1, <2>2, FewerSleepers, EventsFiniteNext
  <1>4. CASE HwschedProcess
    <2>1. \A x \in Events : est[x] = "listed" /\ ets[x] = t => est'[x] = "listed"
      <3>1. _process_event_group(FALSE) /\ ref > 0
        BY <1>4, UsersHoldContext DEF HwschedProcess, IInv
      <3>2. ASSUME NEW x \in Events, est[x] = "listed", ets[x] = t
            PROVE  ~(timestamp_cmp(ets[x], retired) <= 0)
        <4>1. Pos(ets[x]) < Window /\ Pos(retired) < Window
              /\ Pos(retired) \in Nat /\ Pos(ets[x]) \in Nat
          BY <3>1, <3>2, Distances DEF InWindow
        <4>2. timestamp_cmp(ets[x], retired) <= 0 <=> Pos(ets[x]) <= Pos(retired)
          BY <4>1, CmpByPos DEF TypeOK
        <4>3. QED
          BY <3>2, <4>1, <4>2
      <3>3. QED
        BY <3>1, <3>2 DEF _process_event_group, signal_event, Listed, TypeOK
    <2>2. UNCHANGED <<ets, efunc, ts>>
      BY <1>4 DEF HwschedProcess, threadVars
    <2>3. Sleepers(t)' \subseteq Sleepers(t)
      BY <1>4 DEF HwschedProcess, Goto, threadVars, Sleepers, TypeOK
    <2>4. WaitEvents(t) \subseteq WaitEvents(t)'
      BY <2>1, <2>2 DEF WaitEvents
    <2>5. QED
      BY <2>3, <2>4, FewerSleepers, EventsFiniteNext
  <1>5. CASE HwschedPut
    <2>1. Sleepers(t)' \subseteq Sleepers(t)
      BY <1>5 DEF HwschedPut, Sleepers, Goto, threadVars, TypeOK
    <2>2. WaitEvents(t) \subseteq WaitEvents(t)'
      BY <1>5 DEF HwschedPut, WaitEvents, eventVars, TypeOK
    <2>3. QED
      BY <2>1, <2>2, FewerSleepers, EventsFiniteNext
  <1>6. ASSUME NEW e \in Events, _kgsl_event_worker(e)
        PROVE  Cardinality(Sleepers(t)') <= Cardinality(WaitEvents(t)')
    <2>1. Sleepers(t)' \subseteq Sleepers(t)
      BY <1>6 DEF _kgsl_event_worker, Sleepers, Goto, threadVars, TypeOK
    <2>2. WaitEvents(t) \subseteq WaitEvents(t)'
      BY <1>6 DEF _kgsl_event_worker, WaitEvents, eventVars, TypeOK
    <2>3. QED
      BY <2>1, <2>2, FewerSleepers, EventsFiniteNext
  <1>7. ASSUME NEW p \in Threads, ContextPut(p)
        PROVE  Cardinality(Sleepers(t)') <= Cardinality(WaitEvents(t)')
    <2>1. Sleepers(t)' \subseteq Sleepers(t)
      BY <1>7 DEF ContextPut, Sleepers, Goto, threadVars, TypeOK
    <2>2. WaitEvents(t) \subseteq WaitEvents(t)'
      BY <1>7 DEF ContextPut, WaitEvents, eventVars, TypeOK
    <2>3. QED
      BY <2>1, <2>2, FewerSleepers, EventsFiniteNext
  <1>8. ASSUME NEW p \in Threads, RetireMarker(p)
        PROVE  Cardinality(Sleepers(t)') <= Cardinality(WaitEvents(t)')
    <2>1. Sleepers(t)' \subseteq Sleepers(t)
      BY <1>8 DEF RetireMarker, Sleepers, Goto, threadVars, TypeOK
    <2>2. WaitEvents(t) \subseteq WaitEvents(t)'
      BY <1>8 DEF RetireMarker, WaitEvents, eventVars, TypeOK
    <2>3. QED
      BY <2>1, <2>2, FewerSleepers, EventsFiniteNext
  <1>9. ASSUME NEW p \in Threads, MarkerProcess(p)
        PROVE  Cardinality(Sleepers(t)') <= Cardinality(WaitEvents(t)')
    <2>1. \A x \in Events : est[x] = "listed" /\ ets[x] = t => est'[x] = "listed"
      <3>1. _process_event_group(FALSE) /\ ref > 0
        BY <1>9, UsersHoldContext DEF MarkerProcess, IInv
      <3>2. ASSUME NEW x \in Events, est[x] = "listed", ets[x] = t
            PROVE  ~(timestamp_cmp(ets[x], retired) <= 0)
        <4>1. Pos(ets[x]) < Window /\ Pos(retired) < Window
              /\ Pos(retired) \in Nat /\ Pos(ets[x]) \in Nat
          BY <3>1, <3>2, Distances DEF InWindow
        <4>2. timestamp_cmp(ets[x], retired) <= 0 <=> Pos(ets[x]) <= Pos(retired)
          BY <4>1, CmpByPos DEF TypeOK
        <4>3. QED
          BY <3>2, <4>1, <4>2
      <3>3. QED
        BY <3>1, <3>2 DEF _process_event_group, signal_event, Listed, TypeOK
    <2>2. UNCHANGED <<ets, efunc, ts>>
      BY <1>9 DEF MarkerProcess, threadVars
    <2>3. Sleepers(t)' \subseteq Sleepers(t)
      BY <1>9 DEF MarkerProcess, Goto, threadVars, Sleepers, TypeOK
    <2>4. WaitEvents(t) \subseteq WaitEvents(t)'
      BY <2>1, <2>2 DEF WaitEvents
    <2>5. QED
      BY <2>3, <2>4, FewerSleepers, EventsFiniteNext
  <1>10. ASSUME NEW p \in Threads, WaitCheck(p)
        PROVE  Cardinality(Sleepers(t)') <= Cardinality(WaitEvents(t)')
    <2>1. Sleepers(t)' \subseteq Sleepers(t)
      BY <1>10 DEF WaitCheck, Sleepers, Goto, threadVars, TypeOK
    <2>2. WaitEvents(t) \subseteq WaitEvents(t)'
      BY <1>10 DEF WaitCheck, WaitEvents, eventVars, TypeOK
    <2>3. QED
      BY <2>1, <2>2, FewerSleepers, EventsFiniteNext
  <1>11. ASSUME NEW p \in Threads, kgsl_add_event(p)
        PROVE  Cardinality(Sleepers(t)') <= Cardinality(WaitEvents(t)')
    <2>1. Sleepers(t)' \subseteq Sleepers(t)
      BY <1>11 DEF kgsl_add_event, Sleepers, Goto, threadVars, TypeOK
    <2>2. WaitEvents(t) \subseteq WaitEvents(t)'
      BY <1>11 DEF kgsl_add_event, WaitEvents, eventVars, TypeOK
    <2>3. QED
      BY <2>1, <2>2, FewerSleepers, EventsFiniteNext
  <1>12. ASSUME NEW p \in Threads, AddEventFails(p)
        PROVE  Cardinality(Sleepers(t)') <= Cardinality(WaitEvents(t)')
    <2>1. Sleepers(t)' \subseteq Sleepers(t)
      BY <1>12 DEF AddEventFails, Sleepers, Goto, threadVars, TypeOK
    <2>2. WaitEvents(t) \subseteq WaitEvents(t)'
      BY <1>12 DEF AddEventFails, WaitEvents, eventVars, TypeOK
    <2>3. QED
      BY <2>1, <2>2, FewerSleepers, EventsFiniteNext
  <1>13. ASSUME NEW p \in Threads, AddEventLocked(p)
        PROVE  Cardinality(Sleepers(t)') <= Cardinality(WaitEvents(t)')
    <2>1. ev[p] \in Events /\ est[ev[p]] = "init"
      BY <1>13 DEF AddEventLocked, IInv, EventsOwned
    <2>2. UNCHANGED <<ets, efunc, ts>>
      BY <1>13 DEF AddEventLocked
    <2>3. \A x \in Events : x # ev[p] => est'[x] = est[x]
      BY <1>13, <2>1 DEF AddEventLocked, TypeOK
    <2>4. CASE pc[p] = "w_lock" /\ ts[p] = t
      <3>1. ets[ev[p]] = t /\ efunc[ev[p]] = "wait"
        BY <2>4 DEF WaitersEvent
      <3>2. ~kgsl_check_timestamp(ets[ev[p]])
        <4>1. Pos(t) < Window /\ Pos(retired) < Window /\ Pos(retired) \in Nat
              /\ Pos(t) \in Nat
          BY <2>1, <3>1, AttachedKept, Distances DEF InWindow, kgsl_context_is_bad
        <4>2. timestamp_cmp(retired, t) >= 0 <=> Pos(t) <= Pos(retired)
          BY <4>1, CmpByPos DEF TypeOK
        <4>3. QED
          BY <3>1, <4>1, <4>2 DEF kgsl_check_timestamp
      <3>3. est'[ev[p]] = "listed"
        BY <1>13, <2>1, <3>2 DEF AddEventLocked, TypeOK
      <3>4. Sleepers(t)' = Sleepers(t) \cup {p} /\ p \notin Sleepers(t)
        BY <1>13, <2>2, <2>4 DEF AddEventLocked, Goto, Sleepers, TypeOK
      <3>5. WaitEvents(t)' = WaitEvents(t) \cup {ev[p]} /\ ev[p] \notin WaitEvents(t)
        BY <2>1, <2>2, <2>3, <3>1, <3>3 DEF WaitEvents
      <3>6. /\ Cardinality(Sleepers(t)') = Cardinality(Sleepers(t)) + 1
            /\ Cardinality(WaitEvents(t)') = Cardinality(WaitEvents(t)) + 1
        BY <3>4, <3>5, SleepersFinite, FS_AddElement
      <3>7. QED
        BY <3>6, SleepersFinite
    <2>5. CASE ~(pc[p] = "w_lock" /\ ts[p] = t)
      <3>1. Sleepers(t)' \subseteq Sleepers(t)
        BY <1>13, <2>2, <2>5 DEF AddEventLocked, Goto, Sleepers, TypeOK
      <3>2. WaitEvents(t) \subseteq WaitEvents(t)'
        BY <2>1, <2>2, <2>3 DEF WaitEvents
      <3>3. QED
        BY <3>1, <3>2, FewerSleepers, EventsFiniteNext
    <2>6. QED
      BY <2>4, <2>5
  <1>14. ASSUME NEW p \in Threads, WaitWake(p)
        PROVE  Cardinality(Sleepers(t)') <= Cardinality(WaitEvents(t)')
    <2>1. Sleepers(t)' \subseteq Sleepers(t)
      BY <1>14 DEF WaitWake, Sleepers, Goto, threadVars, TypeOK
    <2>2. WaitEvents(t) \subseteq WaitEvents(t)'
      BY <1>14 DEF WaitWake, WaitEvents, eventVars, TypeOK
    <2>3. QED
      BY <2>1, <2>2, FewerSleepers, EventsFiniteNext
  <1>15. ASSUME NEW p \in Threads, kgsl_cancel_event(p)
        PROVE  Cardinality(Sleepers(t)') <= Cardinality(WaitEvents(t)')
    <2>1. UNCHANGED <<ets, efunc, ts>>
      BY <1>15 DEF kgsl_cancel_event
    <2>2. Sleepers(t)' = Sleepers(t) \ {p}
      BY <1>15, <2>1 DEF kgsl_cancel_event, Goto, Sleepers, TypeOK
    <2>3. CASE est' = est
      BY <2>1, <2>2, <2>3, FewerSleepers, SleepersFinite DEF WaitEvents
    <2>4. CASE est' # est
      <3>1. PICK x \in Events : /\ est[x] = "listed" /\ efunc[x] = "wait" /\ ets[x] = ts[p]
                                /\ CancelEvents({x})
        BY <1>15, <2>4 DEF kgsl_cancel_event, Listed
      <3>2. WaitEvents(t)' = WaitEvents(t) \ {x}
        BY <2>1, <3>1 DEF CancelEvents, signal_event, WaitEvents, TypeOK
      <3>3. CASE ts[p] = t
        <4>1. p \in Sleepers(t) /\ x \in WaitEvents(t)
          BY <1>15, <3>1, <3>3 DEF kgsl_cancel_event, Sleepers, WaitEvents
        <4>2. /\ Cardinality(Sleepers(t)') = Cardinality(Sleepers(t)) - 1
              /\ Cardinality(WaitEvents(t)') = Cardinality(WaitEvents(t)) - 1
          BY <2>2, <3>2, <4>1, SleepersFinite, FS_RemoveElement
        <4>3. QED
          BY <4>2, SleepersFinite
      <3>4. CASE ts[p] # t
        <4>1. WaitEvents(t)' = WaitEvents(t)
          BY <3>1, <3>2, <3>4 DEF WaitEvents
        <4>2. QED
          BY <2>2, <4>1, FewerSleepers, SleepersFinite
      <3>5. QED
        BY <3>3, <3>4
    <2>5. QED
      BY <2>3, <2>4
  <1>16. ASSUME NEW p \in Threads, DetachInvalidate(p)
        PROVE  Cardinality(Sleepers(t)') <= Cardinality(WaitEvents(t)')
    <2>1. Sleepers(t)' \subseteq Sleepers(t)
      BY <1>16 DEF DetachInvalidate, Sleepers, Goto, threadVars, TypeOK
    <2>2. WaitEvents(t) \subseteq WaitEvents(t)'
      BY <1>16 DEF DetachInvalidate, WaitEvents, eventVars, TypeOK
    <2>3. QED
      BY <2>1, <2>2, FewerSleepers, EventsFiniteNext
  <1>17. ASSUME NEW p \in Threads, CancelQueued(p)
        PROVE  Cardinality(Sleepers(t)') <= Cardinality(WaitEvents(t)')
    <2>1. kgsl_context_is_bad
      BY <1>17 DEF CancelQueued, FaultIsBad, IInv, DetachedOnce, DetachPCs, kgsl_context_is_bad
    <2>2. QED
      BY <2>1
  <1>18. ASSUME NEW p \in Threads, FlushEvents(p)
        PROVE  Cardinality(Sleepers(t)') <= Cardinality(WaitEvents(t)')
    <2>1. kgsl_context_is_bad
      BY <1>18 DEF FlushEvents, FaultIsBad, IInv, DetachedOnce, DetachPCs, kgsl_context_is_bad
    <2>2. QED
      BY <2>1
  <1>19. ASSUME NEW p \in Threads, InvalidateWake(p)
        PROVE  Cardinality(Sleepers(t)') <= Cardinality(WaitEvents(t)')
    <2>1. Sleepers(t)' \subseteq Sleepers(t)
      BY <1>19 DEF InvalidateWake, Sleepers, Goto, threadVars, TypeOK
    <2>2. WaitEvents(t) \subseteq WaitEvents(t)'
      BY <1>19 DEF InvalidateWake, WaitEvents, eventVars, TypeOK
    <2>3. QED
      BY <2>1, <2>2, FewerSleepers, EventsFiniteNext
  <1>20. ASSUME NEW p \in Threads, DetachSet(p)
        PROVE  Cardinality(Sleepers(t)') <= Cardinality(WaitEvents(t)')
    <2>1. Sleepers(t)' \subseteq Sleepers(t)
      BY <1>20 DEF DetachSet, Sleepers, Goto, threadVars, TypeOK
    <2>2. WaitEvents(t) \subseteq WaitEvents(t)'
      BY <1>20 DEF DetachSet, WaitEvents, eventVars, TypeOK
    <2>3. QED
      BY <2>1, <2>2, FewerSleepers, EventsFiniteNext
  <1>21. ASSUME NEW p \in Threads, DetachDebugfs(p)
        PROVE  Cardinality(Sleepers(t)') <= Cardinality(WaitEvents(t)')
    <2>1. Sleepers(t)' \subseteq Sleepers(t)
      BY <1>21 DEF DetachDebugfs, Sleepers, Goto, threadVars, TypeOK
    <2>2. WaitEvents(t) \subseteq WaitEvents(t)'
      BY <1>21 DEF DetachDebugfs, WaitEvents, eventVars, TypeOK
    <2>3. QED
      BY <2>1, <2>2, FewerSleepers, EventsFiniteNext
  <1>22. ASSUME NEW p \in Threads, gen7_hwsched_context_detach(p)
        PROVE  Cardinality(Sleepers(t)') <= Cardinality(WaitEvents(t)')
    <2>1. Sleepers(t)' \subseteq Sleepers(t)
      BY <1>22 DEF gen7_hwsched_context_detach, Sleepers, Goto, threadVars, TypeOK
    <2>2. WaitEvents(t) \subseteq WaitEvents(t)'
      BY <1>22 DEF gen7_hwsched_context_detach, WaitEvents, eventVars, TypeOK
    <2>3. QED
      BY <2>1, <2>2, FewerSleepers, EventsFiniteNext
  <1>23. ASSUME NEW p \in Threads, DetachWake(p)
        PROVE  Cardinality(Sleepers(t)') <= Cardinality(WaitEvents(t)')
    <2>1. Sleepers(t)' \subseteq Sleepers(t)
      BY <1>23 DEF DetachWake, Sleepers, Goto, threadVars, TypeOK
    <2>2. WaitEvents(t) \subseteq WaitEvents(t)'
      BY <1>23 DEF DetachWake, WaitEvents, eventVars, TypeOK
    <2>3. QED
      BY <2>1, <2>2, FewerSleepers, EventsFiniteNext
  <1>24. ASSUME NEW p \in Threads, kgsl_cancel_events(p)
        PROVE  Cardinality(Sleepers(t)') <= Cardinality(WaitEvents(t)')
    <2>1. kgsl_context_is_bad
      BY <1>24 DEF kgsl_cancel_events, FaultIsBad, IInv, DetachedOnce, DetachPCs, kgsl_context_is_bad
    <2>2. QED
      BY <2>1
  <1>25. ASSUME NEW p \in Threads, kgsl_del_event_group(p)
        PROVE  Cardinality(Sleepers(t)') <= Cardinality(WaitEvents(t)')
    <2>1. Sleepers(t)' \subseteq Sleepers(t)
      BY <1>25 DEF kgsl_del_event_group, Sleepers, Goto, threadVars, TypeOK
    <2>2. WaitEvents(t) \subseteq WaitEvents(t)'
      BY <1>25 DEF kgsl_del_event_group, WaitEvents, eventVars, TypeOK
    <2>3. QED
      BY <2>1, <2>2, FewerSleepers, EventsFiniteNext
  <1>26. ASSUME NEW p \in Threads, DetachPut(p)
        PROVE  Cardinality(Sleepers(t)') <= Cardinality(WaitEvents(t)')
    <2>1. Sleepers(t)' \subseteq Sleepers(t)
      BY <1>26 DEF DetachPut, Sleepers, Goto, threadVars, TypeOK
    <2>2. WaitEvents(t) \subseteq WaitEvents(t)'
      BY <1>26 DEF DetachPut, WaitEvents, eventVars, TypeOK
    <2>3. QED
      BY <2>1, <2>2, FewerSleepers, EventsFiniteNext
  <1>27. ASSUME NEW p \in Threads, kgsl_context_get(p)
        PROVE  Cardinality(Sleepers(t)') <= Cardinality(WaitEvents(t)')
    <2>1. Sleepers(t)' \subseteq Sleepers(t)
      BY <1>27 DEF kgsl_context_get, Sleepers, Goto, threadVars, TypeOK
    <2>2. WaitEvents(t) \subseteq WaitEvents(t)'
      BY <1>27 DEF kgsl_context_get, WaitEvents, eventVars, TypeOK
    <2>3. QED
      BY <2>1, <2>2, FewerSleepers, EventsFiniteNext
  <1>28. ASSUME NEW p \in Threads, WaitTimeout(p)
        PROVE  Cardinality(Sleepers(t)') <= Cardinality(WaitEvents(t)')
    <2>1. Sleepers(t)' \subseteq Sleepers(t)
      BY <1>28 DEF WaitTimeout, Sleepers, Goto, threadVars, TypeOK
    <2>2. WaitEvents(t) \subseteq WaitEvents(t)'
      BY <1>28 DEF WaitTimeout, WaitEvents, eventVars, TypeOK
    <2>3. QED
      BY <2>1, <2>2, FewerSleepers, EventsFiniteNext
  <1>29. ASSUME NEW p \in Threads, FaultInvalidate(p)
        PROVE  Cardinality(Sleepers(t)') <= Cardinality(WaitEvents(t)')
    <2>1. Sleepers(t)' \subseteq Sleepers(t)
      BY <1>29 DEF FaultInvalidate, Sleepers, Goto, threadVars, TypeOK
    <2>2. WaitEvents(t) \subseteq WaitEvents(t)'
      BY <1>29 DEF FaultInvalidate, WaitEvents, eventVars, TypeOK
    <2>3. QED
      BY <2>1, <2>2, FewerSleepers, EventsFiniteNext
  <1>30. CASE UNCHANGED vars
    <2>1. Sleepers(t)' \subseteq Sleepers(t)
      BY <1>30 DEF vars, Sleepers, Goto, threadVars, TypeOK
    <2>2. WaitEvents(t) \subseteq WaitEvents(t)'
      BY <1>30 DEF vars, WaitEvents, eventVars, TypeOK
    <2>3. QED
      BY <2>1, <2>2, FewerSleepers, EventsFiniteNext
  <1>31. QED
    BY <1>1, <1>2, <1>3, <1>4, <1>5, <1>6, <1>7, <1>8, <1>9, <1>10, <1>11,
       <1>12, <1>13, <1>14, <1>15, <1>16, <1>17, <1>18, <1>19, <1>20, <1>21,
       <1>22, <1>23, <1>24, <1>25, <1>26, <1>27, <1>28, <1>29, <1>30
       DEF Next, Hwsched, Step

\* Every step keeps the sleepers counted.
LEMMA CountedStep ==
    ASSUME TypeOK, IInv, InWindow, MemstoreFollowsGpu, WaitersEvent, FaultIsBad,
           SleepersCounted, [Next]_vars
    PROVE  SleepersCounted'
  <1> SUFFICES ASSUME ~kgsl_context_is_bad', NEW t \in Timestamp,
                      Pos(retired') < Pos(t)
               PROVE  Cardinality(Sleepers(t)') <= Cardinality(WaitEvents(t)')
    BY DEF SleepersCounted
  <1>1. ~kgsl_context_is_bad /\ ~detached
    BY BadStays DEF kgsl_context_is_bad
  <1>2. Pos(retired) < Pos(t)
    BY <1>1, RetiredForward, RetiredNext, Distances, PosType
  <1>3. Cardinality(Sleepers(t)) <= Cardinality(WaitEvents(t))
    BY <1>1, <1>2 DEF SleepersCounted
  <1>4. QED
    BY <1>1, <1>2, <1>3, BalanceStep

\* Every step keeps an event on its way to a waiter whose timestamp retired.
LEMMA DueStep ==
    ASSUME TypeOK, IInv, InWindow, MemstoreFollowsGpu, SleepersCounted, DueWakes,
           [Next]_vars
    PROVE  DueWakes'
  <1> SUFFICES ASSUME ~kgsl_context_is_bad', NEW p \in Threads,
                      pc'[p] = "w_sleep", ~woken'[p],
                      Pos(ts'[p]) <= Pos(retired')
               PROVE  \E e \in Events : DueEvent(e)'
    BY DEF DueWakes
  <1>1. ~kgsl_context_is_bad /\ ~detached
    BY BadStays DEF kgsl_context_is_bad
  <1>2. /\ pc[p] = "w_sleep" /\ ts'[p] = ts[p]
        /\ woken[p] => ~_check_context_timestamp(p) /\ retired' = retired
        /\ \A x \in Events : est[x] = "queued" /\ est'[x] = "free" => efunc[x] # "wait"
    BY SleepMoves DEF SleepMove
  <1>3. /\ Pos(retired) <= Pos(retired') /\ Pos(retired') \in Nat
        /\ Pos(retired) \in Nat /\ Pos(ts[p]) \in Nat
    BY <1>1, RetiredForward, RetiredNext, Distances
  <1>4. \E e \in Events :
           /\ efunc[e] = "wait"
           /\ \/ est[e] = "queued"
              \/ est[e] = "listed" /\ Pos(ets[e]) <= Pos(retired')
    <2>1. CASE Pos(ts[p]) <= Pos(retired) /\ ~woken[p]
      <3>1. PICK e \in Events : DueEvent(e)
        BY <1>1, <1>2, <2>1 DEF DueWakes
      <3>2. QED
        BY <1>3, <3>1, Distances DEF DueEvent
    <2>2. CASE Pos(ts[p]) <= Pos(retired) /\ woken[p]
      <3>1. ref > 0 /\ Pos(retired) < Window /\ Pos(ts[p]) < Window
        BY <1>1, <1>2, AttachedKept, Distances DEF InWindow, AskPCs
      <3>2. kgsl_check_timestamp(ts[p])
        BY <2>2, <3>1, CmpByPos DEF kgsl_check_timestamp, TypeOK
      <3>3. QED
        BY <1>2, <2>2, <3>2 DEF _check_context_timestamp
    <2>3. CASE Pos(retired) < Pos(ts[p])
      <3>1. ts[p] \in Timestamp /\ p \in Sleepers(ts[p])
        BY <1>2 DEF Sleepers, TypeOK
      <3>2. Cardinality(Sleepers(ts[p])) <= Cardinality(WaitEvents(ts[p]))
        BY <1>1, <2>3, <3>1 DEF SleepersCounted
      <3>3. Cardinality(Sleepers(ts[p])) > 0
        BY <3>1, SleepersFinite, FS_EmptySet
      <3>4. WaitEvents(ts[p]) # {}
        BY <3>2, <3>3, SleepersFinite, FS_EmptySet
      <3>5. PICK e \in Events : est[e] = "listed" /\ efunc[e] = "wait" /\ ets[e] = ts[p]
        BY <3>4 DEF WaitEvents
      <3>6. QED
        BY <1>2, <3>5
    <2>4. QED
      BY <1>3, <2>1, <2>2, <2>3
  <1>5. PICK e \in Events :
           /\ efunc[e] = "wait"
           /\ \/ est[e] = "queued"
              \/ est[e] = "listed" /\ Pos(ets[e]) <= Pos(retired')
    BY <1>4
  <1>6. EventMove(e)
    BY EventMoves
  <1>7. DueEvent(e)'
    BY <1>2, <1>5, <1>6 DEF EventMove, DueEvent
  <1>8. QED
    BY <1>7

-----------------------------------------------------------------------------
(***************************************************************************)
(* The theorems.                                                           *)
(***************************************************************************)
\* OrderInv holds in every state of the context's life.
THEOREM OrderInvariant == Spec => [](IInv /\ OrderInv)
  <1>1. Init => OrderInv
    <2> SUFFICES ASSUME Init PROVE OrderInv
      OBVIOUS
    <2>1. InWindow
      BY PosType, EventsAssumption, WindowAssumption DEF Init, InWindow, AskPCs
    <2>2. MemstoreFollowsGpu /\ DetachUnderWay /\ WaitersEvent
      BY DEF Init, MemstoreFollowsGpu, DetachUnderWay, WaitersEvent
    <2>3. ListedAhead /\ PassOwed
      BY PosType DEF Init, ListedAhead, PassOwed
    <2>4. BadWakes /\ FaultIsBad /\ DueWakes /\ RetiredByPos
      BY DEF Init, BadWakes, FaultIsBad, DueWakes, RetiredByPos, kgsl_context_is_bad
    <2>5. SleepersCounted
      <3>1. \A t \in Timestamp : Sleepers(t) = {} /\ WaitEvents(t) = {}
        BY DEF Init, Sleepers, WaitEvents
      <3>2. QED
        BY <3>1, FS_EmptySet DEF SleepersCounted
    <2>6. QED
      BY <2>1, <2>2, <2>3, <2>4, <2>5 DEF OrderInv
  <1>2. IInv /\ OrderInv /\ [Next]_vars => OrderInv'
    <2> SUFFICES ASSUME IInv, OrderInv, [Next]_vars PROVE OrderInv'
      OBVIOUS
    <2> USE DEF OrderInv
    <2>1. TypeOK
      BY DEF IInv
    <2>2. InWindow' /\ MemstoreFollowsGpu' /\ DetachUnderWay' /\ WaitersEvent'
      BY <2>1, WindowStep, MemstoreStep, DetachUnderWayStep, WaitersEventStep
    <2>3. ListedAhead' /\ PassOwed'
      BY <2>1, AheadStep, PassStep
    <2>4. BadWakes' /\ FaultIsBad' /\ SleepersCounted' /\ DueWakes' /\ RetiredByPos'
      BY <2>1, BadWakesStep, FaultIsBadStep, CountedStep, DueStep, RetiredStep
    <2>5. QED
      BY <2>2, <2>3, <2>4
  <1>3. QED
    BY <1>1, <1>2, EventsInv, PTL DEF Spec

\* An event reports its timestamp as retired (signal_event with
\* KGSL_EVENT_RETIRED) only if it is, across the rollover, until the context
\* goes bad.
THEOREM RetiredCorrect == Spec => []RetiredIsTrue
  <1>1. IInv /\ OrderInv => RetiredIsTrue
    <2> SUFFICES ASSUME IInv, OrderInv, ~kgsl_context_is_bad, NEW e \in Events,
                        est[e] = "queued", eres[e] = "retired"
                 PROVE  kgsl_check_timestamp(ets[e])
      BY DEF RetiredIsTrue
    <2>1. TypeOK /\ ref > 0 /\ InWindow
      BY AttachedKept DEF IInv, OrderInv, kgsl_context_is_bad
    <2>2. Pos(ets[e]) <= Pos(retired)
      BY DEF OrderInv, RetiredByPos
    <2>3. Pos(ets[e]) < Window /\ Pos(retired) < Window
      BY <2>1, Distances DEF InWindow
    <2>4. QED
      BY <2>1, <2>2, <2>3, CmpByPos DEF kgsl_check_timestamp, TypeOK
  <1>2. QED
    BY <1>1, OrderInvariant, PTL

\* No event misses its timestamp: kgsl_add_event looks under group->lock, and
\* after every write of the memstore somebody passes over the group.
THEOREM NothingMissed == Spec => []NoMissedEvent
  <1>1. IInv /\ OrderInv => NoMissedEvent
    <2> SUFFICES ASSUME IInv, OrderInv, ~EventsCancelled, NEW e \in Listed,
                        kgsl_check_timestamp(ets[e])
                 PROVE  \/ kick \/ hpc = "g_lock" \/ Flushing # {}
                        \/ \E p \in Threads : pc[p] = "m_lock"
      BY DEF NoMissedEvent
    <2>1. CASE detached
      <3>1. master /\ \A p \in Threads : pc[p] \notin {"d_del", "d_put"}
        BY DEF EventsCancelled
      <3>2. PICK p \in Threads : pc[p] \in DetachPCs
        BY <2>1, <3>1 DEF OrderInv, DetachUnderWay
      <3>3. QED
        BY <3>1, <3>2 DEF DetachPCs, Flushing
    <2>2. CASE ~detached
      <3>1. TypeOK /\ ref > 0 /\ InWindow /\ e \in Events /\ est[e] = "listed"
        BY <2>2, AttachedKept DEF IInv, OrderInv, Listed
      <3>2. Pos(ets[e]) < Window /\ Pos(retired) < Window
        BY <3>1, Distances DEF InWindow
      <3>3. Pos(ets[e]) <= Pos(retired)
        BY <3>1, <3>2, CmpByPos DEF kgsl_check_timestamp, TypeOK
      <3>4. PassComes
        BY <2>2, <3>1, <3>3 DEF OrderInv, PassOwed
      <3>5. QED
        BY <3>4 DEF PassComes, Flushing
    <2>3. QED
      BY <2>1, <2>2
  <1>2. QED
    BY <1>1, OrderInvariant, PTL

\* No waiter of adreno_drawctxt_wait sleeps on when its condition holds, even
\* if others on the same timestamp time out and cancel events they cannot tell
\* apart (kgsl_cancel_event).
THEOREM NobodySleepsOn == Spec => []NoLostWakeup
  <1>1. IInv /\ OrderInv => NoLostWakeup
    <2> SUFFICES ASSUME IInv, OrderInv, NEW p \in Threads, pc[p] = "w_sleep",
                        ~woken[p], _check_context_timestamp(p)
                 PROVE  WakeOwed
      BY DEF NoLostWakeup
    <2>1. CASE kgsl_context_is_bad
      BY <2>1 DEF OrderInv, BadWakes, WakePCs, WakeOwed
    <2>2. CASE ~kgsl_context_is_bad
      <3>1. TypeOK /\ ref > 0 /\ InWindow
        BY <2>2, AttachedKept DEF IInv, OrderInv, kgsl_context_is_bad
      <3>2. Pos(ts[p]) < Window /\ Pos(retired) < Window
        BY <3>1, Distances DEF InWindow, AskPCs
      <3>3. kgsl_check_timestamp(ts[p])
        BY <2>2 DEF _check_context_timestamp
      <3>4. Pos(ts[p]) <= Pos(retired)
        BY <3>1, <3>2, <3>3, CmpByPos DEF kgsl_check_timestamp, TypeOK
      <3>5. PICK e \in Events : DueEvent(e)
        BY <2>2, <3>4 DEF OrderInv, DueWakes
      <3>6. CASE est[e] = "queued"
        BY <3>5, <3>6 DEF DueEvent, WakeOwed
      <3>7. CASE est[e] = "listed" /\ Pos(ets[e]) <= Pos(retired)
        <4>1. Pos(ets[e]) < Window
          BY <3>1, <3>7 DEF InWindow
        <4>2. kgsl_check_timestamp(ets[e])
          BY <3>1, <3>2, <3>7, <4>1, CmpByPos DEF kgsl_check_timestamp, TypeOK
        <4>3. QED
          BY <3>5, <3>7, <4>2 DEF DueEvent, Listed, WakeOwed
      <3>8. QED
        BY <3>5, <3>6, <3>7 DEF DueEvent
    <2>3. QED
      BY <2>1, <2>2
  <1>2. QED
    BY <1>1, OrderInvariant, PTL
=============================================================================
