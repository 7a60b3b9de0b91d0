------------------------- MODULE KgslSyncObjProofs --------------------------
(***************************************************************************)
(* Proofs about a sync object, for any number of sync points of any types: *)
(* the types, the references of the object and of its sync points, that    *)
(* the commands behind it never start early, that the scheduler is told,   *)
(* and that the timer never outlives the object.                           *)
(***************************************************************************)
EXTENDS KgslSyncObj, FiniteSetTheorems, TLAPS

(***************************************************************************)
(* The inductive invariant.                                                *)
(***************************************************************************)

\* The types, but for the counts: of the flags and of everything else.
Flags ==
    /\ started \in BOOLEAN /\ timer \in BOOLEAN
    /\ handle \in [Syncs -> BOOLEAN] /\ sig \in [Syncs -> BOOLEAN]
    /\ inq \in BOOLEAN /\ bad \in BOOLEAN /\ kick \in BOOLEAN

Ranges ==
    /\ num \in 0 .. N
    /\ pending \subseteq 1 .. num
    /\ cpc \in [Syncs -> InCallback \cup
                  {"none", "set", "wait", "queued", "put", "work", "lost", "gone"}]
    /\ lock \in {"none", "hwsched", "timer"}
    /\ opc \in {"idle", "add", "register", "handle", "kick", "error"}
    /\ tpc \in {"idle", "get", "dump", "unlock", "put"}
    /\ hpc \in {"idle", "lock", "check", "arm", "destroy", "unlock"}
    /\ dpc \in {"idle", "timer", "loop", "cancel", "put", "last"}
    /\ di \in 1 .. N + 1

\* Where the actors can be.
Control ==
    /\ OneOwner
    /\ PointStates
    /\ SubmitPoint
    /\ DestroyPoint
    /\ LockHolder
    /\ PendingHasCallback

\* The counts are exact.
Counts == ObjRefCount /\ SourceRefCount

\* Nothing is early, late or forgotten.
Order == ClearMeansSignaled /\ NoLostKick /\ TimerStopped

IInv == TypeOK /\ Control /\ Counts /\ Order

-----------------------------------------------------------------------------
(***************************************************************************)
(* Counting the users of the object.                                       *)
(***************************************************************************)

\* The sync points in use can be counted.
LEMMA LiveFinite == IsFiniteSet(LivePoints) /\ Cardinality(LivePoints) \in Nat
  <1>1. IsFiniteSet(Syncs)
    BY FS_Interval, SyncAssumption DEF Syncs
  <1>2. IsFiniteSet(LivePoints)
    BY <1>1, FS_Subset DEF LivePoints
  <1>3. QED
    BY <1>2, FS_CardinalityType

\* A new sync point is one more user.
LEMMA LiveAdd ==
    ASSUME TypeOK, NEW i \in Syncs, cpc[i] \in {"none", "gone"},
           NEW l, l \notin {"none", "gone"}, cpc' = [cpc EXCEPT ![i] = l]
    PROVE  Cardinality(LivePoints') = Cardinality(LivePoints) + 1
  <1>1. LivePoints' = LivePoints \cup {i} /\ i \notin LivePoints
    BY DEF TypeOK, LivePoints
  <1>2. QED
    BY <1>1, LiveFinite, FS_AddElement

\* A callback that goes on stays a user.
LEMMA LiveSame ==
    ASSUME TypeOK, NEW i \in Syncs, cpc[i] \notin {"none", "gone"},
           NEW l, l \notin {"none", "gone"}, cpc' = [cpc EXCEPT ![i] = l]
    PROVE  LivePoints' = LivePoints
  BY DEF TypeOK, LivePoints

\* A sync point whose reference is put is one user less.
LEMMA LiveRemove ==
    ASSUME TypeOK, NEW i \in Syncs, cpc[i] \notin {"none", "gone"},
           cpc' = [cpc EXCEPT ![i] = "gone"]
    PROVE  Cardinality(LivePoints') = Cardinality(LivePoints) - 1
  <1>1. LivePoints' = LivePoints \ {i} /\ i \in LivePoints
    BY DEF TypeOK, LivePoints
  <1>2. QED
    BY <1>1, LiveFinite, FS_RemoveElement

\* Whoever uses the object keeps it alive, and two users are two references.
LEMMA UsersHold ==
    ASSUME TypeOK, ObjRefCount
    PROVE  /\ \A i \in Syncs : cpc[i] \notin {"none", "gone"} => ref > 0
           /\ Owned => ref > 0
           /\ tpc \in {"dump", "unlock", "put"} => ref > 0
           /\ \A i \in Syncs : Owned /\ cpc[i] \notin {"none", "gone"} => ref > 1
           /\ Owned /\ tpc \in {"dump", "unlock", "put"} => ref > 1
  <1>1. ASSUME NEW i \in Syncs, cpc[i] \notin {"none", "gone"}
        PROVE  Cardinality(LivePoints) > 0
    <2>1. LivePoints # {}
      BY <1>1 DEF LivePoints
    <2>2. QED
      BY <2>1, LiveFinite, FS_EmptySet
  <1>2. QED
    BY <1>1, LiveFinite DEF TypeOK, ObjRefCount, One

-----------------------------------------------------------------------------
(***************************************************************************)
(* The steps of the actors keep each part of the invariant.                *)
(***************************************************************************)

\* Every step keeps the actors where they can be.
LEMMA ControlStep ==
    ASSUME TypeOK, Control, ObjRefCount, [Next]_vars
    PROVE  Control'
  <1>1. CASE kgsl_drawobj_sync_create
    BY <1>1, SyncAssumption, UsersHold
       DEF kgsl_drawobj_sync_create, ctxVars, Control, TypeOK, Syncs,
           SubmitPCs, At, InCallback, OneOwner, PointStates, SubmitPoint,
           DestroyPoint, LockHolder, PendingHasCallback, Owned
  <1>2. CASE AddSync
    BY <1>2, SyncAssumption
       DEF AddSync, Callback, ctxVars, Control, TypeOK, Syncs, SubmitPCs, At,
           InCallback, OneOwner, PointStates, SubmitPoint, DestroyPoint,
           LockHolder, PendingHasCallback
  <1>3. CASE AddFails
    BY <1>3, SyncAssumption
       DEF AddFails, objVars, eventVars, ctxVars, Control, TypeOK, Syncs,
           SubmitPCs, At, InCallback, OneOwner, PointStates, SubmitPoint,
           DestroyPoint, LockHolder, PendingHasCallback
  <1>4. CASE drawobj_add_sync_timestamp
    BY <1>4, SyncAssumption
       DEF drawobj_add_sync_timestamp, Callback, objVars, ctxVars, Control,
           TypeOK, Syncs, SubmitPCs, At, InCallback, OneOwner, PointStates,
           SubmitPoint, DestroyPoint, LockHolder, PendingHasCallback
  <1>5. CASE AddEventFails
    BY <1>5, SyncAssumption
       DEF AddEventFails, kgsl_drawobj_put, Put, Callback, ctxVars, Control,
           TypeOK, Syncs, SubmitPCs, At, InCallback, OneOwner, PointStates,
           SubmitPoint, DestroyPoint, LockHolder, PendingHasCallback
  <1>6. CASE drawobj_add_sync_timeline
    <2>1. CASE ~sig[num]
      <3>1. /\ cpc' = [cpc EXCEPT ![num] = "wait"]
            /\ pending' = pending /\ opc' = "add"
        BY <1>6, <2>1 DEF drawobj_add_sync_timeline, Callback
      <3>2. UNCHANGED <<num, timer, handle, sig, ctxVars, tpc, hpc, dpc, di>>
        BY <1>6 DEF drawobj_add_sync_timeline
      <3>3. QED
        BY <1>6, <3>1, <3>2, SyncAssumption
           DEF drawobj_add_sync_timeline, ctxVars, Control, TypeOK, Syncs,
               SubmitPCs, At, InCallback, OneOwner, PointStates, SubmitPoint,
               DestroyPoint, LockHolder, PendingHasCallback
    <2>2. CASE sig[num]
      <3>1. /\ cpc' = [cpc EXCEPT ![num] = "gone"]
            /\ pending' = pending \ {num} /\ opc' = "add"
        BY <1>6, <2>2 DEF drawobj_add_sync_timeline, Callback
      <3>2. UNCHANGED <<num, timer, handle, sig, ctxVars, tpc, hpc, dpc, di>>
        BY <1>6 DEF drawobj_add_sync_timeline
      <3>3. QED
        BY <1>6, <3>1, <3>2, SyncAssumption
           DEF drawobj_add_sync_timeline, ctxVars, Control, TypeOK, Syncs,
               SubmitPCs, At, InCallback, OneOwner, PointStates, SubmitPoint,
               DestroyPoint, LockHolder, PendingHasCallback
    <2>3. QED
      BY <2>1, <2>2
  <1>7. CASE kgsl_sync_fence_async_wait
    BY <1>7, SyncAssumption
       DEF kgsl_sync_fence_async_wait, Callback, objVars, ctxVars, Control,
           TypeOK, Syncs, SubmitPCs, At, InCallback, OneOwner, PointStates,
           SubmitPoint, DestroyPoint, LockHolder, PendingHasCallback
  <1>8. CASE FenceHandle
    BY <1>8, SyncAssumption
       DEF FenceHandle, objVars, ctxVars, Control, TypeOK, Syncs, SubmitPCs,
           At, InCallback, OneOwner, PointStates, SubmitPoint, DestroyPoint,
           LockHolder, PendingHasCallback
  <1>9. CASE drawobj_add_sync_fence
    BY <1>9, SyncAssumption
       DEF drawobj_add_sync_fence, kgsl_drawobj_put, Callback, ctxVars,
           Control, TypeOK, Syncs, SubmitPCs, At, InCallback, OneOwner,
           PointStates, SubmitPoint, DestroyPoint, LockHolder,
           PendingHasCallback
  <1>10. CASE adreno_hwsched_queue_cmds
    BY <1>10, SyncAssumption
       DEF adreno_hwsched_queue_cmds, objVars, eventVars, Control, TypeOK,
           Syncs, SubmitPCs, At, InCallback, OneOwner, PointStates,
           SubmitPoint, DestroyPoint, LockHolder, PendingHasCallback
  <1>11. CASE QueueContext
    BY <1>11, SyncAssumption
       DEF QueueContext, objVars, eventVars, Control, TypeOK, Syncs,
           SubmitPCs, At, InCallback, OneOwner, PointStates, SubmitPoint,
           DestroyPoint, LockHolder, PendingHasCallback
  <1>12. CASE SubmitError
    BY <1>12, SyncAssumption
       DEF SubmitError, objVars, eventVars, ctxVars, Control, TypeOK, Syncs,
           SubmitPCs, At, InCallback, OneOwner, PointStates, SubmitPoint,
           DestroyPoint, LockHolder, PendingHasCallback
  <1>13. ASSUME NEW i \in Syncs, Signal(i)
        PROVE  Control'
    BY <1>13, SyncAssumption
       DEF Signal, At, objVars, ctxVars, pcVars, Control, TypeOK, Syncs,
           SubmitPCs, InCallback, OneOwner, PointStates, SubmitPoint,
           DestroyPoint, LockHolder, PendingHasCallback
  <1>14. ASSUME NEW i \in Syncs, _kgsl_event_worker(i)
        PROVE  Control'
    BY <1>14, SyncAssumption
       DEF _kgsl_event_worker, At, InCallback, Callback, objVars, ctxVars,
           pcVars, Control, TypeOK, Syncs, SubmitPCs, OneOwner, PointStates,
           SubmitPoint, DestroyPoint, LockHolder, PendingHasCallback
  <1>15. ASSUME NEW i \in Syncs, drawobj_sync_expire(i)
        PROVE  Control'
    BY <1>15, SyncAssumption
       DEF drawobj_sync_expire, At, Callback, ctxVars, pcVars, Control,
           TypeOK, Syncs, SubmitPCs, InCallback, OneOwner, PointStates,
           SubmitPoint, DestroyPoint, LockHolder, PendingHasCallback
  <1>16. ASSUME NEW i \in Syncs, ExpireCheck(i)
        PROVE  Control'
    BY <1>16, SyncAssumption
       DEF ExpireCheck, At, Callback, objVars, ctxVars, pcVars, Control,
           TypeOK, Syncs, SubmitPCs, InCallback, OneOwner, PointStates,
           SubmitPoint, DestroyPoint, LockHolder, PendingHasCallback
  <1>17. ASSUME NEW i \in Syncs, ExpireTimer(i)
        PROVE  Control'
    BY <1>17, SyncAssumption
       DEF ExpireTimer, At, Callback, ctxVars, pcVars, Control, TypeOK, Syncs,
           SubmitPCs, InCallback, OneOwner, PointStates, SubmitPoint,
           DestroyPoint, LockHolder, PendingHasCallback
  <1>18. ASSUME NEW i \in Syncs, adreno_hwsched_queue_context(i)
        PROVE  Control'
    BY <1>18, SyncAssumption
       DEF adreno_hwsched_queue_context, At, Callback, objVars, pcVars,
           Control, TypeOK, Syncs, SubmitPCs, InCallback, OneOwner,
           PointStates, SubmitPoint, DestroyPoint, LockHolder,
           PendingHasCallback
  <1>19. ASSUME NEW i \in Syncs, drawobj_sync_func(i)
        PROVE  Control'
    BY <1>19, SyncAssumption
       DEF drawobj_sync_func, At, kgsl_drawobj_put, Put, Callback, ctxVars,
           pcVars, Control, TypeOK, Syncs, SubmitPCs, InCallback, OneOwner,
           PointStates, SubmitPoint, DestroyPoint, LockHolder,
           PendingHasCallback
  <1>20. ASSUME NEW i \in Syncs, SyncFuncLost(i)
        PROVE  Control'
    BY <1>20, SyncAssumption
       DEF SyncFuncLost, At, kgsl_drawobj_put, Callback, ctxVars, pcVars,
           Control, TypeOK, Syncs, SubmitPCs, InCallback, OneOwner,
           PointStates, SubmitPoint, DestroyPoint, LockHolder,
           PendingHasCallback
  <1>21. ASSUME NEW i \in Syncs, drawobj_sync_fence_func(i)
        PROVE  Control'
    BY <1>21, SyncAssumption
       DEF drawobj_sync_fence_func, At, kgsl_drawobj_put, Callback, ctxVars,
           pcVars, Control, TypeOK, Syncs, SubmitPCs, InCallback, OneOwner,
           PointStates, SubmitPoint, DestroyPoint, LockHolder,
           PendingHasCallback
  <1>22. ASSUME NEW i \in Syncs, drawobj_sync_timeline_fence_callback(i)
        PROVE  Control'
    BY <1>22, SyncAssumption
       DEF drawobj_sync_timeline_fence_callback, At, Callback, objVars,
           ctxVars, pcVars, Control, TypeOK, Syncs, SubmitPCs, InCallback,
           OneOwner, PointStates, SubmitPoint, DestroyPoint, LockHolder,
           PendingHasCallback
  <1>23. ASSUME NEW i \in Syncs, drawobj_sync_timeline_fence_work(i)
        PROVE  Control'
    BY <1>23, SyncAssumption
       DEF drawobj_sync_timeline_fence_work, At, kgsl_drawobj_put, Put,
           Callback, ctxVars, pcVars, Control, TypeOK, Syncs, SubmitPCs,
           InCallback, OneOwner, PointStates, SubmitPoint, DestroyPoint,
           LockHolder, PendingHasCallback
  <1>24. CASE TimerFires
    BY <1>24, SyncAssumption
       DEF TimerFires, eventVars, ctxVars, Control, TypeOK, Syncs, SubmitPCs,
           At, InCallback, OneOwner, PointStates, SubmitPoint, DestroyPoint,
           LockHolder, PendingHasCallback
  <1>25. CASE syncobj_timer
    BY <1>25, SyncAssumption
       DEF syncobj_timer, eventVars, ctxVars, Control, TypeOK, Syncs,
           SubmitPCs, At, InCallback, OneOwner, PointStates, SubmitPoint,
           DestroyPoint, LockHolder, PendingHasCallback
  <1>26. CASE adreno_drawctxt_dump
    BY <1>26, SyncAssumption
       DEF adreno_drawctxt_dump, objVars, eventVars, Control, TypeOK, Syncs,
           SubmitPCs, At, InCallback, OneOwner, PointStates, SubmitPoint,
           DestroyPoint, LockHolder, PendingHasCallback
  <1>27. CASE DumpUnlock
    BY <1>27, SyncAssumption
       DEF DumpUnlock, objVars, eventVars, Control, TypeOK, Syncs, SubmitPCs,
           At, InCallback, OneOwner, PointStates, SubmitPoint, DestroyPoint,
           LockHolder, PendingHasCallback
  <1>28. CASE TimerPut
    BY <1>28, SyncAssumption
       DEF TimerPut, kgsl_drawobj_put, ctxVars, Control, TypeOK, Syncs,
           SubmitPCs, At, InCallback, OneOwner, PointStates, SubmitPoint,
           DestroyPoint, LockHolder, PendingHasCallback
  <1>29. CASE hwsched_handle_jobs
    BY <1>29, SyncAssumption
       DEF hwsched_handle_jobs, objVars, eventVars, Control, TypeOK, Syncs,
           SubmitPCs, At, InCallback, OneOwner, PointStates, SubmitPoint,
           DestroyPoint, LockHolder, PendingHasCallback
  <1>30. CASE hwsched_sendcmds
    BY <1>30, SyncAssumption
       DEF hwsched_sendcmds, objVars, eventVars, Control, TypeOK, Syncs,
           SubmitPCs, At, InCallback, OneOwner, PointStates, SubmitPoint,
           DestroyPoint, LockHolder, PendingHasCallback
  <1>31. CASE _retire_syncobj
    BY <1>31, SyncAssumption
       DEF _retire_syncobj, objVars, eventVars, Control, TypeOK, Syncs,
           SubmitPCs, At, InCallback, OneOwner, PointStates, SubmitPoint,
           DestroyPoint, LockHolder, PendingHasCallback
  <1>32. CASE RetireLater
    BY <1>32, SyncAssumption
       DEF RetireLater, objVars, eventVars, ctxVars, Control, TypeOK, Syncs,
           SubmitPCs, At, InCallback, OneOwner, PointStates, SubmitPoint,
           DestroyPoint, LockHolder, PendingHasCallback
  <1>33. CASE StartTimer
    BY <1>33, SyncAssumption
       DEF StartTimer, eventVars, ctxVars, Control, TypeOK, Syncs, SubmitPCs,
           At, InCallback, OneOwner, PointStates, SubmitPoint, DestroyPoint,
           LockHolder, PendingHasCallback
  <1>34. CASE HwschedUnlock
    BY <1>34, SyncAssumption
       DEF HwschedUnlock, objVars, eventVars, Control, TypeOK, Syncs,
           SubmitPCs, At, InCallback, OneOwner, PointStates, SubmitPoint,
           DestroyPoint, LockHolder, PendingHasCallback
  <1>35. CASE ContextBad
    BY <1>35, SyncAssumption
       DEF ContextBad, objVars, eventVars, pcVars, Control, TypeOK, Syncs,
           SubmitPCs, At, InCallback, OneOwner, PointStates, SubmitPoint,
           DestroyPoint, LockHolder, PendingHasCallback
  <1>36. CASE drawctxt_detach_drawobjs
    BY <1>36, SyncAssumption
       DEF drawctxt_detach_drawobjs, objVars, eventVars, Control, TypeOK,
           Syncs, SubmitPCs, At, InCallback, OneOwner, PointStates,
           SubmitPoint, DestroyPoint, LockHolder, PendingHasCallback
  <1>37. CASE DestroyTimer
    BY <1>37, SyncAssumption
       DEF DestroyTimer, eventVars, ctxVars, Control, TypeOK, Syncs,
           SubmitPCs, At, InCallback, OneOwner, PointStates, SubmitPoint,
           DestroyPoint, LockHolder, PendingHasCallback
  <1>38. CASE syncobj_destroy
    BY <1>38, SyncAssumption
       DEF syncobj_destroy, eventVars, ctxVars, Control, TypeOK, Syncs,
           SubmitPCs, At, InCallback, OneOwner, PointStates, SubmitPoint,
           DestroyPoint, LockHolder, PendingHasCallback
  <1>39. CASE DestroyCancel
    BY <1>39, SyncAssumption
       DEF DestroyCancel, At, InCallback, Callback, objVars, ctxVars, Control,
           TypeOK, Syncs, SubmitPCs, OneOwner, PointStates, SubmitPoint,
           DestroyPoint, LockHolder, PendingHasCallback
  <1>40. CASE DestroyPut
    BY <1>40, SyncAssumption
       DEF DestroyPut, Put, kgsl_drawobj_put, Callback, ctxVars, Control,
           TypeOK, Syncs, SubmitPCs, At, InCallback, OneOwner, PointStates,
           SubmitPoint, DestroyPoint, LockHolder, PendingHasCallback
  <1>41. CASE DestroySched
    BY <1>41, SyncAssumption
       DEF DestroySched, objVars, eventVars, Control, TypeOK, Syncs,
           SubmitPCs, At, InCallback, OneOwner, PointStates, SubmitPoint,
           DestroyPoint, LockHolder, PendingHasCallback
  <1>42. CASE kgsl_drawobj_destroy
    BY <1>42, SyncAssumption
       DEF kgsl_drawobj_destroy, kgsl_drawobj_put, ctxVars, Control, TypeOK,
           Syncs, SubmitPCs, At, InCallback, OneOwner, PointStates,
           SubmitPoint, DestroyPoint, LockHolder, PendingHasCallback
  <1>43. CASE UNCHANGED vars
    BY <1>43
       DEF vars, objVars, eventVars, ctxVars, pcVars, Control, TypeOK, Syncs,
           SubmitPCs, At, InCallback, OneOwner, PointStates, SubmitPoint,
           DestroyPoint, LockHolder, PendingHasCallback
  <1>44. QED
    BY <1>1, <1>2, <1>3, <1>4, <1>5, <1>6, <1>7, <1>8, <1>9, <1>10, <1>11,
       <1>12, <1>13, <1>14, <1>15, <1>16, <1>17, <1>18, <1>19, <1>20,
       <1>21, <1>22, <1>23, <1>24, <1>25, <1>26, <1>27, <1>28, <1>29,
       <1>30, <1>31, <1>32, <1>33, <1>34, <1>35, <1>36, <1>37, <1>38,
       <1>39, <1>40, <1>41, <1>42, <1>43
       DEF Next, Submit, RunCallback, RunTimer, Hwsched, Destroy

\* No step is early, and none forgets the scheduler or the timer.
LEMMA OrderStep ==
    ASSUME TypeOK, Control, ObjRefCount, Order, [Next]_vars
    PROVE  Order'
  <1>1. CASE kgsl_drawobj_sync_create
    BY <1>1, SyncAssumption, UsersHold
       DEF kgsl_drawobj_sync_create, ctxVars, Order, ClearMeansSignaled,
           NoLostKick, TimerStopped, TypeOK, Syncs, SubmitPCs, At, InCallback,
           Control, OneOwner, PointStates, SubmitPoint, DestroyPoint,
           LockHolder, PendingHasCallback, Owned
  <1>2. CASE AddSync
    BY <1>2, SyncAssumption
       DEF AddSync, Callback, ctxVars, Order, ClearMeansSignaled, NoLostKick,
           TimerStopped, TypeOK, Syncs, SubmitPCs, At, InCallback, Control,
           OneOwner, PointStates, SubmitPoint, DestroyPoint, LockHolder,
           PendingHasCallback
  <1>3. CASE AddFails
    BY <1>3, SyncAssumption
       DEF AddFails, objVars, eventVars, ctxVars, Order, ClearMeansSignaled,
           NoLostKick, TimerStopped, TypeOK, Syncs, SubmitPCs, At, InCallback,
           Control, OneOwner, PointStates, SubmitPoint, DestroyPoint,
           LockHolder, PendingHasCallback
  <1>4. CASE drawobj_add_sync_timestamp
    BY <1>4, SyncAssumption
       DEF drawobj_add_sync_timestamp, Callback, objVars, ctxVars, Order,
           ClearMeansSignaled, NoLostKick, TimerStopped, TypeOK, Syncs,
           SubmitPCs, At, InCallback, Control, OneOwner, PointStates,
           SubmitPoint, DestroyPoint, LockHolder, PendingHasCallback
  <1>5. CASE AddEventFails
    BY <1>5, SyncAssumption
       DEF AddEventFails, kgsl_drawobj_put, Put, Callback, ctxVars, Order,
           ClearMeansSignaled, NoLostKick, TimerStopped, TypeOK, Syncs,
           SubmitPCs, At, InCallback, Control, OneOwner, PointStates,
           SubmitPoint, DestroyPoint, LockHolder, PendingHasCallback
  <1>6. CASE drawobj_add_sync_timeline
    <2>1. CASE ~sig[num]
      <3>1. /\ cpc' = [cpc EXCEPT ![num] = "wait"]
            /\ pending' = pending /\ opc' = "add"
        BY <1>6, <2>1 DEF drawobj_add_sync_timeline, Callback
      <3>2. UNCHANGED <<num, timer, handle, sig, ctxVars, tpc, hpc, dpc, di>>
        BY <1>6 DEF drawobj_add_sync_timeline
      <3>3. QED
        BY <1>6, <3>1, <3>2, SyncAssumption
           DEF drawobj_add_sync_timeline, ctxVars, Order, ClearMeansSignaled,
               NoLostKick, TimerStopped, TypeOK, Syncs, SubmitPCs, At,
               InCallback, Control, OneOwner, PointStates, SubmitPoint,
               DestroyPoint, LockHolder, PendingHasCallback
    <2>2. CASE sig[num]
      <3>1. /\ cpc' = [cpc EXCEPT ![num] = "gone"]
            /\ pending' = pending \ {num} /\ opc' = "add"
        BY <1>6, <2>2 DEF drawobj_add_sync_timeline, Callback
      <3>2. UNCHANGED <<num, timer, handle, sig, ctxVars, tpc, hpc, dpc, di>>
        BY <1>6 DEF drawobj_add_sync_timeline
      <3>3. QED
        BY <1>6, <3>1, <3>2, SyncAssumption
           DEF drawobj_add_sync_timeline, ctxVars, Order, ClearMeansSignaled,
               NoLostKick, TimerStopped, TypeOK, Syncs, SubmitPCs, At,
               InCallback, Control, OneOwner, PointStates, SubmitPoint,
               DestroyPoint, LockHolder, PendingHasCallback
    <2>3. QED
      BY <2>1, <2>2
  <1>7. CASE kgsl_sync_fence_async_wait
    BY <1>7, SyncAssumption
       DEF kgsl_sync_fence_async_wait, Callback, objVars, ctxVars, Order,
           ClearMeansSignaled, NoLostKick, TimerStopped, TypeOK, Syncs,
           SubmitPCs, At, InCallback, Control, OneOwner, PointStates,
           SubmitPoint, DestroyPoint, LockHolder, PendingHasCallback
  <1>8. CASE FenceHandle
    BY <1>8, SyncAssumption
       DEF FenceHandle, objVars, ctxVars, Order, ClearMeansSignaled,
           NoLostKick, TimerStopped, TypeOK, Syncs, SubmitPCs, At, InCallback,
           Control, OneOwner, PointStates, SubmitPoint, DestroyPoint,
           LockHolder, PendingHasCallback
  <1>9. CASE drawobj_add_sync_fence
    BY <1>9, SyncAssumption
       DEF drawobj_add_sync_fence, kgsl_drawobj_put, Callback, ctxVars, Order,
           ClearMeansSignaled, NoLostKick, TimerStopped, TypeOK, Syncs,
           SubmitPCs, At, InCallback, Control, OneOwner, PointStates,
           SubmitPoint, DestroyPoint, LockHolder, PendingHasCallback
  <1>10. CASE adreno_hwsched_queue_cmds
    BY <1>10, SyncAssumption
       DEF adreno_hwsched_queue_cmds, objVars, eventVars, Order,
           ClearMeansSignaled, NoLostKick, TimerStopped, TypeOK, Syncs,
           SubmitPCs, At, InCallback, Control, OneOwner, PointStates,
           SubmitPoint, DestroyPoint, LockHolder, PendingHasCallback
  <1>11. CASE QueueContext
    BY <1>11, SyncAssumption
       DEF QueueContext, objVars, eventVars, Order, ClearMeansSignaled,
           NoLostKick, TimerStopped, TypeOK, Syncs, SubmitPCs, At, InCallback,
           Control, OneOwner, PointStates, SubmitPoint, DestroyPoint,
           LockHolder, PendingHasCallback
  <1>12. CASE SubmitError
    BY <1>12, SyncAssumption
       DEF SubmitError, objVars, eventVars, ctxVars, Order,
           ClearMeansSignaled, NoLostKick, TimerStopped, TypeOK, Syncs,
           SubmitPCs, At, InCallback, Control, OneOwner, PointStates,
           SubmitPoint, DestroyPoint, LockHolder, PendingHasCallback
  <1>13. ASSUME NEW i \in Syncs, Signal(i)
        PROVE  Order'
    BY <1>13, SyncAssumption
       DEF Signal, At, objVars, ctxVars, pcVars, Order, ClearMeansSignaled,
           NoLostKick, TimerStopped, TypeOK, Syncs, SubmitPCs, InCallback,
           Control, OneOwner, PointStates, SubmitPoint, DestroyPoint,
           LockHolder, PendingHasCallback
  <1>14. ASSUME NEW i \in Syncs, _kgsl_event_worker(i)
        PROVE  Order'
    BY <1>14, SyncAssumption
       DEF _kgsl_event_worker, At, InCallback, Callback, objVars, ctxVars,
           pcVars, Order, ClearMeansSignaled, NoLostKick, TimerStopped,
           TypeOK, Syncs, SubmitPCs, Control, OneOwner, PointStates,
           SubmitPoint, DestroyPoint, LockHolder, PendingHasCallback
  <1>15. ASSUME NEW i \in Syncs, drawobj_sync_expire(i)
        PROVE  Order'
    BY <1>15, SyncAssumption
       DEF drawobj_sync_expire, At, Callback, ctxVars, pcVars, Order,
           ClearMeansSignaled, NoLostKick, TimerStopped, TypeOK, Syncs,
           SubmitPCs, InCallback, Control, OneOwner, PointStates, SubmitPoint,
           DestroyPoint, LockHolder, PendingHasCallback
  <1>16. ASSUME NEW i \in Syncs, ExpireCheck(i)
        PROVE  Order'
    BY <1>16, SyncAssumption
       DEF ExpireCheck, At, Callback, objVars, ctxVars, pcVars, Order,
           ClearMeansSignaled, NoLostKick, TimerStopped, TypeOK, Syncs,
           SubmitPCs, InCallback, Control, OneOwner, PointStates, SubmitPoint,
           DestroyPoint, LockHolder, PendingHasCallback
  <1>17. ASSUME NEW i \in Syncs, ExpireTimer(i)
        PROVE  Order'
    BY <1>17, SyncAssumption
       DEF ExpireTimer, At, Callback, ctxVars, pcVars, Order,
           ClearMeansSignaled, NoLostKick, TimerStopped, TypeOK, Syncs,
           SubmitPCs, InCallback, Control, OneOwner, PointStates, SubmitPoint,
           DestroyPoint, LockHolder, PendingHasCallback
  <1>18. ASSUME NEW i \in Syncs, adreno_hwsched_queue_context(i)
        PROVE  Order'
    BY <1>18, SyncAssumption
       DEF adreno_hwsched_queue_context, At, Callback, objVars, pcVars, Order,
           ClearMeansSignaled, NoLostKick, TimerStopped, TypeOK, Syncs,
           SubmitPCs, InCallback, Control, OneOwner, PointStates, SubmitPoint,
           DestroyPoint, LockHolder, PendingHasCallback
  <1>19. ASSUME NEW i \in Syncs, drawobj_sync_func(i)
        PROVE  Order'
    BY <1>19, SyncAssumption
       DEF drawobj_sync_func, At, kgsl_drawobj_put, Put, Callback, ctxVars,
           pcVars, Order, ClearMeansSignaled, NoLostKick, TimerStopped,
           TypeOK, Syncs, SubmitPCs, InCallback, Control, OneOwner,
           PointStates, SubmitPoint, DestroyPoint, LockHolder,
           PendingHasCallback
  <1>20. ASSUME NEW i \in Syncs, SyncFuncLost(i)
        PROVE  Order'
    BY <1>20, SyncAssumption
       DEF SyncFuncLost, At, kgsl_drawobj_put, Callback, ctxVars, pcVars,
           Order, ClearMeansSignaled, NoLostKick, TimerStopped, TypeOK, Syncs,
           SubmitPCs, InCallback, Control, OneOwner, PointStates, SubmitPoint,
           DestroyPoint, LockHolder, PendingHasCallback
  <1>21. ASSUME NEW i \in Syncs, drawobj_sync_fence_func(i)
        PROVE  Order'
    BY <1>21, SyncAssumption
       DEF drawobj_sync_fence_func, At, kgsl_drawobj_put, Callback, ctxVars,
           pcVars, Order, ClearMeansSignaled, NoLostKick, TimerStopped,
           TypeOK, Syncs, SubmitPCs, InCallback, Control, OneOwner,
           PointStates, SubmitPoint, DestroyPoint, LockHolder,
           PendingHasCallback
  <1>22. ASSUME NEW i \in Syncs, drawobj_sync_timeline_fence_callback(i)
        PROVE  Order'
    BY <1>22, SyncAssumption
       DEF drawobj_sync_timeline_fence_callback, At, Callback, objVars,
           ctxVars, pcVars, Order, ClearMeansSignaled, NoLostKick,
           TimerStopped, TypeOK, Syncs, SubmitPCs, InCallback, Control,
           OneOwner, PointStates, SubmitPoint, DestroyPoint, LockHolder,
           PendingHasCallback
  <1>23. ASSUME NEW i \in Syncs, drawobj_sync_timeline_fence_work(i)
        PROVE  Order'
    BY <1>23, SyncAssumption
       DEF drawobj_sync_timeline_fence_work, At, kgsl_drawobj_put, Put,
           Callback, ctxVars, pcVars, Order, ClearMeansSignaled, NoLostKick,
           TimerStopped, TypeOK, Syncs, SubmitPCs, InCallback, Control,
           OneOwner, PointStates, SubmitPoint, DestroyPoint, LockHolder,
           PendingHasCallback
  <1>24. CASE TimerFires
    BY <1>24, SyncAssumption
       DEF TimerFires, eventVars, ctxVars, Order, ClearMeansSignaled,
           NoLostKick, TimerStopped, TypeOK, Syncs, SubmitPCs, At, InCallback,
           Control, OneOwner, PointStates, SubmitPoint, DestroyPoint,
           LockHolder, PendingHasCallback
  <1>25. CASE syncobj_timer
    BY <1>25, SyncAssumption
       DEF syncobj_timer, eventVars, ctxVars, Order, ClearMeansSignaled,
           NoLostKick, TimerStopped, TypeOK, Syncs, SubmitPCs, At, InCallback,
           Control, OneOwner, PointStates, SubmitPoint, DestroyPoint,
           LockHolder, PendingHasCallback
  <1>26. CASE adreno_drawctxt_dump
    BY <1>26, SyncAssumption
       DEF adreno_drawctxt_dump, objVars, eventVars, Order,
           ClearMeansSignaled, NoLostKick, TimerStopped, TypeOK, Syncs,
           SubmitPCs, At, InCallback, Control, OneOwner, PointStates,
           SubmitPoint, DestroyPoint, LockHolder, PendingHasCallback
  <1>27. CASE DumpUnlock
    BY <1>27, SyncAssumption
       DEF DumpUnlock, objVars, eventVars, Order, ClearMeansSignaled,
           NoLostKick, TimerStopped, TypeOK, Syncs, SubmitPCs, At, InCallback,
           Control, OneOwner, PointStates, SubmitPoint, DestroyPoint,
           LockHolder, PendingHasCallback
  <1>28. CASE TimerPut
    BY <1>28, SyncAssumption
       DEF TimerPut, kgsl_drawobj_put, ctxVars, Order, ClearMeansSignaled,
           NoLostKick, TimerStopped, TypeOK, Syncs, SubmitPCs, At, InCallback,
           Control, OneOwner, PointStates, SubmitPoint, DestroyPoint,
           LockHolder, PendingHasCallback
  <1>29. CASE hwsched_handle_jobs
    BY <1>29, SyncAssumption
       DEF hwsched_handle_jobs, objVars, eventVars, Order, ClearMeansSignaled,
           NoLostKick, TimerStopped, TypeOK, Syncs, SubmitPCs, At, InCallback,
           Control, OneOwner, PointStates, SubmitPoint, DestroyPoint,
           LockHolder, PendingHasCallback
  <1>30. CASE hwsched_sendcmds
    BY <1>30, SyncAssumption
       DEF hwsched_sendcmds, objVars, eventVars, Order, ClearMeansSignaled,
           NoLostKick, TimerStopped, TypeOK, Syncs, SubmitPCs, At, InCallback,
           Control, OneOwner, PointStates, SubmitPoint, DestroyPoint,
           LockHolder, PendingHasCallback
  <1>31. CASE _retire_syncobj
    BY <1>31, SyncAssumption
       DEF _retire_syncobj, objVars, eventVars, Order, ClearMeansSignaled,
           NoLostKick, TimerStopped, TypeOK, Syncs, SubmitPCs, At, InCallback,
           Control, OneOwner, PointStates, SubmitPoint, DestroyPoint,
           LockHolder, PendingHasCallback
  <1>32. CASE RetireLater
    BY <1>32, SyncAssumption
       DEF RetireLater, objVars, eventVars, ctxVars, Order,
           ClearMeansSignaled, NoLostKick, TimerStopped, TypeOK, Syncs,
           SubmitPCs, At, InCallback, Control, OneOwner, PointStates,
           SubmitPoint, DestroyPoint, LockHolder, PendingHasCallback
  <1>33. CASE StartTimer
    BY <1>33, SyncAssumption
       DEF StartTimer, eventVars, ctxVars, Order, ClearMeansSignaled,
           NoLostKick, TimerStopped, TypeOK, Syncs, SubmitPCs, At, InCallback,
           Control, OneOwner, PointStates, SubmitPoint, DestroyPoint,
           LockHolder, PendingHasCallback
  <1>34. CASE HwschedUnlock
    BY <1>34, SyncAssumption
       DEF HwschedUnlock, objVars, eventVars, Order, ClearMeansSignaled,
           NoLostKick, TimerStopped, TypeOK, Syncs, SubmitPCs, At, InCallback,
           Control, OneOwner, PointStates, SubmitPoint, DestroyPoint,
           LockHolder, PendingHasCallback
  <1>35. CASE ContextBad
    BY <1>35, SyncAssumption
       DEF ContextBad, objVars, eventVars, pcVars, Order, ClearMeansSignaled,
           NoLostKick, TimerStopped, TypeOK, Syncs, SubmitPCs, At, InCallback,
           Control, OneOwner, PointStates, SubmitPoint, DestroyPoint,
           LockHolder, PendingHasCallback
  <1>36. CASE drawctxt_detach_drawobjs
    BY <1>36, SyncAssumption
       DEF drawctxt_detach_drawobjs, objVars, eventVars, Order,
           ClearMeansSignaled, NoLostKick, TimerStopped, TypeOK, Syncs,
           SubmitPCs, At, InCallback, Control, OneOwner, PointStates,
           SubmitPoint, DestroyPoint, LockHolder, PendingHasCallback
  <1>37. CASE DestroyTimer
    BY <1>37, SyncAssumption
       DEF DestroyTimer, eventVars, ctxVars, Order, ClearMeansSignaled,
           NoLostKick, TimerStopped, TypeOK, Syncs, SubmitPCs, At, InCallback,
           Control, OneOwner, PointStates, SubmitPoint, DestroyPoint,
           LockHolder, PendingHasCallback
  <1>38. CASE syncobj_destroy
    BY <1>38, SyncAssumption
       DEF syncobj_destroy, eventVars, ctxVars, Order, ClearMeansSignaled,
           NoLostKick, TimerStopped, TypeOK, Syncs, SubmitPCs, At, InCallback,
           Control, OneOwner, PointStates, SubmitPoint, DestroyPoint,
           LockHolder, PendingHasCallback
  <1>39. CASE DestroyCancel
    BY <1>39, SyncAssumption
       DEF DestroyCancel, At, InCallback, Callback, objVars, ctxVars, Order,
           ClearMeansSignaled, NoLostKick, TimerStopped, TypeOK, Syncs,
           SubmitPCs, Control, OneOwner, PointStates, SubmitPoint,
           DestroyPoint, LockHolder, PendingHasCallback
  <1>40. CASE DestroyPut
    BY <1>40, SyncAssumption
       DEF DestroyPut, Put, kgsl_drawobj_put, Callback, ctxVars, Order,
           ClearMeansSignaled, NoLostKick, TimerStopped, TypeOK, Syncs,
           SubmitPCs, At, InCallback, Control, OneOwner, PointStates,
           SubmitPoint, DestroyPoint, LockHolder, PendingHasCallback
  <1>41. CASE DestroySched
    BY <1>41, SyncAssumption
       DEF DestroySched, objVars, eventVars, Order, ClearMeansSignaled,
           NoLostKick, TimerStopped, TypeOK, Syncs, SubmitPCs, At, InCallback,
           Control, OneOwner, PointStates, SubmitPoint, DestroyPoint,
           LockHolder, PendingHasCallback
  <1>42. CASE kgsl_drawobj_destroy
    BY <1>42, SyncAssumption
       DEF kgsl_drawobj_destroy, kgsl_drawobj_put, ctxVars, Order,
           ClearMeansSignaled, NoLostKick, TimerStopped, TypeOK, Syncs,
           SubmitPCs, At, InCallback, Control, OneOwner, PointStates,
           SubmitPoint, DestroyPoint, LockHolder, PendingHasCallback
  <1>43. CASE UNCHANGED vars
    BY <1>43
       DEF vars, objVars, eventVars, ctxVars, pcVars, Order,
           ClearMeansSignaled, NoLostKick, TimerStopped, TypeOK, Syncs,
           SubmitPCs, At, InCallback, Control, OneOwner, PointStates,
           SubmitPoint, DestroyPoint, LockHolder, PendingHasCallback
  <1>44. QED
    BY <1>1, <1>2, <1>3, <1>4, <1>5, <1>6, <1>7, <1>8, <1>9, <1>10, <1>11,
       <1>12, <1>13, <1>14, <1>15, <1>16, <1>17, <1>18, <1>19, <1>20,
       <1>21, <1>22, <1>23, <1>24, <1>25, <1>26, <1>27, <1>28, <1>29,
       <1>30, <1>31, <1>32, <1>33, <1>34, <1>35, <1>36, <1>37, <1>38,
       <1>39, <1>40, <1>41, <1>42, <1>43
       DEF Next, Submit, RunCallback, RunTimer, Hwsched, Destroy

\* Flags stay flags.
LEMMA FlagsStep ==
    ASSUME TypeOK, Control, [Next]_vars
    PROVE  Flags'
  <1>1. CASE kgsl_drawobj_sync_create
    BY <1>1 DEF kgsl_drawobj_sync_create, ctxVars, TypeOK, Flags
  <1>2. CASE AddSync
    BY <1>2 DEF AddSync, Callback, ctxVars, TypeOK, Flags
  <1>3. CASE AddFails
    BY <1>3 DEF AddFails, objVars, eventVars, ctxVars, TypeOK, Flags
  <1>4. CASE drawobj_add_sync_timestamp
    BY <1>4
       DEF drawobj_add_sync_timestamp, Callback, objVars, ctxVars, TypeOK,
           Flags
  <1>5. CASE AddEventFails
    BY <1>5
       DEF AddEventFails, kgsl_drawobj_put, Put, Callback, ctxVars, TypeOK,
           Flags
  <1>6. CASE drawobj_add_sync_timeline
    BY <1>6
       DEF drawobj_add_sync_timeline, Callback, kgsl_drawobj_put, Put,
           ctxVars, TypeOK, Flags
  <1>7. CASE kgsl_sync_fence_async_wait
    BY <1>7
       DEF kgsl_sync_fence_async_wait, Callback, objVars, ctxVars, TypeOK,
           Flags
  <1>8. CASE FenceHandle
    BY <1>8 DEF FenceHandle, objVars, ctxVars, TypeOK, Flags
  <1>9. CASE drawobj_add_sync_fence
    BY <1>9
       DEF drawobj_add_sync_fence, kgsl_drawobj_put, Callback, ctxVars,
           TypeOK, Flags
  <1>10. CASE adreno_hwsched_queue_cmds
    BY <1>10 DEF adreno_hwsched_queue_cmds, objVars, eventVars, TypeOK, Flags
  <1>11. CASE QueueContext
    BY <1>11 DEF QueueContext, objVars, eventVars, TypeOK, Flags
  <1>12. CASE SubmitError
    BY <1>12 DEF SubmitError, objVars, eventVars, ctxVars, TypeOK, Flags
  <1>13. ASSUME NEW i \in Syncs, Signal(i)
        PROVE  Flags'
    BY <1>13 DEF Signal, At, objVars, ctxVars, pcVars, TypeOK, Flags
  <1>14. ASSUME NEW i \in Syncs, _kgsl_event_worker(i)
        PROVE  Flags'
    BY <1>14
       DEF _kgsl_event_worker, At, InCallback, Callback, objVars, ctxVars,
           pcVars, TypeOK, Flags
  <1>15. ASSUME NEW i \in Syncs, drawobj_sync_expire(i)
        PROVE  Flags'
    BY <1>15
       DEF drawobj_sync_expire, At, Callback, ctxVars, pcVars, TypeOK, Flags
  <1>16. ASSUME NEW i \in Syncs, ExpireCheck(i)
        PROVE  Flags'
    BY <1>16
       DEF ExpireCheck, At, Callback, objVars, ctxVars, pcVars, TypeOK, Flags
  <1>17. ASSUME NEW i \in Syncs, ExpireTimer(i)
        PROVE  Flags'
    BY <1>17 DEF ExpireTimer, At, Callback, ctxVars, pcVars, TypeOK, Flags
  <1>18. ASSUME NEW i \in Syncs, adreno_hwsched_queue_context(i)
        PROVE  Flags'
    BY <1>18
       DEF adreno_hwsched_queue_context, At, Callback, objVars, pcVars,
           TypeOK, Flags
  <1>19. ASSUME NEW i \in Syncs, drawobj_sync_func(i)
        PROVE  Flags'
    BY <1>19
       DEF drawobj_sync_func, At, kgsl_drawobj_put, Put, Callback, ctxVars,
           pcVars, TypeOK, Flags
  <1>20. ASSUME NEW i \in Syncs, SyncFuncLost(i)
        PROVE  Flags'
    BY <1>20
       DEF SyncFuncLost, At, kgsl_drawobj_put, Callback, ctxVars, pcVars,
           TypeOK, Flags
  <1>21. ASSUME NEW i \in Syncs, drawobj_sync_fence_func(i)
        PROVE  Flags'
    BY <1>21
       DEF drawobj_sync_fence_func, At, kgsl_drawobj_put, Callback, ctxVars,
           pcVars, TypeOK, Flags
  <1>22. ASSUME NEW i \in Syncs, drawobj_sync_timeline_fence_callback(i)
        PROVE  Flags'
    BY <1>22
       DEF drawobj_sync_timeline_fence_callback, At, Callback, objVars,
           ctxVars, pcVars, TypeOK, Flags
  <1>23. ASSUME NEW i \in Syncs, drawobj_sync_timeline_fence_work(i)
        PROVE  Flags'
    BY <1>23
       DEF drawobj_sync_timeline_fence_work, At, kgsl_drawobj_put, Put,
           Callback, ctxVars, pcVars, TypeOK, Flags
  <1>24. CASE TimerFires
    BY <1>24 DEF TimerFires, eventVars, ctxVars, TypeOK, Flags
  <1>25. CASE syncobj_timer
    BY <1>25 DEF syncobj_timer, eventVars, ctxVars, TypeOK, Flags
  <1>26. CASE adreno_drawctxt_dump
    BY <1>26 DEF adreno_drawctxt_dump, objVars, eventVars, TypeOK, Flags
  <1>27. CASE DumpUnlock
    BY <1>27 DEF DumpUnlock, objVars, eventVars, TypeOK, Flags
  <1>28. CASE TimerPut
    BY <1>28 DEF TimerPut, kgsl_drawobj_put, ctxVars, TypeOK, Flags
  <1>29. CASE hwsched_handle_jobs
    BY <1>29 DEF hwsched_handle_jobs, objVars, eventVars, TypeOK, Flags
  <1>30. CASE hwsched_sendcmds
    BY <1>30 DEF hwsched_sendcmds, objVars, eventVars, TypeOK, Flags
  <1>31. CASE _retire_syncobj
    BY <1>31 DEF _retire_syncobj, objVars, eventVars, TypeOK, Flags
  <1>32. CASE RetireLater
    BY <1>32 DEF RetireLater, objVars, eventVars, ctxVars, TypeOK, Flags
  <1>33. CASE StartTimer
    BY <1>33 DEF StartTimer, eventVars, ctxVars, TypeOK, Flags
  <1>34. CASE HwschedUnlock
    BY <1>34 DEF HwschedUnlock, objVars, eventVars, TypeOK, Flags
  <1>35. CASE ContextBad
    BY <1>35 DEF ContextBad, objVars, eventVars, pcVars, TypeOK, Flags
  <1>36. CASE drawctxt_detach_drawobjs
    BY <1>36 DEF drawctxt_detach_drawobjs, objVars, eventVars, TypeOK, Flags
  <1>37. CASE DestroyTimer
    BY <1>37 DEF DestroyTimer, eventVars, ctxVars, TypeOK, Flags
  <1>38. CASE syncobj_destroy
    BY <1>38 DEF syncobj_destroy, eventVars, ctxVars, TypeOK, Flags
  <1>39. CASE DestroyCancel
    BY <1>39
       DEF DestroyCancel, At, InCallback, Callback, objVars, ctxVars, TypeOK,
           Flags
  <1>40. CASE DestroyPut
    BY <1>40
       DEF DestroyPut, Put, kgsl_drawobj_put, Callback, ctxVars, TypeOK, Flags
  <1>41. CASE DestroySched
    BY <1>41 DEF DestroySched, objVars, eventVars, TypeOK, Flags
  <1>42. CASE kgsl_drawobj_destroy
    BY <1>42
       DEF kgsl_drawobj_destroy, kgsl_drawobj_put, ctxVars, TypeOK, Flags
  <1>43. CASE UNCHANGED vars
    BY <1>43 DEF vars, objVars, eventVars, ctxVars, pcVars, TypeOK, Flags
  <1>44. QED
    BY <1>1, <1>2, <1>3, <1>4, <1>5, <1>6, <1>7, <1>8, <1>9, <1>10, <1>11,
       <1>12, <1>13, <1>14, <1>15, <1>16, <1>17, <1>18, <1>19, <1>20,
       <1>21, <1>22, <1>23, <1>24, <1>25, <1>26, <1>27, <1>28, <1>29,
       <1>30, <1>31, <1>32, <1>33, <1>34, <1>35, <1>36, <1>37, <1>38,
       <1>39, <1>40, <1>41, <1>42, <1>43
       DEF Next, Submit, RunCallback, RunTimer, Hwsched, Destroy

\* Every step keeps the other types.
LEMMA RangesStep ==
    ASSUME TypeOK, Control, [Next]_vars
    PROVE  Ranges'
  <1>1. CASE kgsl_drawobj_sync_create
    BY <1>1, SyncAssumption
       DEF kgsl_drawobj_sync_create, ctxVars, TypeOK, Ranges, Syncs,
           InCallback, At
  <1>2. CASE AddSync
    BY <1>2, SyncAssumption
       DEF AddSync, Callback, ctxVars, TypeOK, Ranges, Syncs, InCallback, At
  <1>3. CASE AddFails
    BY <1>3, SyncAssumption
       DEF AddFails, objVars, eventVars, ctxVars, TypeOK, Ranges, Syncs,
           InCallback, At
  <1>4. CASE drawobj_add_sync_timestamp
    BY <1>4, SyncAssumption
       DEF drawobj_add_sync_timestamp, Callback, objVars, ctxVars, TypeOK,
           Ranges, Syncs, InCallback, At, Control, SubmitPoint
  <1>5. CASE AddEventFails
    BY <1>5, SyncAssumption
       DEF AddEventFails, kgsl_drawobj_put, Put, Callback, ctxVars, TypeOK,
           Ranges, Syncs, InCallback, At
  <1>6. CASE drawobj_add_sync_timeline
    BY <1>6, SyncAssumption
       DEF drawobj_add_sync_timeline, Callback, kgsl_drawobj_put, Put,
           ctxVars, TypeOK, Ranges, Syncs, InCallback, At
  <1>7. CASE kgsl_sync_fence_async_wait
    BY <1>7, SyncAssumption
       DEF kgsl_sync_fence_async_wait, Callback, objVars, ctxVars, TypeOK,
           Ranges, Syncs, InCallback, At, Control, SubmitPoint
  <1>8. CASE FenceHandle
    BY <1>8, SyncAssumption
       DEF FenceHandle, objVars, ctxVars, TypeOK, Ranges, Syncs, InCallback,
           At, Control, SubmitPoint
  <1>9. CASE drawobj_add_sync_fence
    BY <1>9, SyncAssumption
       DEF drawobj_add_sync_fence, kgsl_drawobj_put, Callback, ctxVars,
           TypeOK, Ranges, Syncs, InCallback, At
  <1>10. CASE adreno_hwsched_queue_cmds
    BY <1>10, SyncAssumption
       DEF adreno_hwsched_queue_cmds, objVars, eventVars, TypeOK, Ranges,
           Syncs, InCallback, At
  <1>11. CASE QueueContext
    BY <1>11, SyncAssumption
       DEF QueueContext, objVars, eventVars, TypeOK, Ranges, Syncs,
           InCallback, At
  <1>12. CASE SubmitError
    BY <1>12, SyncAssumption
       DEF SubmitError, objVars, eventVars, ctxVars, TypeOK, Ranges, Syncs,
           InCallback, At
  <1>13. ASSUME NEW i \in Syncs, Signal(i)
        PROVE  Ranges'
    BY <1>13, SyncAssumption
       DEF Signal, At, objVars, ctxVars, pcVars, TypeOK, Ranges, Syncs,
           InCallback
  <1>14. ASSUME NEW i \in Syncs, _kgsl_event_worker(i)
        PROVE  Ranges'
    BY <1>14, SyncAssumption
       DEF _kgsl_event_worker, At, InCallback, Callback, objVars, ctxVars,
           pcVars, TypeOK, Ranges, Syncs
  <1>15. ASSUME NEW i \in Syncs, drawobj_sync_expire(i)
        PROVE  Ranges'
    BY <1>15, SyncAssumption
       DEF drawobj_sync_expire, At, Callback, ctxVars, pcVars, TypeOK, Ranges,
           Syncs, InCallback
  <1>16. ASSUME NEW i \in Syncs, ExpireCheck(i)
        PROVE  Ranges'
    BY <1>16, SyncAssumption
       DEF ExpireCheck, At, Callback, objVars, ctxVars, pcVars, TypeOK,
           Ranges, Syncs, InCallback
  <1>17. ASSUME NEW i \in Syncs, ExpireTimer(i)
        PROVE  Ranges'
    BY <1>17, SyncAssumption
       DEF ExpireTimer, At, Callback, ctxVars, pcVars, TypeOK, Ranges, Syncs,
           InCallback
  <1>18. ASSUME NEW i \in Syncs, adreno_hwsched_queue_context(i)
        PROVE  Ranges'
    BY <1>18, SyncAssumption
       DEF adreno_hwsched_queue_context, At, Callback, objVars, pcVars,
           TypeOK, Ranges, Syncs, InCallback
  <1>19. ASSUME NEW i \in Syncs, drawobj_sync_func(i)
        PROVE  Ranges'
    BY <1>19, SyncAssumption
       DEF drawobj_sync_func, At, kgsl_drawobj_put, Put, Callback, ctxVars,
           pcVars, TypeOK, Ranges, Syncs, InCallback
  <1>20. ASSUME NEW i \in Syncs, SyncFuncLost(i)
        PROVE  Ranges'
    BY <1>20, SyncAssumption
       DEF SyncFuncLost, At, kgsl_drawobj_put, Callback, ctxVars, pcVars,
           TypeOK, Ranges, Syncs, InCallback
  <1>21. ASSUME NEW i \in Syncs, drawobj_sync_fence_func(i)
        PROVE  Ranges'
    BY <1>21, SyncAssumption
       DEF drawobj_sync_fence_func, At, kgsl_drawobj_put, Callback, ctxVars,
           pcVars, TypeOK, Ranges, Syncs, InCallback
  <1>22. ASSUME NEW i \in Syncs, drawobj_sync_timeline_fence_callback(i)
        PROVE  Ranges'
    BY <1>22, SyncAssumption
       DEF drawobj_sync_timeline_fence_callback, At, Callback, objVars,
           ctxVars, pcVars, TypeOK, Ranges, Syncs, InCallback
  <1>23. ASSUME NEW i \in Syncs, drawobj_sync_timeline_fence_work(i)
        PROVE  Ranges'
    BY <1>23, SyncAssumption
       DEF drawobj_sync_timeline_fence_work, At, kgsl_drawobj_put, Put,
           Callback, ctxVars, pcVars, TypeOK, Ranges, Syncs, InCallback
  <1>24. CASE TimerFires
    BY <1>24, SyncAssumption
       DEF TimerFires, eventVars, ctxVars, TypeOK, Ranges, Syncs, InCallback,
           At
  <1>25. CASE syncobj_timer
    BY <1>25, SyncAssumption
       DEF syncobj_timer, eventVars, ctxVars, TypeOK, Ranges, Syncs,
           InCallback, At
  <1>26. CASE adreno_drawctxt_dump
    BY <1>26, SyncAssumption
       DEF adreno_drawctxt_dump, objVars, eventVars, TypeOK, Ranges, Syncs,
           InCallback, At
  <1>27. CASE DumpUnlock
    BY <1>27, SyncAssumption
       DEF DumpUnlock, objVars, eventVars, TypeOK, Ranges, Syncs, InCallback,
           At
  <1>28. CASE TimerPut
    BY <1>28, SyncAssumption
       DEF TimerPut, kgsl_drawobj_put, ctxVars, TypeOK, Ranges, Syncs,
           InCallback, At
  <1>29. CASE hwsched_handle_jobs
    BY <1>29, SyncAssumption
       DEF hwsched_handle_jobs, objVars, eventVars, TypeOK, Ranges, Syncs,
           InCallback, At
  <1>30. CASE hwsched_sendcmds
    BY <1>30, SyncAssumption
       DEF hwsched_sendcmds, objVars, eventVars, TypeOK, Ranges, Syncs,
           InCallback, At
  <1>31. CASE _retire_syncobj
    BY <1>31, SyncAssumption
       DEF _retire_syncobj, objVars, eventVars, TypeOK, Ranges, Syncs,
           InCallback, At
  <1>32. CASE RetireLater
    BY <1>32, SyncAssumption
       DEF RetireLater, objVars, eventVars, ctxVars, TypeOK, Ranges, Syncs,
           InCallback, At
  <1>33. CASE StartTimer
    BY <1>33, SyncAssumption
       DEF StartTimer, eventVars, ctxVars, TypeOK, Ranges, Syncs, InCallback,
           At
  <1>34. CASE HwschedUnlock
    BY <1>34, SyncAssumption
       DEF HwschedUnlock, objVars, eventVars, TypeOK, Ranges, Syncs,
           InCallback, At
  <1>35. CASE ContextBad
    BY <1>35, SyncAssumption
       DEF ContextBad, objVars, eventVars, pcVars, TypeOK, Ranges, Syncs,
           InCallback, At
  <1>36. CASE drawctxt_detach_drawobjs
    BY <1>36, SyncAssumption
       DEF drawctxt_detach_drawobjs, objVars, eventVars, TypeOK, Ranges,
           Syncs, InCallback, At
  <1>37. CASE DestroyTimer
    BY <1>37, SyncAssumption
       DEF DestroyTimer, eventVars, ctxVars, TypeOK, Ranges, Syncs,
           InCallback, At
  <1>38. CASE syncobj_destroy
    BY <1>38, SyncAssumption
       DEF syncobj_destroy, eventVars, ctxVars, TypeOK, Ranges, Syncs,
           InCallback, At, Control, DestroyPoint
  <1>39. CASE DestroyCancel
    BY <1>39, SyncAssumption
       DEF DestroyCancel, At, InCallback, Callback, objVars, ctxVars, TypeOK,
           Ranges, Syncs, Control, DestroyPoint
  <1>40. CASE DestroyPut
    BY <1>40, SyncAssumption
       DEF DestroyPut, Put, kgsl_drawobj_put, Callback, ctxVars, TypeOK,
           Ranges, Syncs, InCallback, At, Control, DestroyPoint
  <1>41. CASE DestroySched
    BY <1>41, SyncAssumption
       DEF DestroySched, objVars, eventVars, TypeOK, Ranges, Syncs,
           InCallback, At
  <1>42. CASE kgsl_drawobj_destroy
    BY <1>42, SyncAssumption
       DEF kgsl_drawobj_destroy, kgsl_drawobj_put, ctxVars, TypeOK, Ranges,
           Syncs, InCallback, At
  <1>43. CASE UNCHANGED vars
    BY <1>43
       DEF vars, objVars, eventVars, ctxVars, pcVars, TypeOK, Ranges, Syncs,
           InCallback, At
  <1>44. QED
    BY <1>1, <1>2, <1>3, <1>4, <1>5, <1>6, <1>7, <1>8, <1>9, <1>10, <1>11,
       <1>12, <1>13, <1>14, <1>15, <1>16, <1>17, <1>18, <1>19, <1>20,
       <1>21, <1>22, <1>23, <1>24, <1>25, <1>26, <1>27, <1>28, <1>29,
       <1>30, <1>31, <1>32, <1>33, <1>34, <1>35, <1>36, <1>37, <1>38,
       <1>39, <1>40, <1>41, <1>42, <1>43
       DEF Next, Submit, RunCallback, RunTimer, Hwsched, Destroy

\* Every step keeps the count of the object.
LEMMA RefStep ==
    ASSUME TypeOK, Control, ObjRefCount, [Next]_vars
    PROVE  ObjRefCount' /\ ref' \in Nat
  <1>1. CASE kgsl_drawobj_sync_create
    <2>1. LivePoints' = {}
      BY <1>1 DEF kgsl_drawobj_sync_create, LivePoints
    <2>2. Cardinality(LivePoints') = 0
      BY <2>1, FS_EmptySet
    <2>3. ~Owned /\ tpc \notin {"dump", "unlock", "put"}
      BY <1>1, UsersHold DEF kgsl_drawobj_sync_create
    <2>4. QED
      BY <1>1, <2>2, <2>3
         DEF kgsl_drawobj_sync_create, ctxVars, ObjRefCount, Owned, SubmitPCs,
             One
  <1>2. CASE AddSync
    <2>1. PICK k \in Syncs : k = num + 1 /\ At(k, "none")
      BY <1>2, SyncAssumption DEF AddSync, Control, PointStates, TypeOK, Syncs, At
    <2>2. cpc' = [cpc EXCEPT ![k] = "set"]
      BY <1>2, <2>1 DEF AddSync, Callback
    <2>3. Cardinality(LivePoints') = Cardinality(LivePoints) + 1
      BY <2>1, <2>2, LiveAdd DEF At
    <2>4. QED
      BY <1>2, <2>3, LiveFinite
         DEF AddSync, ctxVars, TypeOK, ObjRefCount, Owned, SubmitPCs, One
  <1>3. CASE AddFails
    <2>1. LivePoints' = LivePoints
      BY <1>3 DEF AddFails, objVars, eventVars, ctxVars, LivePoints
    <2>2. QED
      BY <1>3, <2>1, LiveFinite, UsersHold
         DEF AddFails, objVars, eventVars, ctxVars, TypeOK, ObjRefCount,
             Owned, SubmitPCs, One, Control, OneOwner
  <1>4. CASE drawobj_add_sync_timestamp
    <2>1. num \in Syncs /\ At(num, "set")
      BY <1>4, SyncAssumption
         DEF drawobj_add_sync_timestamp, Control, TypeOK, Syncs, SubmitPoint
    <2>2. cpc' = [cpc EXCEPT ![num] = IF sig[num] THEN "queued" ELSE "wait"]
      BY <1>4 DEF drawobj_add_sync_timestamp, Callback
    <2>3. LivePoints' = LivePoints
      BY <2>1, <2>2, LiveSame DEF At
    <2>4. QED
      BY <1>4, <2>1, <2>3, LiveFinite, UsersHold
         DEF drawobj_add_sync_timestamp, objVars, ctxVars, TypeOK,
             ObjRefCount, Owned, SubmitPCs, One, At, Control, OneOwner
  <1>5. CASE AddEventFails
    <2>1. num \in Syncs /\ At(num, "set")
      BY <1>5, SyncAssumption
         DEF AddEventFails, Control, TypeOK, Syncs, SubmitPoint
    <2>2. cpc' = [cpc EXCEPT ![num] = "gone"]
      BY <1>5 DEF AddEventFails, Callback
    <2>3. Cardinality(LivePoints') = Cardinality(LivePoints) - 1
      BY <2>1, <2>2, LiveRemove DEF At
    <2>4. QED
      BY <1>5, <2>1, <2>3, LiveFinite, UsersHold
         DEF AddEventFails, kgsl_drawobj_put, ctxVars, TypeOK, ObjRefCount,
             Owned, SubmitPCs, One, At, Control, OneOwner
  <1>6. CASE drawobj_add_sync_timeline
    <2>1. num \in Syncs /\ At(num, "set")
      BY <1>6, SyncAssumption
         DEF drawobj_add_sync_timeline, Control, SubmitPoint, TypeOK, Syncs
    <2>2. UNCHANGED <<ctxVars, tpc, hpc, dpc>> /\ opc = "register" /\ opc' = "add"
      BY <1>6 DEF drawobj_add_sync_timeline
    <2>3. Owned' = Owned
      BY <2>2 DEF Owned, SubmitPCs, ctxVars
    <2>4. CASE ~sig[num]
      <3>1. cpc' = [cpc EXCEPT ![num] = "wait"] /\ ref' = ref
        BY <1>6, <2>4 DEF drawobj_add_sync_timeline, Callback
      <3>2. LivePoints' = LivePoints
        BY <2>1, <3>1, LiveSame DEF At
      <3>3. QED
        BY <2>2, <2>3, <3>1, <3>2 DEF ObjRefCount, TypeOK
    <2>5. CASE sig[num]
      <3>1. cpc' = [cpc EXCEPT ![num] = "gone"] /\ ref' = ref - 1
        BY <1>6, <2>5 DEF drawobj_add_sync_timeline, Callback, kgsl_drawobj_put
      <3>2. Cardinality(LivePoints') = Cardinality(LivePoints) - 1
        BY <2>1, <3>1, LiveRemove DEF At
      <3>3. QED
        BY <2>1, <2>2, <2>3, <3>1, <3>2, LiveFinite, UsersHold
           DEF ObjRefCount, TypeOK, One, At
    <2>6. QED
      BY <2>4, <2>5
  <1>7. CASE kgsl_sync_fence_async_wait
    <2>1. num \in Syncs /\ At(num, "set")
      BY <1>7, SyncAssumption
         DEF kgsl_sync_fence_async_wait, Control, TypeOK, Syncs, SubmitPoint
    <2>2. cpc' = [cpc EXCEPT ![num] = "wait"]
      BY <1>7 DEF kgsl_sync_fence_async_wait, Callback
    <2>3. LivePoints' = LivePoints
      BY <2>1, <2>2, LiveSame DEF At
    <2>4. QED
      BY <1>7, <2>1, <2>3, LiveFinite, UsersHold
         DEF kgsl_sync_fence_async_wait, objVars, ctxVars, TypeOK,
             ObjRefCount, Owned, SubmitPCs, One, At, Control, OneOwner
  <1>8. CASE FenceHandle
    <2>1. LivePoints' = LivePoints
      BY <1>8 DEF FenceHandle, objVars, ctxVars, LivePoints
    <2>2. QED
      BY <1>8, <2>1, LiveFinite, UsersHold
         DEF FenceHandle, objVars, ctxVars, TypeOK, ObjRefCount, Owned,
             SubmitPCs, One, Control, OneOwner
  <1>9. CASE drawobj_add_sync_fence
    <2>1. num \in Syncs /\ At(num, "set")
      BY <1>9, SyncAssumption
         DEF drawobj_add_sync_fence, Control, TypeOK, Syncs, SubmitPoint
    <2>2. cpc' = [cpc EXCEPT ![num] = "gone"]
      BY <1>9 DEF drawobj_add_sync_fence, Callback
    <2>3. Cardinality(LivePoints') = Cardinality(LivePoints) - 1
      BY <2>1, <2>2, LiveRemove DEF At
    <2>4. QED
      BY <1>9, <2>1, <2>3, LiveFinite, UsersHold
         DEF drawobj_add_sync_fence, kgsl_drawobj_put, ctxVars, TypeOK,
             ObjRefCount, Owned, SubmitPCs, One, At, Control, OneOwner
  <1>10. CASE adreno_hwsched_queue_cmds
    <2>1. LivePoints' = LivePoints
      BY <1>10 DEF adreno_hwsched_queue_cmds, objVars, eventVars, LivePoints
    <2>2. QED
      BY <1>10, <2>1, LiveFinite, UsersHold
         DEF adreno_hwsched_queue_cmds, objVars, eventVars, TypeOK,
             ObjRefCount, Owned, SubmitPCs, One, Control, OneOwner
  <1>11. CASE QueueContext
    <2>1. LivePoints' = LivePoints
      BY <1>11 DEF QueueContext, objVars, eventVars, LivePoints
    <2>2. QED
      BY <1>11, <2>1, LiveFinite, UsersHold
         DEF QueueContext, objVars, eventVars, TypeOK, ObjRefCount, Owned,
             SubmitPCs, One, Control, OneOwner
  <1>12. CASE SubmitError
    <2>1. LivePoints' = LivePoints
      BY <1>12 DEF SubmitError, objVars, eventVars, ctxVars, LivePoints
    <2>2. QED
      BY <1>12, <2>1, LiveFinite, UsersHold
         DEF SubmitError, objVars, eventVars, ctxVars, TypeOK, ObjRefCount,
             Owned, SubmitPCs, One, Control, OneOwner
  <1>13. ASSUME NEW i \in Syncs, Signal(i)
        PROVE  ObjRefCount' /\ ref' \in Nat
    <2>1. LivePoints' = LivePoints
      BY <1>13
         DEF Signal, At, objVars, ctxVars, pcVars, TypeOK, InCallback,
             LivePoints
    <2>2. QED
      BY <1>13, <2>1, LiveFinite, UsersHold
         DEF Signal, At, objVars, ctxVars, pcVars, TypeOK, ObjRefCount, Owned,
             SubmitPCs, One, Control, OneOwner
  <1>14. ASSUME NEW i \in Syncs, _kgsl_event_worker(i)
        PROVE  ObjRefCount' /\ ref' \in Nat
    <2>1. LivePoints' = LivePoints
      BY <1>14
         DEF _kgsl_event_worker, At, InCallback, Callback, objVars, ctxVars,
             pcVars, TypeOK, LivePoints
    <2>2. QED
      BY <1>14, <2>1, LiveFinite, UsersHold
         DEF _kgsl_event_worker, At, InCallback, objVars, ctxVars, pcVars,
             TypeOK, ObjRefCount, Owned, SubmitPCs, One, Control, OneOwner
  <1>15. ASSUME NEW i \in Syncs, drawobj_sync_expire(i)
        PROVE  ObjRefCount' /\ ref' \in Nat
    <2>1. LivePoints' = LivePoints
      BY <1>15
         DEF drawobj_sync_expire, At, Callback, ctxVars, pcVars, TypeOK,
             InCallback, LivePoints
    <2>2. QED
      BY <1>15, <2>1, LiveFinite, UsersHold
         DEF drawobj_sync_expire, At, ctxVars, pcVars, TypeOK, ObjRefCount,
             Owned, SubmitPCs, One, Control, OneOwner
  <1>16. ASSUME NEW i \in Syncs, ExpireCheck(i)
        PROVE  ObjRefCount' /\ ref' \in Nat
    <2>1. LivePoints' = LivePoints
      BY <1>16
         DEF ExpireCheck, At, Callback, objVars, ctxVars, pcVars, TypeOK,
             InCallback, LivePoints
    <2>2. QED
      BY <1>16, <2>1, LiveFinite, UsersHold
         DEF ExpireCheck, At, objVars, ctxVars, pcVars, TypeOK, ObjRefCount,
             Owned, SubmitPCs, One, Control, OneOwner
  <1>17. ASSUME NEW i \in Syncs, ExpireTimer(i)
        PROVE  ObjRefCount' /\ ref' \in Nat
    <2>1. LivePoints' = LivePoints
      BY <1>17
         DEF ExpireTimer, At, Callback, ctxVars, pcVars, TypeOK, InCallback,
             LivePoints
    <2>2. QED
      BY <1>17, <2>1, LiveFinite, UsersHold
         DEF ExpireTimer, At, ctxVars, pcVars, TypeOK, ObjRefCount, Owned,
             SubmitPCs, One, Control, OneOwner
  <1>18. ASSUME NEW i \in Syncs, adreno_hwsched_queue_context(i)
        PROVE  ObjRefCount' /\ ref' \in Nat
    <2>1. LivePoints' = LivePoints
      BY <1>18
         DEF adreno_hwsched_queue_context, At, Callback, objVars, pcVars,
             TypeOK, InCallback, LivePoints
    <2>2. QED
      BY <1>18, <2>1, LiveFinite, UsersHold
         DEF adreno_hwsched_queue_context, At, objVars, pcVars, TypeOK,
             ObjRefCount, Owned, SubmitPCs, One, Control, OneOwner
  <1>19. ASSUME NEW i \in Syncs, drawobj_sync_func(i)
        PROVE  ObjRefCount' /\ ref' \in Nat
    <2>1. Cardinality(LivePoints') = Cardinality(LivePoints) - 1
      BY <1>19, LiveRemove DEF drawobj_sync_func, Callback, At
    <2>2. QED
      BY <1>19, <2>1, LiveFinite, UsersHold
         DEF drawobj_sync_func, At, kgsl_drawobj_put, ctxVars, pcVars, TypeOK,
             ObjRefCount, Owned, SubmitPCs, One, Control, OneOwner
  <1>20. ASSUME NEW i \in Syncs, SyncFuncLost(i)
        PROVE  ObjRefCount' /\ ref' \in Nat
    <2>1. Cardinality(LivePoints') = Cardinality(LivePoints) - 1
      BY <1>20, LiveRemove DEF SyncFuncLost, Callback, At
    <2>2. QED
      BY <1>20, <2>1, LiveFinite, UsersHold
         DEF SyncFuncLost, At, kgsl_drawobj_put, ctxVars, pcVars, TypeOK,
             ObjRefCount, Owned, SubmitPCs, One, Control, OneOwner
  <1>21. ASSUME NEW i \in Syncs, drawobj_sync_fence_func(i)
        PROVE  ObjRefCount' /\ ref' \in Nat
    <2>1. Cardinality(LivePoints') = Cardinality(LivePoints) - 1
      BY <1>21, LiveRemove DEF drawobj_sync_fence_func, Callback, At
    <2>2. QED
      BY <1>21, <2>1, LiveFinite, UsersHold
         DEF drawobj_sync_fence_func, At, kgsl_drawobj_put, ctxVars, pcVars,
             TypeOK, ObjRefCount, Owned, SubmitPCs, One, Control, OneOwner
  <1>22. ASSUME NEW i \in Syncs, drawobj_sync_timeline_fence_callback(i)
        PROVE  ObjRefCount' /\ ref' \in Nat
    <2>1. LivePoints' = LivePoints
      BY <1>22
         DEF drawobj_sync_timeline_fence_callback, At, Callback, objVars,
             ctxVars, pcVars, TypeOK, InCallback, LivePoints
    <2>2. QED
      BY <1>22, <2>1, LiveFinite, UsersHold
         DEF drawobj_sync_timeline_fence_callback, At, objVars, ctxVars,
             pcVars, TypeOK, ObjRefCount, Owned, SubmitPCs, One, Control,
             OneOwner
  <1>23. ASSUME NEW i \in Syncs, drawobj_sync_timeline_fence_work(i)
        PROVE  ObjRefCount' /\ ref' \in Nat
    <2>1. Cardinality(LivePoints') = Cardinality(LivePoints) - 1
      BY <1>23, LiveRemove DEF drawobj_sync_timeline_fence_work, Callback, At
    <2>2. QED
      BY <1>23, <2>1, LiveFinite, UsersHold
         DEF drawobj_sync_timeline_fence_work, At, kgsl_drawobj_put, ctxVars,
             pcVars, TypeOK, ObjRefCount, Owned, SubmitPCs, One, Control,
             OneOwner
  <1>24. CASE TimerFires
    <2>1. LivePoints' = LivePoints
      BY <1>24 DEF TimerFires, eventVars, ctxVars, LivePoints
    <2>2. QED
      BY <1>24, <2>1, LiveFinite, UsersHold
         DEF TimerFires, eventVars, ctxVars, TypeOK, ObjRefCount, Owned,
             SubmitPCs, One, Control, OneOwner
  <1>25. CASE syncobj_timer
    <2>1. LivePoints' = LivePoints
      BY <1>25 DEF syncobj_timer, eventVars, ctxVars, LivePoints
    <2>2. QED
      BY <1>25, <2>1, LiveFinite, UsersHold
         DEF syncobj_timer, eventVars, ctxVars, TypeOK, ObjRefCount, Owned,
             SubmitPCs, One, Control, OneOwner
  <1>26. CASE adreno_drawctxt_dump
    <2>1. LivePoints' = LivePoints
      BY <1>26 DEF adreno_drawctxt_dump, objVars, eventVars, LivePoints
    <2>2. QED
      BY <1>26, <2>1, LiveFinite, UsersHold
         DEF adreno_drawctxt_dump, objVars, eventVars, TypeOK, ObjRefCount,
             Owned, SubmitPCs, One, Control, OneOwner
  <1>27. CASE DumpUnlock
    <2>1. LivePoints' = LivePoints
      BY <1>27 DEF DumpUnlock, objVars, eventVars, LivePoints
    <2>2. QED
      BY <1>27, <2>1, LiveFinite, UsersHold
         DEF DumpUnlock, objVars, eventVars, TypeOK, ObjRefCount, Owned,
             SubmitPCs, One, Control, OneOwner
  <1>28. CASE TimerPut
    <2>1. LivePoints' = LivePoints
      BY <1>28 DEF TimerPut, kgsl_drawobj_put, ctxVars, LivePoints
    <2>2. QED
      BY <1>28, <2>1, LiveFinite, UsersHold
         DEF TimerPut, kgsl_drawobj_put, ctxVars, TypeOK, ObjRefCount, Owned,
             SubmitPCs, One, Control, OneOwner
  <1>29. CASE hwsched_handle_jobs
    <2>1. LivePoints' = LivePoints
      BY <1>29 DEF hwsched_handle_jobs, objVars, eventVars, LivePoints
    <2>2. QED
      BY <1>29, <2>1, LiveFinite, UsersHold
         DEF hwsched_handle_jobs, objVars, eventVars, TypeOK, ObjRefCount,
             Owned, SubmitPCs, One, Control, OneOwner
  <1>30. CASE hwsched_sendcmds
    <2>1. LivePoints' = LivePoints
      BY <1>30 DEF hwsched_sendcmds, objVars, eventVars, LivePoints
    <2>2. QED
      BY <1>30, <2>1, LiveFinite, UsersHold
         DEF hwsched_sendcmds, objVars, eventVars, TypeOK, ObjRefCount, Owned,
             SubmitPCs, One, Control, OneOwner
  <1>31. CASE _retire_syncobj
    <2>1. LivePoints' = LivePoints
      BY <1>31 DEF _retire_syncobj, objVars, eventVars, LivePoints
    <2>2. QED
      BY <1>31, <2>1, LiveFinite, UsersHold
         DEF _retire_syncobj, objVars, eventVars, TypeOK, ObjRefCount, Owned,
             SubmitPCs, One, Control, OneOwner, LockHolder
  <1>32. CASE RetireLater
    <2>1. LivePoints' = LivePoints
      BY <1>32 DEF RetireLater, objVars, eventVars, ctxVars, LivePoints
    <2>2. QED
      BY <1>32, <2>1, LiveFinite, UsersHold
         DEF RetireLater, objVars, eventVars, ctxVars, TypeOK, ObjRefCount,
             Owned, SubmitPCs, One, Control, OneOwner
  <1>33. CASE StartTimer
    <2>1. LivePoints' = LivePoints
      BY <1>33 DEF StartTimer, eventVars, ctxVars, LivePoints
    <2>2. QED
      BY <1>33, <2>1, LiveFinite, UsersHold
         DEF StartTimer, eventVars, ctxVars, TypeOK, ObjRefCount, Owned,
             SubmitPCs, One, Control, OneOwner
  <1>34. CASE HwschedUnlock
    <2>1. LivePoints' = LivePoints
      BY <1>34 DEF HwschedUnlock, objVars, eventVars, LivePoints
    <2>2. QED
      BY <1>34, <2>1, LiveFinite, UsersHold
         DEF HwschedUnlock, objVars, eventVars, TypeOK, ObjRefCount, Owned,
             SubmitPCs, One, Control, OneOwner
  <1>35. CASE ContextBad
    <2>1. LivePoints' = LivePoints
      BY <1>35 DEF ContextBad, objVars, eventVars, pcVars, LivePoints
    <2>2. QED
      BY <1>35, <2>1, LiveFinite, UsersHold
         DEF ContextBad, objVars, eventVars, pcVars, TypeOK, ObjRefCount,
             Owned, SubmitPCs, One, Control, OneOwner
  <1>36. CASE drawctxt_detach_drawobjs
    <2>1. LivePoints' = LivePoints
      BY <1>36 DEF drawctxt_detach_drawobjs, objVars, eventVars, LivePoints
    <2>2. QED
      BY <1>36, <2>1, LiveFinite, UsersHold
         DEF drawctxt_detach_drawobjs, objVars, eventVars, TypeOK,
             ObjRefCount, Owned, SubmitPCs, One, Control, OneOwner
  <1>37. CASE DestroyTimer
    <2>1. LivePoints' = LivePoints
      BY <1>37 DEF DestroyTimer, eventVars, ctxVars, LivePoints
    <2>2. QED
      BY <1>37, <2>1, LiveFinite, UsersHold
         DEF DestroyTimer, eventVars, ctxVars, TypeOK, ObjRefCount, Owned,
             SubmitPCs, One, Control, OneOwner
  <1>38. CASE syncobj_destroy
    <2>1. LivePoints' = LivePoints
      BY <1>38 DEF syncobj_destroy, eventVars, ctxVars, LivePoints
    <2>2. QED
      BY <1>38, <2>1, LiveFinite, UsersHold
         DEF syncobj_destroy, eventVars, ctxVars, TypeOK, ObjRefCount, Owned,
             SubmitPCs, One, Control, OneOwner
  <1>39. CASE DestroyCancel
    <2>1. LivePoints' = LivePoints
      BY <1>39
         DEF DestroyCancel, At, InCallback, Callback, objVars, ctxVars,
             TypeOK, LivePoints, Control, SubmitPoint, DestroyPoint
    <2>2. QED
      BY <1>39, <2>1, LiveFinite, UsersHold
         DEF DestroyCancel, At, InCallback, objVars, ctxVars, TypeOK,
             ObjRefCount, Owned, SubmitPCs, One, Control, OneOwner
  <1>40. CASE DestroyPut
    <2>1. di \in Syncs /\ dpc = "put" /\ dpc' = "loop"
      BY <1>40, SyncAssumption
         DEF DestroyPut, Control, DestroyPoint, TypeOK, Syncs
    <2>2. UNCHANGED <<ctxVars, opc, tpc>>
      BY <1>40 DEF DestroyPut
    <2>3. Owned /\ Owned'
      BY <2>1 DEF Owned
    <2>4. CASE Type[di] = "timestamp"
      <3>1. UNCHANGED <<ref, cpc>>
        BY <1>40, <2>4 DEF DestroyPut
      <3>2. QED
        BY <2>2, <2>3, <3>1 DEF ObjRefCount, LivePoints, TypeOK
    <2>5. CASE Type[di] # "timestamp"
      <3>1. cpc' = [cpc EXCEPT ![di] = "gone"] /\ ref' = ref - 1
        BY <1>40, <2>5 DEF DestroyPut, Callback, kgsl_drawobj_put
      <3>2. cpc[di] \notin {"none", "gone"}
        BY <2>1, <2>5 DEF Control, DestroyPoint, At
      <3>3. Cardinality(LivePoints') = Cardinality(LivePoints) - 1
        BY <2>1, <3>1, <3>2, LiveRemove
      <3>4. QED
        BY <2>1, <2>2, <2>3, <3>1, <3>2, <3>3, LiveFinite, UsersHold
           DEF ObjRefCount, TypeOK, One
    <2>6. QED
      BY <2>4, <2>5
  <1>41. CASE DestroySched
    <2>1. LivePoints' = LivePoints
      BY <1>41 DEF DestroySched, objVars, eventVars, LivePoints
    <2>2. QED
      BY <1>41, <2>1, LiveFinite, UsersHold
         DEF DestroySched, objVars, eventVars, TypeOK, ObjRefCount, Owned,
             SubmitPCs, One, Control, OneOwner
  <1>42. CASE kgsl_drawobj_destroy
    <2>1. LivePoints' = LivePoints
      BY <1>42 DEF kgsl_drawobj_destroy, kgsl_drawobj_put, ctxVars, LivePoints
    <2>2. QED
      BY <1>42, <2>1, LiveFinite, UsersHold
         DEF kgsl_drawobj_destroy, kgsl_drawobj_put, ctxVars, TypeOK,
             ObjRefCount, Owned, SubmitPCs, One, Control, OneOwner, LockHolder
  <1>43. CASE UNCHANGED vars
    BY <1>43
       DEF vars, objVars, eventVars, ctxVars, pcVars, ObjRefCount, TypeOK,
           LivePoints, Owned, SubmitPCs
  <1>44. QED
    BY <1>1, <1>2, <1>3, <1>4, <1>5, <1>6, <1>7, <1>8, <1>9, <1>10, <1>11,
       <1>12, <1>13, <1>14, <1>15, <1>16, <1>17, <1>18, <1>19, <1>20,
       <1>21, <1>22, <1>23, <1>24, <1>25, <1>26, <1>27, <1>28, <1>29,
       <1>30, <1>31, <1>32, <1>33, <1>34, <1>35, <1>36, <1>37, <1>38,
       <1>39, <1>40, <1>41, <1>42, <1>43
       DEF Next, Submit, RunCallback, RunTimer, Hwsched, Destroy

\* kgsl_drawobj_put keeps the counts of the fences: the last put drops those
\* of the handles.  The other sync points are up to the caller.
LEMMA SourcePut ==
    ASSUME TypeOK, Control, SourceRefCount,
           NEW h \in [Syncs -> {0, 1}], kgsl_drawobj_put(h),
           ref > 0, ref = 1 => opc # "handle",
           opc' = "handle" <=> opc = "handle",
           UNCHANGED <<num, handle>>,
           \A j \in Syncs : Type[j] = "fence" => h[j] = held[j],
           \A j \in Syncs : Type[j] # "fence" => h[j] = One(Holds(j)')
    PROVE  SourceRefCount' /\ held' \in [Syncs -> {0, 1}]
  <1>1. ASSUME NEW j \in Syncs
        PROVE  held'[j] = One(Holds(j)') /\ held'[j] \in {0, 1}
    <2>1. CASE Type[j] # "fence"
      <3>1. ~handle[j]
        BY <2>1 DEF Control, PointStates
      <3>2. held'[j] = h[j]
        BY <3>1 DEF kgsl_drawobj_put
      <3>3. QED
        BY <2>1, <3>2
    <2>2. CASE Type[j] = "fence"
      <3>1. held[j] = One(handle[j] \/ (opc = "handle" /\ num = j))
        BY <2>2 DEF SourceRefCount, Holds
      <3>2. Holds(j)' <=> ref' > 0 /\ (handle[j] \/ (opc = "handle" /\ num = j))
        BY <2>2 DEF Holds
      <3>3. CASE ref = 1
        <4>1. held'[j] = IF handle[j] THEN held[j] - 1 ELSE held[j]
          BY <2>2, <3>3 DEF kgsl_drawobj_put
        <4>2. held'[j] = 0
          BY <3>1, <3>3, <4>1 DEF One
        <4>3. ~(ref' > 0)
          BY <3>3 DEF kgsl_drawobj_put, TypeOK
        <4>4. QED
          BY <3>2, <4>2, <4>3 DEF One
      <3>4. CASE ref # 1
        <4>1. held'[j] = held[j] /\ ref' > 0
          BY <2>2, <3>4 DEF kgsl_drawobj_put, TypeOK
        <4>2. QED
          BY <3>1, <3>2, <4>1 DEF One
      <3>5. QED
        BY <3>3, <3>4
    <2>3. QED
      BY <2>1, <2>2
  <1>2. held' = [j \in Syncs |-> held'[j]]
    BY DEF kgsl_drawobj_put
  <1>3. QED
    BY <1>1, <1>2 DEF SourceRefCount

\* A step that touches neither the references nor the reasons to hold them.
LEMMA SourceKept ==
    ASSUME TypeOK, SourceRefCount, held' = held,
           \A j \in Syncs : Holds(j)' <=> Holds(j)
    PROVE  SourceRefCount' /\ held' \in [Syncs -> {0, 1}]
  BY DEF TypeOK, SourceRefCount, One

\* A step that changes the reference of one sync point with the reason for it.
LEMMA SourceSet ==
    ASSUME TypeOK, SourceRefCount, NEW k \in Syncs,
           held' = [held EXCEPT ![k] = One(Holds(k)')],
           \A j \in Syncs \ {k} : Holds(j)' <=> Holds(j)
    PROVE  SourceRefCount' /\ held' \in [Syncs -> {0, 1}]
  BY DEF TypeOK, SourceRefCount, One

\* Every step keeps the counts of the contexts and fences.
LEMMA SourceStep ==
    ASSUME TypeOK, Control, Counts, [Next]_vars
    PROVE  SourceRefCount' /\ held' \in [Syncs -> {0, 1}]
  <1>1. CASE kgsl_drawobj_sync_create
    <2>1. ref = 0 /\ ~Owned /\ \A j \in Syncs : cpc[j] \in {"none", "gone"}
      BY <1>1, UsersHold DEF kgsl_drawobj_sync_create, Counts
    <2>2. \A j \in Syncs : ~Holds(j)
      BY <2>1 DEF Holds, Control, PendingHasCallback, Owned, InCallback
    <2>3. \A j \in Syncs : ~Holds(j)'
      BY <1>1, <2>1 DEF kgsl_drawobj_sync_create, Holds, Owned, InCallback
    <2>4. held' = held
      BY <1>1 DEF kgsl_drawobj_sync_create
    <2>5. QED
      BY <2>2, <2>3, <2>4, SourceKept DEF Counts
  <1>2. CASE AddSync
    <2>1. PICK k \in Syncs : k = num + 1
      BY <1>2 DEF AddSync
    <2>2. ~handle[k] /\ opc = "add"
      BY <1>2, <2>1 DEF AddSync, Control, PointStates, TypeOK
    <2>3. held' = [held EXCEPT ![k] = IF Type[k] = "fence" THEN 0 ELSE 1]
      BY <1>2, <2>1 DEF AddSync
    <2>4. Holds(k)' <=> Type[k] # "fence"
      BY <1>2, <2>1, <2>2 DEF AddSync, Holds
    <2>5. \A j \in Syncs \ {k} : Holds(j)' <=> Holds(j)
      <3>1. ref > 0 /\ ref' = ref + 1 /\ opc' = "register"
        BY <1>2, UsersHold DEF AddSync, Counts, Owned, SubmitPCs
      <3>2. QED
        BY <1>2, <2>1, <2>2, <3>1 DEF AddSync, Callback, Holds, TypeOK
    <2>6. QED
      BY <2>3, <2>4, <2>5, SourceSet DEF Counts, One
  <1>3. CASE AddFails
    <2>1. \A j \in Syncs : Holds(j)' <=> Holds(j)
      BY <1>3, SyncAssumption
         DEF AddFails, objVars, eventVars, ctxVars, TypeOK, Syncs, Holds,
             InCallback, At
    <2>2. held' = held
      BY <1>3 DEF AddFails, eventVars
    <2>3. QED
      BY <2>1, <2>2, SourceKept DEF Counts
  <1>4. CASE drawobj_add_sync_timestamp
    <2>1. \A j \in Syncs : Holds(j)' <=> Holds(j)
      BY <1>4, SyncAssumption
         DEF drawobj_add_sync_timestamp, Callback, objVars, ctxVars, TypeOK,
             Syncs, Holds, InCallback, At, Control, SubmitPoint
    <2>2. held' = held
      BY <1>4 DEF drawobj_add_sync_timestamp
    <2>3. QED
      BY <2>1, <2>2, SourceKept DEF Counts
  <1>5. CASE AddEventFails
    <2>1. PICK k \in Syncs : k = num /\ k \in pending
      BY <1>5, SyncAssumption
         DEF AddEventFails, Control, SubmitPoint, TypeOK, Syncs
    <2>2. /\ Type[k] = "timestamp" /\ opc = "register" /\ opc' = "error"
          /\ cpc' = [cpc EXCEPT ![k] = "gone"] /\ pending' = pending \ {k}
          /\ kgsl_drawobj_put(Put(k)) /\ UNCHANGED <<num, handle, dpc, di>>
      BY <1>5, <2>1 DEF AddEventFails, Callback
    <2>3. ref > 0
      BY <2>2, UsersHold DEF Counts, Owned, SubmitPCs
    <2>4. held[k] = 1
      BY <2>1, <2>2 DEF Counts, SourceRefCount, Holds, One
    <2>5. ~Holds(k)'
      BY <2>1, <2>2 DEF Holds, InCallback, TypeOK, Control, OneOwner, SubmitPCs
    <2>6. \A j \in Syncs \ {k} : Type[j] # "fence" => (Holds(j)' <=> Holds(j))
      BY <2>1, <2>2 DEF Holds, TypeOK
    <2>7. Put(k) \in [Syncs -> {0, 1}]
      BY <2>4 DEF Put, TypeOK
    <2>8. \A j \in Syncs \ {k} : Put(k)[j] = held[j]
      BY DEF Put, TypeOK
    <2>9. Put(k)[k] = One(Holds(k)')
      BY <2>4, <2>5 DEF Put, TypeOK, One
    <2>10. \A j \in Syncs : Type[j] # "fence" => Put(k)[j] = One(Holds(j)')
      BY <2>6, <2>8, <2>9 DEF Counts, SourceRefCount, One
    <2>11. QED
      BY <2>2, <2>3, <2>7, <2>8, <2>10, SourcePut DEF Counts
  <1>6. CASE drawobj_add_sync_timeline
    <2>1. PICK k \in Syncs : k = num /\ k \in pending /\ At(k, "set")
      BY <1>6, SyncAssumption
         DEF drawobj_add_sync_timeline, Control, SubmitPoint, TypeOK, Syncs
    <2>2. /\ Type[k] = "timeline" /\ opc = "register" /\ opc' = "add"
          /\ UNCHANGED <<num, handle, dpc, di>>
      BY <1>6, <2>1 DEF drawobj_add_sync_timeline
    <2>3. CASE ~sig[k]
      <3>1. cpc' = [cpc EXCEPT ![k] = "wait"] /\ UNCHANGED <<ref, pending, held>>
        BY <1>6, <2>1, <2>3 DEF drawobj_add_sync_timeline, Callback
      <3>2. \A j \in Syncs : Holds(j)' <=> Holds(j)
        BY <2>1, <2>2, <3>1 DEF Holds, InCallback, TypeOK
      <3>3. QED
        BY <3>1, <3>2, SourceKept DEF Counts
    <2>4. CASE sig[k]
      <3>1. /\ cpc' = [cpc EXCEPT ![k] = "gone"] /\ pending' = pending \ {k}
            /\ kgsl_drawobj_put(Put(k))
        BY <1>6, <2>1, <2>4 DEF drawobj_add_sync_timeline, Callback
      <3>2. ref > 0
        BY <2>2, UsersHold DEF Counts, Owned, SubmitPCs
      <3>3. held[k] = 1
        BY <2>1, <2>2 DEF Counts, SourceRefCount, Holds, One
      <3>4. ~Holds(k)'
        BY <2>1, <2>2, <3>1
           DEF Holds, InCallback, TypeOK, Control, OneOwner, SubmitPCs
      <3>5. \A j \in Syncs \ {k} : Type[j] # "fence" => (Holds(j)' <=> Holds(j))
        BY <2>1, <2>2, <3>1 DEF Holds, TypeOK
      <3>6. Put(k) \in [Syncs -> {0, 1}]
        BY <3>3 DEF Put, TypeOK
      <3>7. \A j \in Syncs \ {k} : Put(k)[j] = held[j]
        BY DEF Put, TypeOK
      <3>8. Put(k)[k] = One(Holds(k)')
        BY <3>3, <3>4 DEF Put, TypeOK, One
      <3>9. \A j \in Syncs : Type[j] # "fence" => Put(k)[j] = One(Holds(j)')
        BY <3>5, <3>7, <3>8 DEF Counts, SourceRefCount, One
      <3>10. QED
        BY <2>1, <2>2, <3>1, <3>2, <3>6, <3>7, <3>9, SourcePut DEF Counts
    <2>5. QED
      BY <2>3, <2>4
  <1>7. CASE kgsl_sync_fence_async_wait
    <2>1. PICK k \in Syncs : k = num
      BY <1>7, SyncAssumption
         DEF kgsl_sync_fence_async_wait, Control, SubmitPoint, TypeOK, Syncs
    <2>2. ref > 0 /\ Type[k] = "fence" /\ opc = "register"
      BY <1>7, <2>1, UsersHold
         DEF kgsl_sync_fence_async_wait, Counts, Owned, SubmitPCs
    <2>3. Holds(k)'
      BY <1>7, <2>1, <2>2 DEF kgsl_sync_fence_async_wait, objVars, Holds
    <2>4. \A j \in Syncs \ {k} : Holds(j)' <=> Holds(j)
      BY <1>7, <2>1, <2>2
         DEF kgsl_sync_fence_async_wait, objVars, Callback, Holds, TypeOK
    <2>5. held' = [held EXCEPT ![k] = 1]
      BY <1>7, <2>1 DEF kgsl_sync_fence_async_wait
    <2>6. QED
      BY <2>3, <2>4, <2>5, SourceSet DEF Counts, One
  <1>8. CASE FenceHandle
    <2>1. \A j \in Syncs : Holds(j)' <=> Holds(j)
      BY <1>8, SyncAssumption
         DEF FenceHandle, objVars, ctxVars, TypeOK, Syncs, Holds, InCallback,
             At, Control, SubmitPoint
    <2>2. held' = held
      BY <1>8 DEF FenceHandle
    <2>3. QED
      BY <2>1, <2>2, SourceKept DEF Counts
  <1>9. CASE drawobj_add_sync_fence
    <2>1. kgsl_drawobj_put(held) /\ UNCHANGED <<num, handle>>
      BY <1>9 DEF drawobj_add_sync_fence
    <2>2. ref > 0 /\ opc = "register" /\ opc' \in {"add", "error"}
      BY <1>9, UsersHold DEF drawobj_add_sync_fence, Counts, Owned, SubmitPCs
    <2>3. \A j \in Syncs : Type[j] # "fence" => (Holds(j)' <=> Holds(j))
      BY <1>9, SyncAssumption
         DEF drawobj_add_sync_fence, Callback, At, pcVars, Holds, InCallback,
             TypeOK, Syncs, Control, PointStates, SubmitPoint
    <2>4. \A j \in Syncs : Type[j] # "fence" => held[j] = One(Holds(j)')
      BY <2>3 DEF Counts, SourceRefCount, One
    <2>5. QED
      BY <2>1, <2>2, <2>4, SourcePut DEF Counts, TypeOK
  <1>10. CASE adreno_hwsched_queue_cmds
    <2>1. \A j \in Syncs : Holds(j)' <=> Holds(j)
      BY <1>10, SyncAssumption
         DEF adreno_hwsched_queue_cmds, objVars, eventVars, TypeOK, Syncs,
             Holds, InCallback, At
    <2>2. held' = held
      BY <1>10 DEF adreno_hwsched_queue_cmds, eventVars
    <2>3. QED
      BY <2>1, <2>2, SourceKept DEF Counts
  <1>11. CASE QueueContext
    <2>1. \A j \in Syncs : Holds(j)' <=> Holds(j)
      BY <1>11, SyncAssumption
         DEF QueueContext, objVars, eventVars, TypeOK, Syncs, Holds,
             InCallback, At
    <2>2. held' = held
      BY <1>11 DEF QueueContext, eventVars
    <2>3. QED
      BY <2>1, <2>2, SourceKept DEF Counts
  <1>12. CASE SubmitError
    <2>1. \A j \in Syncs : Holds(j)' <=> Holds(j)
      BY <1>12, SyncAssumption
         DEF SubmitError, objVars, eventVars, ctxVars, TypeOK, Syncs, Holds,
             InCallback, At, Control, OneOwner, SubmitPCs
    <2>2. held' = held
      BY <1>12 DEF SubmitError, eventVars
    <2>3. QED
      BY <2>1, <2>2, SourceKept DEF Counts
  <1>13. ASSUME NEW i \in Syncs, Signal(i)
        PROVE  SourceRefCount' /\ held' \in [Syncs -> {0, 1}]
    <2>1. \A j \in Syncs : Holds(j)' <=> Holds(j)
      BY <1>13, SyncAssumption
         DEF Signal, At, objVars, ctxVars, pcVars, TypeOK, Syncs, Holds,
             InCallback, Control, PendingHasCallback, PointStates
    <2>2. held' = held
      BY <1>13 DEF Signal
    <2>3. QED
      BY <2>1, <2>2, SourceKept DEF Counts
  <1>14. ASSUME NEW i \in Syncs, _kgsl_event_worker(i)
        PROVE  SourceRefCount' /\ held' \in [Syncs -> {0, 1}]
    <2>1. \A j \in Syncs : Holds(j)' <=> Holds(j)
      BY <1>14, SyncAssumption
         DEF _kgsl_event_worker, At, InCallback, Callback, objVars, ctxVars,
             pcVars, TypeOK, Syncs, Holds, Control, PendingHasCallback,
             PointStates
    <2>2. held' = held
      BY <1>14 DEF _kgsl_event_worker
    <2>3. QED
      BY <2>1, <2>2, SourceKept DEF Counts
  <1>15. ASSUME NEW i \in Syncs, drawobj_sync_expire(i)
        PROVE  SourceRefCount' /\ held' \in [Syncs -> {0, 1}]
    <2>1. \A j \in Syncs : Holds(j)' <=> Holds(j)
      BY <1>15, SyncAssumption
         DEF drawobj_sync_expire, At, Callback, ctxVars, pcVars, TypeOK,
             Syncs, Holds, InCallback, Control, PendingHasCallback,
             PointStates
    <2>2. held' = held
      BY <1>15 DEF drawobj_sync_expire
    <2>3. QED
      BY <2>1, <2>2, SourceKept DEF Counts
  <1>16. ASSUME NEW i \in Syncs, ExpireCheck(i)
        PROVE  SourceRefCount' /\ held' \in [Syncs -> {0, 1}]
    <2>1. \A j \in Syncs : Holds(j)' <=> Holds(j)
      BY <1>16, SyncAssumption
         DEF ExpireCheck, At, Callback, objVars, ctxVars, pcVars, TypeOK,
             Syncs, Holds, InCallback, Control, PendingHasCallback,
             PointStates
    <2>2. held' = held
      BY <1>16 DEF ExpireCheck
    <2>3. QED
      BY <2>1, <2>2, SourceKept DEF Counts
  <1>17. ASSUME NEW i \in Syncs, ExpireTimer(i)
        PROVE  SourceRefCount' /\ held' \in [Syncs -> {0, 1}]
    <2>1. \A j \in Syncs : Holds(j)' <=> Holds(j)
      BY <1>17, SyncAssumption
         DEF ExpireTimer, At, Callback, ctxVars, pcVars, TypeOK, Syncs, Holds,
             InCallback, Control, PendingHasCallback, PointStates
    <2>2. held' = held
      BY <1>17 DEF ExpireTimer
    <2>3. QED
      BY <2>1, <2>2, SourceKept DEF Counts
  <1>18. ASSUME NEW i \in Syncs, adreno_hwsched_queue_context(i)
        PROVE  SourceRefCount' /\ held' \in [Syncs -> {0, 1}]
    <2>1. \A j \in Syncs : Holds(j)' <=> Holds(j)
      BY <1>18, SyncAssumption
         DEF adreno_hwsched_queue_context, At, Callback, objVars, pcVars,
             TypeOK, Syncs, Holds, InCallback, Control, PendingHasCallback,
             PointStates
    <2>2. held' = held
      BY <1>18 DEF adreno_hwsched_queue_context
    <2>3. QED
      BY <2>1, <2>2, SourceKept DEF Counts
  <1>19. ASSUME NEW i \in Syncs, drawobj_sync_func(i)
        PROVE  SourceRefCount' /\ held' \in [Syncs -> {0, 1}]
    <2>1. kgsl_drawobj_put(Put(i)) /\ UNCHANGED <<num, handle>>
      BY <1>19 DEF drawobj_sync_func
    <2>2. ref > 0 /\ (ref = 1 => opc # "handle") /\ opc' = opc
      BY <1>19, UsersHold
         DEF drawobj_sync_func, At, pcVars, Counts, Owned, SubmitPCs, TypeOK
    <2>3. i \in Syncs /\ held[i] = 1 /\ Type[i] # "fence"
      BY <1>19, SyncAssumption
         DEF drawobj_sync_func, At, Counts, SourceRefCount, Holds, One,
             InCallback, TypeOK, Syncs, Control, PointStates, SubmitPoint
    <2>4. ~Holds(i)'
      BY <1>19, <2>3, SyncAssumption
         DEF drawobj_sync_func, Callback, At, pcVars, Holds, InCallback,
             TypeOK, Control, PendingHasCallback, DestroyPoint, OneOwner,
             SubmitPCs
    <2>5. \A j \in Syncs \ {i} : Type[j] # "fence" => (Holds(j)' <=> Holds(j))
      BY <1>19, <2>3 DEF drawobj_sync_func, Callback, pcVars, Holds, TypeOK, Syncs
    <2>6. Put(i) \in [Syncs -> {0, 1}]
      BY <2>3 DEF Put, TypeOK
    <2>7. \A j \in Syncs : Type[j] # "fence" => Put(i)[j] = One(Holds(j)')
      BY <2>3, <2>4, <2>5 DEF Put, TypeOK, Counts, SourceRefCount, One
    <2>8. \A j \in Syncs : Type[j] = "fence" => Put(i)[j] = held[j]
      BY <2>3 DEF Put, TypeOK
    <2>9. QED
      BY <2>1, <2>2, <2>6, <2>7, <2>8, SourcePut DEF Counts
  <1>20. ASSUME NEW i \in Syncs, SyncFuncLost(i)
        PROVE  SourceRefCount' /\ held' \in [Syncs -> {0, 1}]
    <2>1. kgsl_drawobj_put(held) /\ UNCHANGED <<num, handle>>
      BY <1>20 DEF SyncFuncLost
    <2>2. ref > 0 /\ (ref = 1 => opc # "handle") /\ opc' = opc
      BY <1>20, UsersHold
         DEF SyncFuncLost, At, pcVars, Counts, Owned, SubmitPCs, TypeOK
    <2>3. \A j \in Syncs : Type[j] # "fence" => (Holds(j)' <=> Holds(j))
      BY <1>20, SyncAssumption
         DEF SyncFuncLost, Callback, At, pcVars, Holds, InCallback, TypeOK,
             Syncs, Control, PointStates, SubmitPoint
    <2>4. \A j \in Syncs : Type[j] # "fence" => held[j] = One(Holds(j)')
      BY <2>3 DEF Counts, SourceRefCount, One
    <2>5. QED
      BY <2>1, <2>2, <2>4, SourcePut DEF Counts, TypeOK
  <1>21. ASSUME NEW i \in Syncs, drawobj_sync_fence_func(i)
        PROVE  SourceRefCount' /\ held' \in [Syncs -> {0, 1}]
    <2>1. kgsl_drawobj_put(held) /\ UNCHANGED <<num, handle>>
      BY <1>21 DEF drawobj_sync_fence_func
    <2>2. ref > 0 /\ (ref = 1 => opc # "handle") /\ opc' = opc
      BY <1>21, UsersHold
         DEF drawobj_sync_fence_func, At, pcVars, Counts, Owned, SubmitPCs,
             TypeOK
    <2>3. \A j \in Syncs : Type[j] # "fence" => (Holds(j)' <=> Holds(j))
      BY <1>21, SyncAssumption
         DEF drawobj_sync_fence_func, Callback, At, pcVars, Holds, InCallback,
             TypeOK, Syncs, Control, PointStates, SubmitPoint
    <2>4. \A j \in Syncs : Type[j] # "fence" => held[j] = One(Holds(j)')
      BY <2>3 DEF Counts, SourceRefCount, One
    <2>5. QED
      BY <2>1, <2>2, <2>4, SourcePut DEF Counts, TypeOK
  <1>22. ASSUME NEW i \in Syncs, drawobj_sync_timeline_fence_callback(i)
        PROVE  SourceRefCount' /\ held' \in [Syncs -> {0, 1}]
    <2>1. \A j \in Syncs : Holds(j)' <=> Holds(j)
      BY <1>22, SyncAssumption
         DEF drawobj_sync_timeline_fence_callback, At, Callback, objVars,
             ctxVars, pcVars, TypeOK, Syncs, Holds, InCallback, Control,
             PendingHasCallback, PointStates
    <2>2. held' = held
      BY <1>22 DEF drawobj_sync_timeline_fence_callback
    <2>3. QED
      BY <2>1, <2>2, SourceKept DEF Counts
  <1>23. ASSUME NEW i \in Syncs, drawobj_sync_timeline_fence_work(i)
        PROVE  SourceRefCount' /\ held' \in [Syncs -> {0, 1}]
    <2>1. kgsl_drawobj_put(Put(i)) /\ UNCHANGED <<num, handle>>
      BY <1>23 DEF drawobj_sync_timeline_fence_work
    <2>2. ref > 0 /\ (ref = 1 => opc # "handle") /\ opc' = opc
      BY <1>23, UsersHold
         DEF drawobj_sync_timeline_fence_work, At, pcVars, Counts, Owned,
             SubmitPCs, TypeOK
    <2>3. i \in Syncs /\ held[i] = 1 /\ Type[i] # "fence"
      BY <1>23, SyncAssumption
         DEF drawobj_sync_timeline_fence_work, At, Counts, SourceRefCount,
             Holds, One, InCallback, TypeOK, Syncs, Control, PointStates,
             SubmitPoint
    <2>4. ~Holds(i)'
      BY <1>23, <2>3, SyncAssumption
         DEF drawobj_sync_timeline_fence_work, Callback, At, pcVars, Holds,
             InCallback, TypeOK, Control, PendingHasCallback, DestroyPoint,
             OneOwner, SubmitPCs
    <2>5. \A j \in Syncs \ {i} : Type[j] # "fence" => (Holds(j)' <=> Holds(j))
      BY <1>23, <2>3
         DEF drawobj_sync_timeline_fence_work, Callback, pcVars, Holds,
             TypeOK, Syncs
    <2>6. Put(i) \in [Syncs -> {0, 1}]
      BY <2>3 DEF Put, TypeOK
    <2>7. \A j \in Syncs : Type[j] # "fence" => Put(i)[j] = One(Holds(j)')
      BY <2>3, <2>4, <2>5 DEF Put, TypeOK, Counts, SourceRefCount, One
    <2>8. \A j \in Syncs : Type[j] = "fence" => Put(i)[j] = held[j]
      BY <2>3 DEF Put, TypeOK
    <2>9. QED
      BY <2>1, <2>2, <2>6, <2>7, <2>8, SourcePut DEF Counts
  <1>24. CASE TimerFires
    <2>1. \A j \in Syncs : Holds(j)' <=> Holds(j)
      BY <1>24, SyncAssumption
         DEF TimerFires, eventVars, ctxVars, TypeOK, Syncs, Holds, InCallback,
             At
    <2>2. held' = held
      BY <1>24 DEF TimerFires, eventVars
    <2>3. QED
      BY <2>1, <2>2, SourceKept DEF Counts
  <1>25. CASE syncobj_timer
    <2>1. \A j \in Syncs : Holds(j)' <=> Holds(j)
      BY <1>25, SyncAssumption
         DEF syncobj_timer, eventVars, ctxVars, TypeOK, Syncs, Holds,
             InCallback, At
    <2>2. held' = held
      BY <1>25 DEF syncobj_timer, eventVars
    <2>3. QED
      BY <2>1, <2>2, SourceKept DEF Counts
  <1>26. CASE adreno_drawctxt_dump
    <2>1. \A j \in Syncs : Holds(j)' <=> Holds(j)
      BY <1>26, SyncAssumption
         DEF adreno_drawctxt_dump, objVars, eventVars, TypeOK, Syncs, Holds,
             InCallback, At
    <2>2. held' = held
      BY <1>26 DEF adreno_drawctxt_dump, eventVars
    <2>3. QED
      BY <2>1, <2>2, SourceKept DEF Counts
  <1>27. CASE DumpUnlock
    <2>1. \A j \in Syncs : Holds(j)' <=> Holds(j)
      BY <1>27, SyncAssumption
         DEF DumpUnlock, objVars, eventVars, TypeOK, Syncs, Holds, InCallback,
             At
    <2>2. held' = held
      BY <1>27 DEF DumpUnlock, eventVars
    <2>3. QED
      BY <2>1, <2>2, SourceKept DEF Counts
  <1>28. CASE TimerPut
    <2>1. kgsl_drawobj_put(held) /\ UNCHANGED <<num, handle>>
      BY <1>28 DEF TimerPut
    <2>2. ref > 0 /\ (ref = 1 => opc # "handle") /\ opc' = opc
      BY <1>28, UsersHold DEF TimerPut, Counts, Owned, SubmitPCs, TypeOK
    <2>3. \A j \in Syncs : Type[j] # "fence" => (Holds(j)' <=> Holds(j))
      BY <1>28, SyncAssumption DEF TimerPut, Holds
    <2>4. \A j \in Syncs : Type[j] # "fence" => held[j] = One(Holds(j)')
      BY <2>3 DEF Counts, SourceRefCount, One
    <2>5. QED
      BY <2>1, <2>2, <2>4, SourcePut DEF Counts, TypeOK
  <1>29. CASE hwsched_handle_jobs
    <2>1. \A j \in Syncs : Holds(j)' <=> Holds(j)
      BY <1>29, SyncAssumption
         DEF hwsched_handle_jobs, objVars, eventVars, TypeOK, Syncs, Holds,
             InCallback, At
    <2>2. held' = held
      BY <1>29 DEF hwsched_handle_jobs, eventVars
    <2>3. QED
      BY <2>1, <2>2, SourceKept DEF Counts
  <1>30. CASE hwsched_sendcmds
    <2>1. \A j \in Syncs : Holds(j)' <=> Holds(j)
      BY <1>30, SyncAssumption
         DEF hwsched_sendcmds, objVars, eventVars, TypeOK, Syncs, Holds,
             InCallback, At
    <2>2. held' = held
      BY <1>30 DEF hwsched_sendcmds, eventVars
    <2>3. QED
      BY <2>1, <2>2, SourceKept DEF Counts
  <1>31. CASE _retire_syncobj
    <2>1. \A j \in Syncs : Holds(j)' <=> Holds(j)
      BY <1>31, SyncAssumption
         DEF _retire_syncobj, objVars, eventVars, TypeOK, Syncs, Holds,
             InCallback, At, Control, LockHolder, OneOwner
    <2>2. held' = held
      BY <1>31 DEF _retire_syncobj, eventVars
    <2>3. QED
      BY <2>1, <2>2, SourceKept DEF Counts
  <1>32. CASE RetireLater
    <2>1. \A j \in Syncs : Holds(j)' <=> Holds(j)
      BY <1>32, SyncAssumption
         DEF RetireLater, objVars, eventVars, ctxVars, TypeOK, Syncs, Holds,
             InCallback, At
    <2>2. held' = held
      BY <1>32 DEF RetireLater, eventVars
    <2>3. QED
      BY <2>1, <2>2, SourceKept DEF Counts
  <1>33. CASE StartTimer
    <2>1. \A j \in Syncs : Holds(j)' <=> Holds(j)
      BY <1>33, SyncAssumption
         DEF StartTimer, eventVars, ctxVars, TypeOK, Syncs, Holds, InCallback,
             At
    <2>2. held' = held
      BY <1>33 DEF StartTimer, eventVars
    <2>3. QED
      BY <2>1, <2>2, SourceKept DEF Counts
  <1>34. CASE HwschedUnlock
    <2>1. \A j \in Syncs : Holds(j)' <=> Holds(j)
      BY <1>34, SyncAssumption
         DEF HwschedUnlock, objVars, eventVars, TypeOK, Syncs, Holds,
             InCallback, At
    <2>2. held' = held
      BY <1>34 DEF HwschedUnlock, eventVars
    <2>3. QED
      BY <2>1, <2>2, SourceKept DEF Counts
  <1>35. CASE ContextBad
    <2>1. \A j \in Syncs : Holds(j)' <=> Holds(j)
      BY <1>35, SyncAssumption
         DEF ContextBad, objVars, eventVars, pcVars, TypeOK, Syncs, Holds,
             InCallback, At
    <2>2. held' = held
      BY <1>35 DEF ContextBad, eventVars
    <2>3. QED
      BY <2>1, <2>2, SourceKept DEF Counts
  <1>36. CASE drawctxt_detach_drawobjs
    <2>1. \A j \in Syncs : Holds(j)' <=> Holds(j)
      BY <1>36, SyncAssumption
         DEF drawctxt_detach_drawobjs, objVars, eventVars, TypeOK, Syncs,
             Holds, InCallback, At, Control, OneOwner
    <2>2. held' = held
      BY <1>36 DEF drawctxt_detach_drawobjs, eventVars
    <2>3. QED
      BY <2>1, <2>2, SourceKept DEF Counts
  <1>37. CASE DestroyTimer
    <2>1. \A j \in Syncs : Holds(j)' <=> Holds(j)
      BY <1>37, SyncAssumption
         DEF DestroyTimer, eventVars, ctxVars, TypeOK, Syncs, Holds,
             InCallback, At
    <2>2. held' = held
      BY <1>37 DEF DestroyTimer, eventVars
    <2>3. QED
      BY <2>1, <2>2, SourceKept DEF Counts
  <1>38. CASE syncobj_destroy
    <2>1. \A j \in Syncs : Holds(j)' <=> Holds(j)
      BY <1>38, SyncAssumption
         DEF syncobj_destroy, eventVars, ctxVars, TypeOK, Syncs, Holds,
             InCallback, At
    <2>2. held' = held
      BY <1>38 DEF syncobj_destroy, eventVars
    <2>3. QED
      BY <2>1, <2>2, SourceKept DEF Counts
  <1>39. CASE DestroyCancel
    <2>1. \A j \in Syncs : Holds(j)' <=> Holds(j)
      BY <1>39, SyncAssumption
         DEF DestroyCancel, At, InCallback, Callback, objVars, ctxVars,
             TypeOK, Syncs, Holds, Control, DestroyPoint
    <2>2. held' = held
      BY <1>39 DEF DestroyCancel
    <2>3. QED
      BY <2>1, <2>2, SourceKept DEF Counts
  <1>40. CASE DestroyPut
    <2>1. PICK k \in Syncs : k = di /\ k \notin pending
      BY <1>40, SyncAssumption
         DEF DestroyPut, Control, DestroyPoint, TypeOK, Syncs
    <2>2. /\ dpc = "put" /\ dpc' = "loop" /\ di' = di + 1
          /\ UNCHANGED <<num, pending, handle, opc>>
      BY <1>40 DEF DestroyPut
    <2>3. opc # "handle"
      BY <2>2 DEF Control, OneOwner, SubmitPCs
    <2>4. CASE Type[k] = "timestamp"
      <3>1. held' = Put(k) /\ UNCHANGED <<ref, cpc>>
        BY <1>40, <2>1, <2>4 DEF DestroyPut
      <3>2. held[k] = 1
        BY <2>1, <2>2, <2>4 DEF Counts, SourceRefCount, Holds, One
      <3>3. ~Holds(k)'
        BY <2>1, <2>2, <2>4, <3>1
           DEF Holds, InCallback, Control, DestroyPoint
      <3>4. \A j \in Syncs \ {k} : Holds(j)' <=> Holds(j)
        BY <2>1, <2>2, <3>1 DEF Holds
      <3>5. held' = [held EXCEPT ![k] = 0]
        BY <2>1, <3>1, <3>2 DEF Put, TypeOK
      <3>6. QED
        BY <2>1, <3>3, <3>4, <3>5, SourceSet DEF Counts, One
    <2>5. ref > 0
      BY <2>2, UsersHold DEF Counts, Owned
    <2>6. CASE Type[k] = "fence"
      <3>1. cpc' = [cpc EXCEPT ![k] = "gone"] /\ kgsl_drawobj_put(held)
        BY <1>40, <2>1, <2>6 DEF DestroyPut, Callback
      <3>2. \A j \in Syncs : Type[j] # "fence" => (Holds(j)' <=> Holds(j))
        BY <2>1, <2>2, <2>6, <3>1 DEF Holds, TypeOK
      <3>3. \A j \in Syncs : Type[j] # "fence" => held[j] = One(Holds(j)')
        BY <3>2 DEF Counts, SourceRefCount, One
      <3>4. QED
        BY <2>2, <2>3, <2>5, <3>1, <3>3, SourcePut DEF Counts, TypeOK
    <2>7. CASE Type[k] = "timeline"
      <3>1. cpc' = [cpc EXCEPT ![k] = "gone"] /\ kgsl_drawobj_put(Put(k))
        BY <1>40, <2>1, <2>7 DEF DestroyPut, Callback
      <3>2. held[k] = 1
        BY <2>1, <2>2, <2>7 DEF Counts, SourceRefCount, Holds, One
      <3>3. ~Holds(k)'
        BY <2>1, <2>2, <2>7, <3>1 DEF Holds, InCallback, TypeOK
      <3>4. \A j \in Syncs \ {k} : Type[j] # "fence" => (Holds(j)' <=> Holds(j))
        BY <2>1, <2>2, <3>1 DEF Holds, TypeOK
      <3>5. Put(k) \in [Syncs -> {0, 1}]
        BY <3>2 DEF Put, TypeOK
      <3>6. \A j \in Syncs \ {k} : Put(k)[j] = held[j]
        BY DEF Put, TypeOK
      <3>7. Put(k)[k] = One(Holds(k)')
        BY <2>1, <3>2, <3>3 DEF Put, TypeOK, One
      <3>8. \A j \in Syncs : Type[j] # "fence" => Put(k)[j] = One(Holds(j)')
        BY <3>4, <3>6, <3>7 DEF Counts, SourceRefCount, One
      <3>9. QED
        BY <2>2, <2>3, <2>5, <2>7, <3>1, <3>5, <3>6, <3>8, SourcePut DEF Counts
    <2>8. QED
      BY <2>1, <2>4, <2>6, <2>7, SyncAssumption
  <1>41. CASE DestroySched
    <2>1. \A j \in Syncs : Holds(j)' <=> Holds(j)
      BY <1>41, SyncAssumption
         DEF DestroySched, objVars, eventVars, TypeOK, Syncs, Holds,
             InCallback, At
    <2>2. held' = held
      BY <1>41 DEF DestroySched, eventVars
    <2>3. QED
      BY <2>1, <2>2, SourceKept DEF Counts
  <1>42. CASE kgsl_drawobj_destroy
    <2>1. kgsl_drawobj_put(held) /\ UNCHANGED <<num, handle>>
      BY <1>42 DEF kgsl_drawobj_destroy
    <2>2. ref > 0 /\ (ref = 1 => opc # "handle") /\ opc' = opc
      BY <1>42, UsersHold
         DEF kgsl_drawobj_destroy, Counts, Owned, SubmitPCs, TypeOK, Control,
             OneOwner
    <2>3. \A j \in Syncs : Type[j] # "fence" => (Holds(j)' <=> Holds(j))
      BY <1>42, SyncAssumption DEF kgsl_drawobj_destroy, Holds
    <2>4. \A j \in Syncs : Type[j] # "fence" => held[j] = One(Holds(j)')
      BY <2>3 DEF Counts, SourceRefCount, One
    <2>5. QED
      BY <2>1, <2>2, <2>4, SourcePut DEF Counts, TypeOK
  <1>43. CASE UNCHANGED vars
    BY <1>43
       DEF vars, objVars, eventVars, ctxVars, pcVars, TypeOK, SourceRefCount,
           Holds, One, Counts, InCallback
  <1>44. QED
    BY <1>1, <1>2, <1>3, <1>4, <1>5, <1>6, <1>7, <1>8, <1>9, <1>10, <1>11,
       <1>12, <1>13, <1>14, <1>15, <1>16, <1>17, <1>18, <1>19, <1>20,
       <1>21, <1>22, <1>23, <1>24, <1>25, <1>26, <1>27, <1>28, <1>29,
       <1>30, <1>31, <1>32, <1>33, <1>34, <1>35, <1>36, <1>37, <1>38,
       <1>39, <1>40, <1>41, <1>42, <1>43
       DEF Next, Submit, RunCallback, RunTimer, Hwsched, Destroy

-----------------------------------------------------------------------------
(***************************************************************************)
(* The invariant and what follows from it.                                 *)
(***************************************************************************)

\* Before the first submit nothing is in use.
LEMMA InitInv == Init => IInv
  <1>1. SUFFICES ASSUME Init PROVE IInv
    OBVIOUS
  <1>2. TypeOK
    <2>1. Flags
      BY <1>1, Zenon DEF Init, Flags
    <2>2. QED
      BY <1>1, <2>1, SyncAssumption DEF Init, TypeOK, Flags, InCallback
  <1>3. Control
    BY <1>1
       DEF Init, Control, OneOwner, PointStates, SubmitPoint, DestroyPoint,
           LockHolder, PendingHasCallback, SubmitPCs, At
  <1>4. ObjRefCount
    <2>1. LivePoints = {}
      BY <1>1 DEF Init, LivePoints
    <2>2. Cardinality(LivePoints) = 0
      BY <2>1, FS_EmptySet
    <2>3. ~Owned /\ tpc = "idle" /\ ref = 0
      BY <1>1 DEF Init, Owned, SubmitPCs
    <2>4. QED
      BY <2>2, <2>3 DEF ObjRefCount, One
  <1>5. SourceRefCount
    BY <1>1 DEF Init, SourceRefCount, Holds, One, InCallback
  <1>6. Order
    BY <1>1 DEF Init, Order, ClearMeansSignaled, NoLostKick, TimerStopped
  <1>7. QED
    BY <1>2, <1>3, <1>4, <1>5, <1>6 DEF IInv, Counts

\* Every step keeps the invariant.
LEMMA NextInv == IInv /\ [Next]_vars => IInv'
  <1>1. SUFFICES ASSUME IInv, [Next]_vars PROVE IInv'
    OBVIOUS
  <1>2. TypeOK /\ Control /\ Counts /\ ObjRefCount /\ Order
    BY <1>1 DEF IInv, Counts
  <1>3. Control' /\ Order'
    BY <1>1, <1>2, ControlStep, OrderStep
  <1>4. ObjRefCount' /\ ref' \in Nat
    BY <1>1, <1>2, RefStep
  <1>5. SourceRefCount' /\ held' \in [Syncs -> {0, 1}]
    BY <1>1, <1>2, SourceStep
  <1>6. Flags' /\ Ranges'
    BY <1>1, <1>2, FlagsStep, RangesStep
  <1>7. TypeOK'
    BY <1>4, <1>5, <1>6, Zenon DEF TypeOK, Flags, Ranges
  <1>8. QED
    BY <1>3, <1>4, <1>5, <1>7 DEF IInv, Counts

\* The invariant holds throughout.
THEOREM Invariance == Spec => []IInv
  BY InitInv, NextInv, PTL DEF Spec

\* No count of kgsl_drawobj.c goes below zero, and no bit is set beyond
\* numsyncs, for any number and mix of sync points.
THEOREM TypeCorrect == Spec => []TypeOK
  <1>1. IInv => TypeOK
    BY DEF IInv
  <1>2. QED
    BY <1>1, Invariance, PTL

\* The count of a sync object is the number of its users: it is freed with the
\* last of them and not before.
THEOREM ObjCountExact == Spec => []ObjRefCount
  <1>1. IInv => ObjRefCount
    BY DEF IInv, Counts
  <1>2. QED
    BY <1>1, Invariance, PTL

\* Contexts, fences and fence arrays are put exactly once, by the one that
\* clears the bit or, for fences, with the object.
THEOREM SourceCountExact == Spec => []SourceRefCount
  <1>1. IInv => SourceRefCount
    BY DEF IInv, Counts
  <1>2. QED
    BY <1>1, Invariance, PTL

\* A bit that is set has a callback that will clear it.
THEOREM CallbackToCome == Spec => []PendingHasCallback
  <1>1. IInv => PendingHasCallback
    BY DEF IInv, Control
  <1>2. QED
    BY <1>1, Invariance, PTL

\* _retire_syncobj lets the commands behind the object go only after
\* everything it waits for has happened.
THEOREM NothingEarly == Spec => []NoEarlyRetire
  <1>1. IInv => NoEarlyRetire
    BY DEF IInv, Control, Order, LockHolder, ClearMeansSignaled, NoEarlyRetire
  <1>2. QED
    BY <1>1, Invariance, PTL

\* An object in the queue without pending bits is never forgotten.
THEOREM SchedulerTold == Spec => []NoLostKick
  <1>1. IInv => NoLostKick
    BY DEF IInv, Order
  <1>2. QED
    BY <1>1, Invariance, PTL

\* The timer is neither armed nor running once del_timer_sync has returned.
THEOREM TimerSafe == Spec => []TimerStopped
  <1>1. IInv => TimerStopped
    BY DEF IInv, Order
  <1>2. QED
    BY <1>1, Invariance, PTL
=============================================================================
