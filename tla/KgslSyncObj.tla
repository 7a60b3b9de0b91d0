---------------------------- MODULE KgslSyncObj -----------------------------
(***************************************************************************)
(* A sync object of the KGSL driver (kgsl_drawobj.c) from its creation in  *)
(* a submit ioctl to the return of its memory.  The object sits in the     *)
(* queue of its context and holds the commands behind it back until the    *)
(* bits of its sync points are clear.  A sync point waits for a timestamp  *)
(* of a context (a GPU event), for a fence, or for timelines (a fence      *)
(* array).                                                                 *)
(*                                                                         *)
(* Actors: the thread in the ioctl, the callback of every sync point, the  *)
(* scheduler, the thread that empties the queue of a bad context, the      *)
(* canary timer, and whoever destroys the object.  The pending bits are    *)
(* changed by atomic bit operations and by no lock; drawctxt->lock guards  *)
(* the queue; a fence runs its callbacks under its own lock.               *)
(*                                                                         *)
(* The memory of an object is used again for the next one.  The reference  *)
(* of the object on its own context is taken and put with the memory.      *)
(***************************************************************************)
EXTENDS Naturals, FiniteSets

CONSTANTS
    N,            \* number of sync points of a submit
    Type          \* Type[i]: what sync point i waits for

Syncs == 1 .. N

ASSUME SyncAssumption ==
    /\ N \in Nat
    /\ Type \in [Syncs -> {"timestamp", "fence", "timeline"}]

VARIABLES
    \* struct kgsl_drawobj_sync
    ref,          \* base.refcount; 0 means free memory
    num,          \* numsyncs
    pending,      \* the bits of pending that are set
    started,      \* timeout_jiffies is not 0
    timer,        \* the timer is armed
    \* struct kgsl_drawobj_sync_event
    handle,       \* handle[i]: event->handle is set
    held,         \* held[i]: references on the context or the fence of i
    cpc,          \* cpc[i]: where the callback of i is
    sig,          \* sig[i]: the timestamp, fence or fence array has signaled
    \* context and scheduler
    inq,          \* the object is in the queue of the context
    bad,          \* the context is detached or invalid
    lock,         \* who is inside drawctxt->lock
    kick,         \* the scheduler's work is queued
    \* locals: submit ioctl, timer handler, scheduler, destroyer
    opc, tpc, hpc, dpc,
    di            \* the loop counter of syncobj_destroy

objVars   == <<ref, num, pending, started, timer>>
eventVars == <<handle, held, cpc, sig>>
ctxVars   == <<inq, bad, lock, kick>>
pcVars    == <<opc, tpc, hpc, dpc, di>>
vars == <<objVars, eventVars, ctxVars, pcVars>>

-----------------------------------------------------------------------------
(***************************************************************************)
(* Helpers.                                                                *)
(***************************************************************************)
At(i, l) == cpc[i] = l

Callback(i, l) == cpc' = [cpc EXCEPT ![i] = l]

\* The callback of a fence runs under the lock of the fence.
InCallback == {"clear", "check", "timer", "sched", "fin"}

\* kgsl_drawobj_put.  The last one frees the object: syncobj_destroy_object
\* puts the fences of the handles.  h is held after the puts of the caller.
kgsl_drawobj_put(h) ==
    /\ ref' = ref - 1
    /\ held' = IF ref = 1
               THEN [i \in Syncs |-> IF handle[i] THEN h[i] - 1 ELSE h[i]]
               ELSE h

Put(i) == [held EXCEPT ![i] = @ - 1]

\* The reference of kref_init: of the ioctl, the queue or the destroyer.
SubmitPCs == {"add", "register", "handle", "error"}
Owned == opc \in SubmitPCs \/ inq \/ dpc # "idle"

Init ==
    /\ ref = 0 /\ num = 0 /\ pending = {} /\ started = FALSE /\ timer = FALSE
    /\ handle = [i \in Syncs |-> FALSE]
    /\ held = [i \in Syncs |-> 0]
    /\ cpc = [i \in Syncs |-> "none"]
    /\ sig = [i \in Syncs |-> FALSE]
    /\ inq = FALSE /\ bad = FALSE /\ lock = "none" /\ kick = FALSE
    /\ opc = "idle" /\ tpc = "idle" /\ hpc = "idle" /\ dpc = "idle"
    /\ di = 1

-----------------------------------------------------------------------------
(***************************************************************************)
(* The submit ioctl: create the object, add the sync points in order and   *)
(* queue it.  When a step fails the object is destroyed.                   *)
(***************************************************************************)

\* The memory is zeroed; what the sync points wait for may have signaled.
kgsl_drawobj_sync_create ==
    /\ opc = "idle" /\ ref = 0
    /\ ref' = 1
    /\ num' = 0 /\ pending' = {} /\ started' = FALSE
    /\ handle' = [i \in Syncs |-> FALSE]
    /\ cpc' = [i \in Syncs |-> "none"]
    /\ sig' \in [Syncs -> BOOLEAN]
    /\ opc' = "add"
    /\ UNCHANGED <<timer, held, ctxVars, tpc, hpc, dpc, di>>

\* Mutant: the bit is not set before the callback is registered.
AddSyncNoBit ==
    LET i == num + 1 IN
    /\ opc = "add" /\ i \in Syncs
    /\ ref' = ref + 1
    /\ num' = i
    /\ held' = [held EXCEPT ![i] = IF Type[i] = "fence" THEN 0 ELSE 1]
    /\ Callback(i, "set")
    /\ opc' = "register"
    /\ UNCHANGED <<pending, started, timer, handle, sig, ctxVars, tpc, hpc, dpc, di>>

\* The first half of drawobj_add_sync_timestamp, _fence and _timeline: take a
\* reference for the callback and set the bit.  A timestamp has its context
\* by now and a timeline its fence array; a fence is looked up later.
AddSync ==
    LET i == num + 1 IN
    /\ opc = "add" /\ i \in Syncs
    /\ ref' = ref + 1
    /\ num' = i
    /\ pending' = pending \cup {i}
    /\ held' = [held EXCEPT ![i] = IF Type[i] = "fence" THEN 0 ELSE 1]
    /\ Callback(i, "set")
    /\ opc' = "register"
    /\ UNCHANGED <<started, timer, handle, sig, ctxVars, tpc, hpc, dpc, di>>

\* A sync point that fails before it takes a reference: bad user memory, no
\* such context, a timestamp of the future, no such timeline.
AddFails ==
    /\ opc = "add" /\ num < N
    /\ opc' = "error"
    /\ UNCHANGED <<objVars, eventVars, ctxVars, tpc, hpc, dpc, di>>

\* kgsl_add_event: an event that has retired goes to the worker at once.
drawobj_add_sync_timestamp ==
    /\ opc = "register" /\ Type[num] = "timestamp"
    /\ Callback(num, IF sig[num] THEN "queued" ELSE "wait")
    /\ opc' = "add"
    /\ UNCHANGED <<objVars, handle, held, sig, ctxVars, tpc, hpc, dpc, di>>

\* kgsl_add_event fails: the bit and both references go.
AddEventFails ==
    /\ opc = "register" /\ Type[num] = "timestamp"
    /\ pending' = pending \ {num}
    /\ kgsl_drawobj_put(Put(num))
    /\ Callback(num, "gone")
    /\ opc' = "error"
    /\ UNCHANGED <<num, started, timer, handle, sig, ctxVars, tpc, hpc, dpc, di>>

\* dma_fence_add_callback on the fence array.  It refuses a signaled fence:
\* the sync point is satisfied, and its references go.
drawobj_add_sync_timeline ==
    /\ opc = "register" /\ Type[num] = "timeline"
    /\ \/ /\ ~sig[num]
          /\ Callback(num, "wait")
          /\ UNCHANGED <<ref, pending, held>>
       \/ /\ sig[num]
          /\ pending' = pending \ {num}
          /\ kgsl_drawobj_put(Put(num))
          /\ Callback(num, "gone")
    /\ opc' = "add"
    /\ UNCHANGED <<num, started, timer, handle, sig, ctxVars, tpc, hpc, dpc, di>>

\* kgsl_sync_fence_async_wait with a fence that has not signaled: its
\* callback may run before event->handle is set.
kgsl_sync_fence_async_wait ==
    /\ opc = "register" /\ Type[num] = "fence" /\ ~sig[num]
    /\ held' = [held EXCEPT ![num] = 1]
    /\ Callback(num, "wait")
    /\ opc' = "handle"
    /\ UNCHANGED <<objVars, handle, sig, ctxVars, tpc, hpc, dpc, di>>

FenceHandle ==
    /\ opc = "handle"
    /\ handle' = [handle EXCEPT ![num] = TRUE]
    /\ opc' = "add"
    /\ UNCHANGED <<objVars, held, cpc, sig, ctxVars, tpc, hpc, dpc, di>>

\* Mutant: the error path puts a fence that it does not have.
AddFencePutsTwice ==
    /\ opc = "register" /\ Type[num] = "fence"
    /\ \/ sig[num] /\ opc' = "add"
       \/ opc' = "error"
    /\ pending' = pending \ {num}
    /\ ref' = ref - 1
    /\ held' = [held EXCEPT ![num] = 0 - 1]
    /\ Callback(num, "gone")
    /\ UNCHANGED <<num, started, timer, handle, sig, ctxVars, tpc, hpc, dpc, di>>

\* kgsl_sync_fence_async_wait returns NULL for a signaled fence and an error
\* when the descriptor is no fence or there is no memory.
drawobj_add_sync_fence ==
    /\ opc = "register" /\ Type[num] = "fence"
    /\ \/ sig[num] /\ opc' = "add"
       \/ opc' = "error"
    /\ pending' = pending \ {num}
    /\ kgsl_drawobj_put(held)
    /\ Callback(num, "gone")
    /\ UNCHANGED <<num, started, timer, handle, sig, ctxVars, tpc, hpc, dpc, di>>

\* adreno_hwsched_queue_cmds, under drawctxt->lock.  It may fail for want of
\* room or memory too.
adreno_hwsched_queue_cmds ==
    /\ opc = "add" /\ num = N
    /\ lock = "none"
    /\ \/ ~bad /\ inq' = TRUE /\ opc' = "kick"
       \/ inq' = inq /\ opc' = "error"
    /\ UNCHANGED <<objVars, eventVars, bad, lock, kick, tpc, hpc, dpc, di>>

\* The context goes on the scheduler's list after the unlock.
QueueContext ==
    /\ opc = "kick"
    /\ kick' = TRUE
    /\ opc' = "idle"
    /\ UNCHANGED <<objVars, eventVars, inq, bad, lock, tpc, hpc, dpc, di>>

SubmitError ==
    /\ opc = "error"
    /\ opc' = "idle" /\ dpc' = "timer"
    /\ UNCHANGED <<objVars, eventVars, ctxVars, tpc, hpc, di>>

-----------------------------------------------------------------------------
(***************************************************************************)
(* The callbacks of the sync points.  A callback that clears the bit of    *)
(* its sync point puts what the sync point holds; one that finds the bit   *)
(* clear has lost it to the destroyer.                                     *)
(***************************************************************************)

\* What i waits for happens: the timestamp retires or its context goes away,
\* the fence or all timelines signal.  The event goes to the events worker; a
\* fence calls back under its lock.
Signal(i) ==
    /\ ~sig[i]
    /\ sig' = [sig EXCEPT ![i] = TRUE]
    /\ cpc' = IF ~At(i, "wait") THEN cpc
              ELSE [cpc EXCEPT ![i] = IF Type[i] = "timestamp" THEN "queued" ELSE "clear"]
    /\ UNCHANGED <<objVars, handle, held, ctxVars, pcVars>>

\* The events worker is one thread.
_kgsl_event_worker(i) ==
    /\ At(i, "queued")
    /\ \A j \in Syncs : Type[j] = "timestamp" => cpc[j] \notin InCallback \cup {"put"}
    /\ Callback(i, "clear")
    /\ UNCHANGED <<objVars, handle, held, sig, ctxVars, pcVars>>

\* Mutant: a callback does not notice that its bit is clear.
ExpireAlwaysTrue(i) ==
    /\ At(i, "clear")
    /\ pending' = pending \ {i}
    /\ Callback(i, "check")
    /\ UNCHANGED <<ref, num, started, timer, handle, held, sig, ctxVars, pcVars>>

\* test_and_clear_bit.
drawobj_sync_expire(i) ==
    /\ At(i, "clear")
    /\ pending' = pending \ {i}
    /\ Callback(i, IF i \in pending THEN "check"
                   ELSE IF Type[i] = "timestamp" THEN "put" ELSE "lost")
    /\ UNCHANGED <<ref, num, started, timer, handle, held, sig, ctxVars, pcVars>>

\* kgsl_drawobj_events_pending.
ExpireCheck(i) ==
    /\ At(i, "check")
    /\ Callback(i, IF pending = {} THEN "timer" ELSE "fin")
    /\ UNCHANGED <<objVars, handle, held, sig, ctxVars, pcVars>>

\* Mutant: the scheduler is called only if the timer was armed.
ExpireIfTimer(i) ==
    /\ At(i, "timer")
    /\ timer' = FALSE
    /\ Callback(i, IF timer THEN "sched" ELSE "fin")
    /\ UNCHANGED <<ref, num, pending, started, handle, held, sig, ctxVars, pcVars>>

\* del_timer does not wait for a handler that runs.
ExpireTimer(i) ==
    /\ At(i, "timer")
    /\ timer' = FALSE
    /\ Callback(i, "sched")
    /\ UNCHANGED <<ref, num, pending, started, handle, held, sig, ctxVars, pcVars>>

\* drawctxt_sched: put the context on the scheduler's list and trigger it.
adreno_hwsched_queue_context(i) ==
    /\ At(i, "sched")
    /\ kick' = TRUE
    /\ Callback(i, "fin")
    /\ UNCHANGED <<objVars, handle, held, sig, inq, bad, lock, pcVars>>

\* The end of drawobj_sync_func for a callback that cleared the bit.
drawobj_sync_func(i) ==
    /\ At(i, "fin") /\ Type[i] = "timestamp"
    /\ kgsl_drawobj_put(Put(i))
    /\ Callback(i, "gone")
    /\ UNCHANGED <<num, pending, started, timer, handle, sig, ctxVars, pcVars>>

\* Mutant: the callback of an event always puts the context.
SyncFuncAlwaysPuts(i) ==
    /\ At(i, "put")
    /\ kgsl_drawobj_put(Put(i))
    /\ Callback(i, "gone")
    /\ UNCHANGED <<num, pending, started, timer, handle, sig, ctxVars, pcVars>>

\* ... and for one that did not: the destroyer puts the context.
SyncFuncLost(i) ==
    /\ At(i, "put")
    /\ kgsl_drawobj_put(held)
    /\ Callback(i, "gone")
    /\ UNCHANGED <<num, pending, started, timer, handle, sig, ctxVars, pcVars>>

drawobj_sync_fence_func(i) ==
    /\ At(i, "fin") /\ Type[i] = "fence"
    /\ kgsl_drawobj_put(held)
    /\ Callback(i, "gone")
    /\ UNCHANGED <<num, pending, started, timer, handle, sig, ctxVars, pcVars>>

\* The callback of a fence array leaves its puts to a work item.
drawobj_sync_timeline_fence_callback(i) ==
    /\ At(i, "fin") /\ Type[i] = "timeline"
    /\ Callback(i, "work")
    /\ UNCHANGED <<objVars, handle, held, sig, ctxVars, pcVars>>

drawobj_sync_timeline_fence_work(i) ==
    /\ At(i, "work")
    /\ kgsl_drawobj_put(Put(i))
    /\ Callback(i, "gone")
    /\ UNCHANGED <<num, pending, started, timer, handle, sig, ctxVars, pcVars>>

-----------------------------------------------------------------------------
(***************************************************************************)
(* The canary timer: syncobj_timer with adreno_drawctxt_dump, which gives  *)
(* up when it does not get drawctxt->lock at once.                         *)
(***************************************************************************)
TimerFires ==
    /\ timer /\ tpc = "idle"
    /\ timer' = FALSE
    /\ tpc' = "get"
    /\ UNCHANGED <<ref, num, pending, started, eventVars, ctxVars,
                   opc, hpc, dpc, di>>

syncobj_timer ==
    /\ tpc = "get"
    /\ IF ref = 0 THEN tpc' = "idle" /\ UNCHANGED ref
                  ELSE tpc' = "dump" /\ ref' = ref + 1
    /\ UNCHANGED <<num, pending, started, timer, eventVars, ctxVars,
                   opc, hpc, dpc, di>>

adreno_drawctxt_dump ==
    /\ tpc = "dump"
    /\ \/ lock = "none" /\ lock' = "timer" /\ tpc' = "unlock"
       \/ lock # "none" /\ lock' = lock /\ tpc' = "put"
    /\ UNCHANGED <<objVars, eventVars, inq, bad, kick, opc, hpc, dpc, di>>

DumpUnlock ==
    /\ tpc = "unlock"
    /\ lock' = "none"
    /\ tpc' = "put"
    /\ UNCHANGED <<objVars, eventVars, inq, bad, kick, opc, hpc, dpc, di>>

TimerPut ==
    /\ tpc = "put"
    /\ kgsl_drawobj_put(held)
    /\ tpc' = "idle"
    /\ UNCHANGED <<num, pending, started, timer, handle, cpc, sig, ctxVars,
                   opc, hpc, dpc, di>>

-----------------------------------------------------------------------------
(***************************************************************************)
(* The scheduler and the thread that detaches or invalidates the context.  *)
(***************************************************************************)

\* hwsched_handle_jobs_list drops the job of a bad context.
hwsched_handle_jobs ==
    /\ hpc = "idle" /\ kick
    /\ kick' = FALSE
    /\ hpc' = IF bad THEN "idle" ELSE "lock"
    /\ UNCHANGED <<objVars, eventVars, inq, bad, lock, opc, tpc, dpc, di>>

hwsched_sendcmds ==
    /\ hpc = "lock" /\ lock = "none"
    /\ lock' = IF inq THEN "hwsched" ELSE "none"
    /\ hpc' = IF inq THEN "check" ELSE "idle"
    /\ UNCHANGED <<objVars, eventVars, inq, bad, kick, opc, tpc, dpc, di>>

\* An object without pending bits leaves the queue and is destroyed with
\* drawctxt->lock held.
_retire_syncobj ==
    /\ hpc = "check" /\ pending = {}
    /\ inq' = FALSE
    /\ hpc' = "destroy" /\ dpc' = "timer"
    /\ UNCHANGED <<objVars, eventVars, bad, lock, kick, opc, tpc, di>>

\* Otherwise the timer is started once.
RetireLater ==
    /\ hpc = "check" /\ pending # {}
    /\ hpc' = IF started THEN "unlock" ELSE "arm"
    /\ UNCHANGED <<objVars, eventVars, ctxVars, opc, tpc, dpc, di>>

StartTimer ==
    /\ hpc = "arm"
    /\ started' = TRUE /\ timer' = TRUE
    /\ hpc' = "unlock"
    /\ UNCHANGED <<ref, num, pending, eventVars, ctxVars, opc, tpc, dpc, di>>

HwschedUnlock ==
    /\ hpc = "unlock"
    /\ lock' = "none"
    /\ hpc' = "idle"
    /\ UNCHANGED <<objVars, eventVars, inq, bad, kick, opc, tpc, dpc, di>>

ContextBad ==
    /\ ~bad
    /\ bad' = TRUE
    /\ UNCHANGED <<objVars, eventVars, inq, lock, kick, pcVars>>

\* The queue is emptied under drawctxt->lock; the objects are destroyed
\* without it.
drawctxt_detach_drawobjs ==
    /\ bad /\ inq /\ lock = "none"
    /\ inq' = FALSE
    /\ dpc' = "timer"
    /\ UNCHANGED <<objVars, eventVars, bad, lock, kick, opc, tpc, hpc, di>>

-----------------------------------------------------------------------------
(***************************************************************************)
(* kgsl_drawobj_destroy with syncobj_destroy.                              *)
(***************************************************************************)

\* Mutant: del_timer in place of del_timer_sync.
DestroyTimerAsync ==
    /\ dpc = "timer"
    /\ timer' = FALSE
    /\ dpc' = "loop" /\ di' = 1
    /\ UNCHANGED <<ref, num, pending, started, eventVars, ctxVars,
                   opc, tpc, hpc>>

\* del_timer_sync waits for the handler.
DestroyTimer ==
    /\ dpc = "timer" /\ tpc = "idle"
    /\ timer' = FALSE
    /\ dpc' = "loop" /\ di' = 1
    /\ UNCHANGED <<ref, num, pending, started, eventVars, ctxVars,
                   opc, tpc, hpc>>

\* test_and_clear_bit of the next sync point.
syncobj_destroy ==
    /\ dpc = "loop" /\ di <= num
    /\ pending' = pending \ {di}
    /\ IF di \in pending THEN dpc' = "cancel" /\ di' = di
                         ELSE di' = di + 1 /\ UNCHANGED dpc
    /\ UNCHANGED <<ref, num, started, timer, eventVars, ctxVars, opc, tpc, hpc>>

\* Mutant: the event is not cancelled, only its callback made harmless.
DestroyNoCancel ==
    /\ dpc = "cancel"
    /\ \/ Type[di] = "timestamp" /\ UNCHANGED cpc
       \/ /\ Type[di] # "timestamp" /\ cpc[di] \notin InCallback
          /\ Callback(di, "lost")
    /\ dpc' = "put"
    /\ UNCHANGED <<objVars, handle, held, sig, ctxVars, opc, tpc, hpc, di>>

\* kgsl_cancel_event finds the event unless it is with the worker.
\* dma_fence_remove_callback waits for the lock of the fence.
DestroyCancel ==
    /\ dpc = "cancel"
    /\ \/ /\ Type[di] = "timestamp"
          /\ cpc' = IF At(di, "wait") THEN [cpc EXCEPT ![di] = "queued"] ELSE cpc
       \/ /\ Type[di] # "timestamp" /\ cpc[di] \notin InCallback
          /\ Callback(di, "lost")
    /\ dpc' = "put"
    /\ UNCHANGED <<objVars, handle, held, sig, ctxVars, opc, tpc, hpc, di>>

\* The callback of an event puts the object itself; a fence's does not.
DestroyPut ==
    /\ dpc = "put"
    /\ \/ /\ Type[di] = "timestamp"
          /\ held' = Put(di)
          /\ UNCHANGED <<ref, cpc>>
       \/ /\ Type[di] = "fence"
          /\ kgsl_drawobj_put(held)
          /\ Callback(di, "gone")
       \/ /\ Type[di] = "timeline"
          /\ kgsl_drawobj_put(Put(di))
          /\ Callback(di, "gone")
    /\ dpc' = "loop" /\ di' = di + 1
    /\ UNCHANGED <<num, pending, started, timer, handle, sig, ctxVars,
                   opc, tpc, hpc>>

\* After the loop the scheduler is called if a bit is set.
DestroySched ==
    /\ dpc = "loop" /\ di > num
    /\ kick' = (kick \/ pending # {})
    /\ dpc' = "last"
    /\ UNCHANGED <<objVars, eventVars, inq, bad, lock, opc, tpc, hpc, di>>

\* The reference of kref_init; the scheduler goes on to unlock.
kgsl_drawobj_destroy ==
    /\ dpc = "last"
    /\ kgsl_drawobj_put(held)
    /\ dpc' = "idle"
    /\ hpc' = IF hpc = "destroy" THEN "unlock" ELSE hpc
    /\ UNCHANGED <<num, pending, started, timer, handle, cpc, sig, ctxVars,
                   opc, tpc, di>>

-----------------------------------------------------------------------------
Submit ==
    \/ AddSync \/ AddFails
    \/ drawobj_add_sync_timestamp \/ AddEventFails
    \/ drawobj_add_sync_timeline
    \/ kgsl_sync_fence_async_wait \/ FenceHandle \/ drawobj_add_sync_fence
    \/ adreno_hwsched_queue_cmds \/ QueueContext \/ SubmitError

RunCallback(i) ==
    \/ _kgsl_event_worker(i) \/ drawobj_sync_expire(i)
    \/ ExpireCheck(i) \/ ExpireTimer(i) \/ adreno_hwsched_queue_context(i)
    \/ drawobj_sync_func(i) \/ SyncFuncLost(i) \/ drawobj_sync_fence_func(i)
    \/ drawobj_sync_timeline_fence_callback(i)
    \/ drawobj_sync_timeline_fence_work(i)

RunTimer == syncobj_timer \/ adreno_drawctxt_dump \/ DumpUnlock \/ TimerPut

Hwsched ==
    \/ hwsched_handle_jobs \/ hwsched_sendcmds \/ _retire_syncobj
    \/ RetireLater \/ StartTimer \/ HwschedUnlock

Destroy ==
    \/ DestroyTimer \/ syncobj_destroy \/ DestroyCancel \/ DestroyPut
    \/ DestroySched \/ kgsl_drawobj_destroy

Next ==
    \/ kgsl_drawobj_sync_create \/ Submit
    \/ \E i \in Syncs : Signal(i) \/ RunCallback(i)
    \/ TimerFires \/ RunTimer
    \/ Hwsched
    \/ ContextBad \/ drawctxt_detach_drawobjs
    \/ Destroy

Spec == Init /\ [][Next]_vars

-----------------------------------------------------------------------------
(***************************************************************************)
(* Safety.                                                                 *)
(***************************************************************************)

\* Types: kgsl_drawobj.c never takes a count below zero, never holds more
\* than one reference per sync point and keeps its bits below numsyncs.
TypeOK ==
    /\ ref \in Nat
    /\ num \in 0 .. N
    /\ pending \subseteq 1 .. num
    /\ started \in BOOLEAN /\ timer \in BOOLEAN
    /\ handle \in [Syncs -> BOOLEAN]
    /\ held \in [Syncs -> {0, 1}]
    /\ cpc \in [Syncs -> InCallback \cup
                  {"none", "set", "wait", "queued", "put", "work", "lost", "gone"}]
    /\ sig \in [Syncs -> BOOLEAN]
    /\ inq \in BOOLEAN /\ bad \in BOOLEAN /\ kick \in BOOLEAN
    /\ lock \in {"none", "hwsched", "timer"}
    /\ opc \in {"idle", "add", "register", "handle", "kick", "error"}
    /\ tpc \in {"idle", "get", "dump", "unlock", "put"}
    /\ hpc \in {"idle", "lock", "check", "arm", "destroy", "unlock"}
    /\ dpc \in {"idle", "timer", "loop", "cancel", "put", "last"}
    /\ di \in 1 .. N + 1

One(b) == IF b THEN 1 ELSE 0

\* The sync points whose reference on the object has not been put.
LivePoints == {i \in Syncs : cpc[i] \notin {"none", "gone"}}

\* The count of a sync object is exactly the number of its users, whichever
\* of callback, timer and destroyer comes first; so nobody touches it after
\* kgsl_drawobj_destroy_object.
ObjRefCount ==
    ref = One(Owned) + Cardinality(LivePoints)
          + One(tpc \in {"dump", "unlock", "put"})

\* The sync points that hold a reference on their context or fence.
Holds(i) ==
    IF Type[i] = "fence"
    THEN ref > 0 /\ (handle[i] \/ (opc = "handle" /\ num = i))
    ELSE \/ i \in pending
         \/ cpc[i] \in (InCallback \ {"clear"}) \cup {"work"}
         \/ dpc \in {"cancel", "put"} /\ di = i

\* Whoever clears the bit of a sync point puts the context or the fence
\* array, and nobody else does; the fences of the handles live as long as
\* the object.  A freed object leaves no reference behind.
SourceRefCount == \A i \in Syncs : held[i] = One(Holds(i))

\* A bit that is set has a callback to come that clears it: it is set before
\* the callback is registered.
PendingHasCallback ==
    \A i \in pending : cpc[i] \in {"set", "wait", "queued", "clear"}

\* The commands behind the object start only when everything it waits for
\* has happened (see Signal): _retire_syncobj finds no bit clear early.
NoEarlyRetire ==
    hpc = "destroy" => \A i \in 1 .. num : sig[i]

\* An object in the queue without pending bits is not forgotten: the
\* scheduler looks at it or somebody is about to tell it to.
NoLostKick ==
    (inq /\ pending = {}) =>
        \/ kick \/ bad \/ opc = "kick"
        \/ hpc \in {"lock", "check"}
        \/ \E i \in Syncs : cpc[i] \in {"check", "timer", "sched"}

\* After del_timer_sync the timer is neither armed nor running, so it never
\* sees the object after its memory is freed.
TimerStopped ==
    (timer \/ tpc # "idle") => inq \/ dpc = "timer"

\* The facts behind these invariants.  The object has one owner at a time.
OneOwner ==
    /\ inq => opc \notin SubmitPCs /\ dpc = "idle"
    /\ opc \in SubmitPCs => dpc = "idle"

\* Where the callbacks of the sync points can be.
PointStates ==
    \A i \in Syncs :
        /\ i > num => cpc[i] = "none" /\ ~handle[i]
        /\ At(i, "set") => opc = "register" /\ i = num
        /\ handle[i] => Type[i] = "fence"
        /\ cpc[i] \in {"queued", "put"} => Type[i] = "timestamp"
        /\ At(i, "work") => Type[i] = "timeline"

\* The sync point the ioctl is about to register or has just registered.
SubmitPoint ==
    /\ opc = "register" => num \in pending /\ At(num, "set") /\ ~handle[num]
    /\ opc = "handle" => /\ num \in Syncs /\ Type[num] = "fence"
                         /\ cpc[num] \notin {"none", "set"} /\ ~handle[num]

\* The sync point the destroyer cancels: its callback cannot win any more.
DestroyPoint ==
    dpc \in {"cancel", "put"} =>
        /\ di \in (1 .. num) \ pending
        /\ Type[di] = "timestamp" =>
               cpc[di] \in {"wait", "queued", "clear", "put", "gone"}
        /\ Type[di] # "timestamp" =>
               \/ At(di, "lost")
               \/ dpc = "cancel" /\ cpc[di] \in {"wait", "clear"}

\* Who holds drawctxt->lock, and that the queue stays as the scheduler saw it.
LockHolder ==
    /\ lock = "hwsched" <=> hpc \in {"check", "arm", "destroy", "unlock"}
    /\ lock = "timer" <=> tpc = "unlock"
    /\ hpc \in {"check", "arm"} => inq
    /\ hpc = "destroy" => dpc # "idle" /\ pending = {}

\* A bit that is clear, while nobody cancels, belongs to a sync point that
\* has signaled.
ClearMeansSignaled ==
    /\ \A i \in pending : cpc[i] \in {"queued", "clear"} => sig[i]
    /\ (opc \in {"add", "register", "handle"} \/ inq \/ hpc = "destroy") =>
           \A i \in (1 .. num) \ pending : sig[i]

-----------------------------------------------------------------------------
(***************************************************************************)
(* Liveness.  The ioctl, callbacks, kthreads and timer handlers run; the   *)
(* event worker and the scheduler get to everything that is queued, and    *)
(* spinlocks are fair.  Nothing has to signal, and nobody has to submit.   *)
(***************************************************************************)
FairSpec ==
    /\ Spec
    /\ SF_vars(Submit) /\ SF_vars(Hwsched)
    /\ WF_vars(RunTimer) /\ WF_vars(Destroy) /\ WF_vars(drawctxt_detach_drawobjs)
    /\ \A i \in Syncs : SF_vars(RunCallback(i))

\* An object in the queue whose sync points have all signaled leaves it.
SatisfiedRetires ==
    (inq /\ \A i \in 1 .. num : sig[i]) ~> ~inq

\* A destroy that has begun ends with the return of the memory, though
\* nothing the sync points wait for may ever happen.
DestroyedIsFreed == dpc # "idle" ~> ref = 0
=============================================================================
