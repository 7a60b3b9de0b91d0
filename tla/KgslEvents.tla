----------------------------- MODULE KgslEvents -----------------------------
(***************************************************************************)
(* The GPU events of one KGSL context and the life of that context:        *)
(* kgsl_events.c, the context reference counting of kgsl_device.h and      *)
(* kgsl.c, and the waiters, invalidation and detach of adreno_drawctxt.c   *)
(* with the gen7 hardware scheduler.                                       *)
(*                                                                         *)
(* Actors: user threads inside an ioctl, the hardware scheduler's kthread, *)
(* the events kthread and the GPU.  A section under group->lock is one     *)
(* step; everything between two such sections can be interleaved with the  *)
(* other actors.  When the kthread retires a marker or handles a fault, a  *)
(* thread of the model stands for it.  The order of the events list and of *)
(* the worker's queue is left out: no code depends on it, except that the  *)
(* worker gets to every event.  So are the references that commands hold   *)
(* on their context: they only make it live longer.                        *)
(***************************************************************************)
EXTENDS KgslTimestamp, FiniteSets

CONSTANTS
    Threads,      \* threads inside an ioctl, a marker or the fault handler
    Events,       \* memory for struct kgsl_event
    UserTS,       \* KGSL_CONTEXT_USER_GENERATED_TS is set on the context
    Start,        \* timestamp of the context when the model starts
    MaxSubmit,    \* bound on the commands submitted
    MaxAhead,     \* bound on how far beyond Start a thread asks for an event
    None

ASSUME EventsAssumption ==
    /\ UserTS \in BOOLEAN
    /\ Start \in Timestamp
    /\ MaxSubmit \in Nat /\ MaxAhead \in Nat
    /\ MaxSubmit < Window /\ MaxAhead < Window
    /\ None \notin Events
    /\ IsFiniteSet(Threads) /\ IsFiniteSet(Events)

VARIABLES
    \* memory store and GPU
    gpu,          \* the last timestamp of the context the GPU has executed
    halted,       \* the GPU no longer executes commands of the context
    retired,      \* eoptimestamp of the context in the memstore
    kick,         \* the hardware scheduler's work is queued
    \* struct kgsl_context / adreno_context
    queued,       \* drawctxt->timestamp
    submitted,    \* commands submitted so far (bound)
    ref,          \* context->refcount; 0 means destroyed
    master,       \* the reference of kref_init has not been put
    debugref,     \* the debugfs file holds a reference
    detached,     \* KGSL_CONTEXT_PRIV_DETACHED
    invalid,      \* KGSL_CONTEXT_PRIV_INVALID
    inidr,        \* device->context_idr has the context
    \* struct kgsl_event_group
    grouped,      \* the group is on device->event_groups
    processed,    \* group->processed
    \* struct kgsl_event
    est,          \* est[e]: "free", "init", "listed" or "queued" for the worker
    ets,          \* ets[e]: timestamp
    efunc,        \* efunc[e]: "wait" (wait_callback) or "other"
    eres,         \* eres[e]: result, "none" until it is set
    \* locals of the threads and of the scheduler's kthread
    pc, ts, ev, cut, woken, hpc

gpuVars    == <<gpu, halted, retired, kick>>
ctxVars    == <<queued, submitted, ref, master, debugref, detached, invalid, inidr>>
groupVars  == <<grouped, processed>>
eventVars  == <<est, ets, efunc, eres>>
threadVars == <<pc, ts, ev, cut, woken>>
vars == <<gpuVars, ctxVars, groupVars, eventVars, threadVars, hpc>>

PCs == {"idle", "m_lock", "w_check", "w_add", "w_lock", "w_sleep", "w_cancel",
        "a_add", "a_lock", "put",
        "d_set", "d_debug", "d_hw", "d_wake", "d_cancel", "d_del", "d_put",
        "i_cancel", "i_flush", "i_wake",
        "di_inv", "di_cancel", "di_flush", "di_wake"}

-----------------------------------------------------------------------------
(***************************************************************************)
(* Helpers.                                                                *)
(***************************************************************************)
Goto(p, l) == pc' = [pc EXCEPT ![p] = l]

\* kgsl_check_timestamp: the timestamp n has retired.
kgsl_check_timestamp(n) == timestamp_cmp(retired, n) >= 0

kgsl_context_is_bad == detached \/ invalid

Listed == {e \in Events : est[e] = "listed"}

\* signal_event for the events of the set S, with the results of res: they
\* leave the list and are queued to the events worker.
signal_event(S, res) ==
    /\ est' = [e \in Events |-> IF e \in S THEN "queued" ELSE est[e]]
    /\ eres' = [e \in Events |-> IF e \in S THEN res[e] ELSE eres[e]]

\* kgsl_context_put.  The last reference runs kgsl_context_destroy, which
\* clears the memstore and gives the id back.
kgsl_context_put ==
    /\ ref' = ref - 1
    /\ retired' = IF ref = 1 THEN 0 ELSE retired
    /\ inidr' = (inidr /\ ref # 1)

\* wake_up_all(&drawctxt->waiting): everybody asleep looks again.
WakeAll == woken' = [p \in Threads |-> woken[p] \/ pc[p] = "w_sleep"]

\* _process_event_group under group->lock.
_process_event_group(flush) ==
    LET done == {e \in Listed : timestamp_cmp(ets[e], retired) <= 0}
    IN IF ~flush /\ ~_do_process_group(processed, retired)
       THEN UNCHANGED <<est, eres, processed>>
       ELSE /\ signal_event(IF flush THEN Listed ELSE done,
                [e \in Events |->
                    IF e \in done THEN "retired" ELSE "cancelled"])
            /\ processed' = retired

\* kgsl_cancel_events and its variants under group->lock.
CancelEvents(S) == signal_event(S, [e \in Events |-> "cancelled"])

\* The timestamps after lo, up to hi.
After(lo, hi) ==
    {n \in Timestamp : timestamp_cmp(n, lo) > 0 /\ timestamp_cmp(n, hi) <= 0}

-----------------------------------------------------------------------------
(***************************************************************************)
(* A context that has run for some time and is idle: its last command,     *)
(* with timestamp Start, has retired and its events have been processed.   *)
(* kgsl_context_init has put it on the event group list with one           *)
(* reference, and debugfs may hold another.                                *)
(***************************************************************************)
Init ==
    /\ gpu = Start /\ halted = FALSE /\ retired = Start /\ kick = FALSE
    /\ queued = Start /\ submitted = 0
    /\ debugref \in BOOLEAN
    /\ ref = (IF debugref THEN 2 ELSE 1)
    /\ master = TRUE
    /\ detached = FALSE /\ invalid = FALSE /\ inidr = TRUE
    /\ grouped = TRUE /\ processed = Start
    /\ est = [e \in Events |-> "free"]
    /\ ets = [e \in Events |-> 0]
    /\ efunc = [e \in Events |-> "other"]
    /\ eres = [e \in Events |-> "none"]
    /\ pc = [p \in Threads |-> "idle"]
    /\ ts = [p \in Threads |-> 0]
    /\ ev = [p \in Threads |-> None]
    /\ cut = [p \in Threads |-> {}]
    /\ woken = [p \in Threads |-> FALSE]
    /\ hpc = "idle"

-----------------------------------------------------------------------------
(***************************************************************************)
(* The GPU and command submission.                                         *)
(***************************************************************************)
\* A command is queued, unless the context is bad; a context that makes its
\* own timestamps may skip some.
Submit ==
    /\ ref > 0 /\ ~kgsl_context_is_bad /\ submitted < MaxSubmit
    /\ \E n \in 1 .. MaxSubmit - submitted :
        /\ n = 1 \/ UserTS
        /\ queued' = AddTimestamp(queued, n)
        /\ submitted' = submitted + n
    /\ UNCHANGED <<gpuVars, ref, master, debugref, detached, invalid, inidr,
                   groupVars, eventVars, threadVars, hpc>>

\* The GPU finishes commands up to n, writes the memstore and interrupts.
GpuRetire ==
    /\ ref > 0 /\ ~halted
    /\ \E n \in After(gpu, queued) :
        /\ gpu' = n
        /\ retired' = n
    /\ kick' = TRUE
    /\ UNCHANGED <<halted, ctxVars, groupVars, eventVars, threadVars, hpc>>

-----------------------------------------------------------------------------
\* The kthread is inside adreno_hwsched_do_fault.
FaultRunning == \E p \in Threads : pc[p] \in {"i_cancel", "i_flush", "i_wake"}

(***************************************************************************)
(* The hardware scheduler's kthread.                                       *)
(***************************************************************************)
\* adreno_hwsched_work: kgsl_process_event_groups, under the read side of
\* event_groups_lock, takes a reference on the context of each group.
HwschedWork ==
    /\ hpc = "idle" /\ kick /\ ~FaultRunning
    /\ kick' = FALSE
    /\ IF grouped THEN hpc' = "g_lock" /\ ref' = ref + 1
                  ELSE UNCHANGED <<hpc, ref>>
    /\ UNCHANGED <<gpu, halted, retired,
                   queued, submitted, master, debugref, detached, invalid, inidr,
                   groupVars, eventVars, threadVars>>

HwschedProcess ==
    /\ hpc = "g_lock"
    /\ _process_event_group(FALSE)
    /\ hpc' = "g_put"
    /\ UNCHANGED <<gpuVars, ctxVars, grouped, ets, efunc, threadVars>>

HwschedPut ==
    /\ hpc = "g_put"
    /\ kgsl_context_put
    /\ hpc' = "idle"
    /\ UNCHANGED <<gpu, halted, kick,
                   queued, submitted, master, debugref, detached, invalid,
                   groupVars, eventVars, threadVars>>

\* _kgsl_event_worker: call the function, put the context, free the event.
_kgsl_event_worker(e) ==
    /\ est[e] = "queued"
    /\ IF efunc[e] = "wait" THEN WakeAll ELSE UNCHANGED woken
    /\ kgsl_context_put
    /\ est' = [est EXCEPT ![e] = "free"]
    /\ ets' = [ets EXCEPT ![e] = 0]
    /\ efunc' = [efunc EXCEPT ![e] = "other"]
    /\ eres' = [eres EXCEPT ![e] = "none"]
    /\ UNCHANGED <<gpu, halted, kick,
                   queued, submitted, master, debugref, detached, invalid,
                   groupVars, pc, ts, ev, cut, hpc>>

\* _retire_timestamp_only: the CPU writes the timestamp of a marker to the
\* memstore, and then processes the group of the context, which the caller
\* holds.  Done by the ioctl that queues the marker or by the kthread.
RetireMarker(p) ==
    /\ pc[p] = "idle"
    /\ ref > 0 /\ ~halted
    /\ \E n \in After(gpu, queued) : gpu' = n /\ retired' = n
    /\ ref' = ref + 1
    /\ Goto(p, "m_lock")
    /\ UNCHANGED <<halted, kick,
                   queued, submitted, master, debugref, detached, invalid, inidr,
                   groupVars, eventVars, ts, ev, cut, woken, hpc>>

MarkerProcess(p) ==
    /\ pc[p] = "m_lock"
    /\ _process_event_group(FALSE)
    /\ Goto(p, "put")
    /\ UNCHANGED <<gpuVars, ctxVars, grouped, ets, efunc, ts, ev, cut, woken, hpc>>

-----------------------------------------------------------------------------
(***************************************************************************)
(* Ioctls: kgsl_context_get finds a context that is not detached.          *)
(***************************************************************************)
kgsl_context_get(p) ==
    /\ pc[p] = "idle"
    /\ inidr /\ ~detached /\ ref > 0
    /\ ref' = ref + 1
    /\ \/ /\ \E n \in 0 .. MaxAhead :
                ts' = [ts EXCEPT ![p] = AddTimestamp(Start, n)]
          /\ Goto(p, "w_check") \/ Goto(p, "a_add")
       \/ /\ Goto(p, "d_set")
          /\ UNCHANGED ts
    /\ UNCHANGED <<gpuVars, queued, submitted, master, debugref, detached, invalid,
                   inidr, groupVars, eventVars, ev, cut, woken, hpc>>

\* The ioctl ends with kgsl_context_put.
ContextPut(p) ==
    /\ pc[p] = "put"
    /\ kgsl_context_put
    /\ ts' = [ts EXCEPT ![p] = 0]
    /\ Goto(p, "idle")
    /\ UNCHANGED <<gpu, halted, kick,
                   queued, submitted, master, debugref, detached, invalid,
                   groupVars, eventVars, ev, cut, woken, hpc>>

\* adreno_drawctxt_wait: -ENOENT or -EDEADLK if the context is bad.
WaitCheck(p) ==
    /\ pc[p] = "w_check"
    /\ Goto(p, IF kgsl_context_is_bad THEN "put" ELSE "w_add")
    /\ UNCHANGED <<gpuVars, ctxVars, groupVars, eventVars,
                   ts, ev, cut, woken, hpc>>

\* A timestamp that kgsl_add_event accepts: not beyond the queued one, unless
\* user space makes the timestamps.
Acceptable(n) == UserTS \/ timestamp_cmp(n, queued) <= 0

\* Mutant: the event does not take a context reference.
AddEventNoGet(p) ==
    /\ pc[p] \in {"w_add", "a_add"}
    /\ Acceptable(ts[p])
    /\ \E e \in Events :
        /\ est[e] = "free"
        /\ est' = [est EXCEPT ![e] = "init"]
        /\ ets' = [ets EXCEPT ![e] = ts[p]]
        /\ efunc' = [efunc EXCEPT ![e] = IF pc[p] = "w_add" THEN "wait" ELSE "other"]
        /\ ev' = [ev EXCEPT ![p] = e]
    /\ Goto(p, IF pc[p] = "w_add" THEN "w_lock" ELSE "a_lock")
    /\ UNCHANGED <<gpuVars, ctxVars, groupVars, eres, ts, cut, woken, hpc>>

\* kgsl_add_event: the event and a context reference for it.
kgsl_add_event(p) ==
    /\ pc[p] \in {"w_add", "a_add"}
    /\ Acceptable(ts[p]) /\ ref > 0
    /\ \E e \in Events :
        /\ est[e] = "free"
        /\ est' = [est EXCEPT ![e] = "init"]
        /\ ets' = [ets EXCEPT ![e] = ts[p]]
        /\ efunc' = [efunc EXCEPT ![e] = IF pc[p] = "w_add" THEN "wait" ELSE "other"]
        /\ ev' = [ev EXCEPT ![p] = e]
    /\ ref' = ref + 1
    /\ Goto(p, IF pc[p] = "w_add" THEN "w_lock" ELSE "a_lock")
    /\ UNCHANGED <<gpuVars, queued, submitted, master, debugref, detached, invalid,
                   inidr, groupVars, eres, ts, cut, woken, hpc>>

\* -EINVAL (future timestamp), -ENOMEM or -ENOENT.
AddEventFails(p) ==
    /\ pc[p] \in {"w_add", "a_add"}
    /\ Goto(p, "put")
    /\ UNCHANGED <<gpuVars, ctxVars, groupVars, eventVars,
                   ts, ev, cut, woken, hpc>>

\* Mutant: the timestamp is not checked again under group->lock.
AddEventUnchecked(p) ==
    /\ pc[p] \in {"w_lock", "a_lock"}
    /\ LET now == FALSE IN
        /\ est' = [est EXCEPT ![ev[p]] = IF now THEN "queued" ELSE "listed"]
        /\ eres' = [eres EXCEPT ![ev[p]] = IF now THEN "retired" ELSE "none"]
    /\ ev' = [ev EXCEPT ![p] = None]
    /\ woken' = [woken EXCEPT ![p] = (pc[p] = "w_lock")]
    /\ Goto(p, IF pc[p] = "w_lock" THEN "w_sleep" ELSE "put")
    /\ UNCHANGED <<gpuVars, ctxVars, groupVars, ets, efunc, ts, cut, hpc>>

\* Mutant: the check under group->lock forgets the rollover.
AddEventPlainCompare(p) ==
    /\ pc[p] \in {"w_lock", "a_lock"}
    /\ LET now == retired >= ets[ev[p]] IN
        /\ est' = [est EXCEPT ![ev[p]] = IF now THEN "queued" ELSE "listed"]
        /\ eres' = [eres EXCEPT ![ev[p]] = IF now THEN "retired" ELSE "none"]
    /\ ev' = [ev EXCEPT ![p] = None]
    /\ woken' = [woken EXCEPT ![p] = (pc[p] = "w_lock")]
    /\ Goto(p, IF pc[p] = "w_lock" THEN "w_sleep" ELSE "put")
    /\ UNCHANGED <<gpuVars, ctxVars, groupVars, ets, efunc, ts, cut, hpc>>

\* Mutant: the waiter sleeps without looking at its condition first.
SleepUnchecked(p) ==
    /\ pc[p] \in {"w_lock", "a_lock"}
    /\ LET now == kgsl_check_timestamp(ets[ev[p]]) IN
        /\ est' = [est EXCEPT ![ev[p]] = IF now THEN "queued" ELSE "listed"]
        /\ eres' = [eres EXCEPT ![ev[p]] = IF now THEN "retired" ELSE "none"]
    /\ ev' = [ev EXCEPT ![p] = None]
    /\ woken' = [woken EXCEPT ![p] = FALSE]
    /\ Goto(p, IF pc[p] = "w_lock" THEN "w_sleep" ELSE "put")
    /\ UNCHANGED <<gpuVars, ctxVars, groupVars, ets, efunc, ts, cut, hpc>>

\* kgsl_add_event under group->lock: a retired timestamp goes straight to the
\* worker, any other event is listed.  wait_event looks before it sleeps.
AddEventLocked(p) ==
    /\ pc[p] \in {"w_lock", "a_lock"}
    /\ LET now == kgsl_check_timestamp(ets[ev[p]]) IN
        /\ est' = [est EXCEPT ![ev[p]] = IF now THEN "queued" ELSE "listed"]
        /\ eres' = [eres EXCEPT ![ev[p]] = IF now THEN "retired" ELSE "none"]
    /\ ev' = [ev EXCEPT ![p] = None]
    /\ woken' = [woken EXCEPT ![p] = (pc[p] = "w_lock")]
    /\ Goto(p, IF pc[p] = "w_lock" THEN "w_sleep" ELSE "put")
    /\ UNCHANGED <<gpuVars, ctxVars, groupVars, ets, efunc, ts, cut, hpc>>

\* _check_context_timestamp, the condition of the wait.
_check_context_timestamp(p) == kgsl_context_is_bad \/ kgsl_check_timestamp(ts[p])

\* A woken thread looks at the condition, and leaves or sleeps again.
WaitWake(p) ==
    /\ pc[p] = "w_sleep" /\ woken[p]
    /\ woken' = [woken EXCEPT ![p] = FALSE]
    /\ Goto(p, IF _check_context_timestamp(p) THEN "put" ELSE "w_sleep")
    /\ UNCHANGED <<gpuVars, ctxVars, groupVars, eventVars, ts, ev, cut, hpc>>

\* The timeout expires or a signal arrives.
WaitTimeout(p) ==
    /\ pc[p] = "w_sleep" /\ ~_check_context_timestamp(p)
    /\ woken' = [woken EXCEPT ![p] = FALSE]
    /\ Goto(p, "w_cancel")
    /\ UNCHANGED <<gpuVars, ctxVars, groupVars, eventVars, ts, ev, cut, hpc>>

\* kgsl_cancel_event: the first event with this timestamp, wait_callback and
\* this context; two waiters on one timestamp cannot tell theirs apart.
kgsl_cancel_event(p) ==
    LET mine == {e \in Listed : efunc[e] = "wait" /\ ets[e] = ts[p]} IN
    /\ pc[p] = "w_cancel"
    /\ \/ \E e \in mine : CancelEvents({e})
       \/ mine = {} /\ UNCHANGED <<est, eres>>
    /\ Goto(p, "put")
    /\ UNCHANGED <<gpuVars, ctxVars, groupVars, ets, efunc,
                   ts, ev, cut, woken, hpc>>

-----------------------------------------------------------------------------
(***************************************************************************)
(* adreno_drawctxt_invalidate, run by the kthread's fault handler, which   *)
(* holds the context through the faulty command and has stopped the GPU,   *)
(* and by a detach whose unregister request the GMU did not answer, with   *)
(* the GPU possibly still running.                                         *)
(***************************************************************************)
\* INVALID is set, the memstore catches up with the last timestamp and the
\* commands still in the draw queue (after the one n) are removed.
Invalidate(p) ==
    /\ invalid' = TRUE
    /\ retired' = queued
    /\ \E n \in {retired} \cup After(retired, queued) :
        cut' = [cut EXCEPT ![p] = After(n, queued)]

FaultInvalidate(p) ==
    /\ pc[p] = "idle" /\ hpc = "idle" /\ ~FaultRunning
    /\ ref > 0 /\ gpu # queued
    /\ ref' = ref + 1
    /\ halted' = TRUE
    /\ Invalidate(p)
    /\ Goto(p, "i_cancel")
    /\ UNCHANGED <<gpu, kick, queued, submitted, master, debugref, detached, inidr,
                   groupVars, eventVars, ts, ev, woken, hpc>>

DetachInvalidate(p) ==
    /\ pc[p] = "di_inv"
    /\ Invalidate(p)
    /\ Goto(p, "di_cancel")
    /\ UNCHANGED <<gpu, halted, kick, queued, submitted, ref, master, debugref,
                   detached, inidr, groupVars, eventVars, ts, ev, woken, hpc>>

\* kgsl_cancel_events_timestamp for each command removed from the queue.
CancelQueued(p) ==
    /\ pc[p] \in {"i_cancel", "di_cancel"}
    /\ CancelEvents({e \in Listed : ets[e] \in cut[p]})
    /\ cut' = [cut EXCEPT ![p] = {}]
    /\ Goto(p, IF pc[p] = "i_cancel" THEN "i_flush" ELSE "di_flush")
    /\ UNCHANGED <<gpuVars, ctxVars, groupVars, ets, efunc, ts, ev, woken, hpc>>

\* kgsl_flush_event_group; the reference it takes and puts is not the last.
FlushEvents(p) ==
    /\ pc[p] \in {"i_flush", "di_flush"}
    /\ _process_event_group(TRUE)
    /\ Goto(p, IF pc[p] = "i_flush" THEN "i_wake" ELSE "di_wake")
    /\ UNCHANGED <<gpuVars, ctxVars, grouped, ets, efunc,
                   ts, ev, cut, woken, hpc>>

\* wake_up_all(&drawctxt->waiting).  The fault handler then resets the GPU
\* and queues the scheduler's work; so does the detach.
InvalidateWake(p) ==
    /\ pc[p] \in {"i_wake", "di_wake"}
    /\ WakeAll
    /\ kick' = TRUE
    /\ Goto(p, IF pc[p] = "i_wake" THEN "put" ELSE "d_wake")
    /\ UNCHANGED <<gpu, halted, retired, ctxVars, groupVars, eventVars,
                   ts, ev, cut, hpc>>

-----------------------------------------------------------------------------
(***************************************************************************)
(* kgsl_context_detach.                                                    *)
(***************************************************************************)
\* Mutant: two detaches of the same context do not exclude each other.
DetachNotExclusive(p) ==
    /\ pc[p] = "d_set"
    /\ detached' = TRUE
    /\ Goto(p, "d_debug")
    /\ UNCHANGED <<gpuVars, queued, submitted, ref, master, debugref, invalid, inidr,
                   groupVars, eventVars, ts, ev, cut, woken, hpc>>

\* test_and_set_bit(KGSL_CONTEXT_PRIV_DETACHED).
DetachSet(p) ==
    /\ pc[p] = "d_set"
    /\ detached' = TRUE
    /\ Goto(p, IF detached THEN "put" ELSE "d_debug")
    /\ UNCHANGED <<gpuVars, queued, submitted, ref, master, debugref, invalid, inidr,
                   groupVars, eventVars, ts, ev, cut, woken, hpc>>

\* adreno_drawctxt_detach removes the debugfs file, which had a reference.
DetachDebugfs(p) ==
    /\ pc[p] = "d_debug"
    /\ IF debugref THEN kgsl_context_put ELSE UNCHANGED <<ref, retired, inidr>>
    /\ debugref' = FALSE
    /\ Goto(p, "d_hw")
    /\ UNCHANGED <<gpu, halted, kick, queued, submitted, master, detached, invalid,
                   groupVars, eventVars, ts, ev, cut, woken, hpc>>

\* gen7_hwsched_context_detach: the GMU acknowledges that the context is gone
\* and the memstore catches up, or the request fails, or it is not answered.
gen7_hwsched_context_detach(p) ==
    /\ pc[p] = "d_hw"
    /\ \/ /\ halted' = TRUE
          /\ retired' = queued
          /\ Goto(p, "d_wake")
       \/ Goto(p, "d_wake") /\ UNCHANGED <<halted, retired>>
       \/ Goto(p, "di_inv") /\ UNCHANGED <<halted, retired>>
    /\ UNCHANGED <<gpu, kick, ctxVars, groupVars, eventVars,
                   ts, ev, cut, woken, hpc>>

\* The end of adreno_drawctxt_detach wakes the waiters.
DetachWake(p) ==
    /\ pc[p] = "d_wake"
    /\ WakeAll
    /\ Goto(p, "d_cancel")
    /\ UNCHANGED <<gpuVars, ctxVars, groupVars, eventVars, ts, ev, cut, hpc>>

\* Mutant: the master reference is put while the group is still listed.
CancelSkipsDel(p) ==
    /\ pc[p] = "d_cancel"
    /\ CancelEvents(Listed)
    /\ Goto(p, "d_put")
    /\ UNCHANGED <<gpuVars, ctxVars, groupVars, ets, efunc,
                   ts, ev, cut, woken, hpc>>

kgsl_cancel_events(p) ==
    /\ pc[p] = "d_cancel"
    /\ CancelEvents(Listed)
    /\ Goto(p, "d_del")
    /\ UNCHANGED <<gpuVars, ctxVars, groupVars, ets, efunc,
                   ts, ev, cut, woken, hpc>>

\* kgsl_del_event_group takes the write side of event_groups_lock.
kgsl_del_event_group(p) ==
    /\ pc[p] = "d_del"
    /\ hpc \notin {"g_lock", "g_put"}
    /\ grouped' = FALSE
    /\ Goto(p, "d_put")
    /\ UNCHANGED <<gpuVars, ctxVars, processed, eventVars,
                   ts, ev, cut, woken, hpc>>

\* The "master" reference is put.
DetachPut(p) ==
    /\ pc[p] = "d_put"
    /\ kgsl_context_put
    /\ master' = FALSE
    /\ Goto(p, "put")
    /\ UNCHANGED <<gpu, halted, kick, queued, submitted, debugref, detached, invalid,
                   groupVars, eventVars, ts, ev, cut, woken, hpc>>

-----------------------------------------------------------------------------
\* What a thread does inside an ioctl.
Step(p) ==
    \/ ContextPut(p) \/ MarkerProcess(p) \/ WaitCheck(p)
    \/ kgsl_add_event(p) \/ AddEventFails(p) \/ AddEventLocked(p)
    \/ WaitWake(p) \/ kgsl_cancel_event(p)
    \/ DetachInvalidate(p) \/ CancelQueued(p) \/ FlushEvents(p) \/ InvalidateWake(p)
    \/ DetachSet(p) \/ DetachDebugfs(p) \/ gen7_hwsched_context_detach(p)
    \/ DetachWake(p) \/ kgsl_cancel_events(p) \/ kgsl_del_event_group(p)
    \/ DetachPut(p)

Hwsched == HwschedWork \/ HwschedProcess \/ HwschedPut

Next ==
    \/ Submit \/ GpuRetire \/ Hwsched
    \/ \E e \in Events : _kgsl_event_worker(e)
    \/ \E p \in Threads :
        \/ Step(p) \/ kgsl_context_get(p) \/ WaitTimeout(p)
        \/ RetireMarker(p) \/ FaultInvalidate(p)

Spec == Init /\ [][Next]_vars

-----------------------------------------------------------------------------
(***************************************************************************)
(* Invariants.                                                             *)
(***************************************************************************)

\* Every variable has its type.
TypeOK ==
    /\ gpu \in Timestamp /\ retired \in Timestamp /\ queued \in Timestamp
    /\ processed \in Timestamp
    /\ halted \in BOOLEAN /\ kick \in BOOLEAN
    /\ submitted \in 0 .. MaxSubmit
    /\ ref \in Nat
    /\ master \in BOOLEAN /\ debugref \in BOOLEAN /\ detached \in BOOLEAN
    /\ invalid \in BOOLEAN /\ inidr \in BOOLEAN /\ grouped \in BOOLEAN
    /\ est \in [Events -> {"free", "init", "listed", "queued"}]
    /\ ets \in [Events -> Timestamp]
    /\ efunc \in [Events -> {"wait", "other"}]
    /\ eres \in [Events -> {"none", "retired", "cancelled"}]
    /\ pc \in [Threads -> PCs]
    /\ ts \in [Threads -> Timestamp]
    /\ ev \in [Threads -> Events \cup {None}]
    /\ cut \in [Threads -> SUBSET Timestamp]
    /\ woken \in [Threads -> BOOLEAN]
    /\ hpc \in {"idle", "g_lock", "g_put"}

One(b) == IF b THEN 1 ELSE 0

\* The threads inside an ioctl and the events in use.
Busy == {p \in Threads : pc[p] # "idle"}
LiveEvents == {e \in Events : est[e] # "free"}

\* The reference count of the context counts exactly its users: the master
\* reference, debugfs, the ioctls in progress, every event from its
\* allocation until the worker has freed it, and the scheduler's kthread.
ContextRefCount ==
    ref = One(master) + One(debugref) + One(hpc # "idle")
          + Cardinality(Busy) + Cardinality(LiveEvents)

\* The labels of the one thread that won DETACHED, until it puts the master
\* reference.
DetachPCs == {"d_debug", "d_hw", "d_wake", "d_cancel", "d_del", "d_put",
              "di_inv", "di_cancel", "di_flush", "di_wake"}

\* A context is taken apart once: of all threads that detach it, one gets past
\* test_and_set_bit (kgsl.c:779), the master reference is there until this
\* thread puts it, and by then the group is off the list.
DetachedOnce ==
    /\ \A p, q \in Threads : pc[p] \in DetachPCs /\ pc[q] \in DetachPCs => p = q
    /\ \A p \in Threads : pc[p] \in DetachPCs => detached /\ master
    /\ \A p \in Threads : pc[p] = "d_put" => ~grouped
    /\ ~master => detached

\* An event between its allocation and group->lock belongs to one thread,
\* which is about to list it or hand it to the worker.
EventsOwned ==
    /\ \A p \in Threads : pc[p] \in {"w_lock", "a_lock"} =>
        ev[p] \in Events /\ est[ev[p]] = "init"
    /\ \A p, q \in Threads :
        pc[p] \in {"w_lock", "a_lock"} /\ pc[q] \in {"w_lock", "a_lock"}
            /\ ev[p] = ev[q] => p = q

\* The parts of GroupKeepsContext that are preserved on their own.
GroupHasMaster == grouped => master
DestroyedIsGone == ref = 0 => ~inidr

\* A group on device->event_groups keeps its context: the WARN_ON at
\* kgsl_events.c:86 never fires from kgsl_process_event_groups, and the
\* BUG_ON at kgsl.c:813 never fires: a destroyed context is detached, its
\* group is off the list and its id can no longer be looked up.
GroupKeepsContext ==
    /\ grouped => master
    /\ ref = 0 => detached /\ ~grouped /\ ~inidr

\* Threads on their way to cancel or flush the events of the group.
Flushing == {p \in Threads : pc[p] \in
    {"i_cancel", "i_flush", "di_inv", "di_cancel", "di_flush", "di_wake",
     "d_debug", "d_hw", "d_wake", "d_cancel"}}

\* The one detach of the context has cancelled the events of the group.
EventsCancelled == ~master \/ \E p \in Threads : pc[p] \in {"d_del", "d_put"}

\* No event misses its timestamp: until the context is detached, an event
\* that is still listed although its timestamp has retired is about to be
\* processed, cancelled or flushed (the check under group->lock at
\* kgsl_events.c:291 against the scheduler's pass at kgsl_events.c:97).
NoMissedEvent ==
    EventsCancelled \/ \A e \in Listed :
        kgsl_check_timestamp(ets[e]) =>
            \/ kick \/ hpc = "g_lock" \/ Flushing # {}
            \/ \E p \in Threads : pc[p] = "m_lock"

\* Somebody is going to wake the waiters: a wait event at the worker, a
\* listed one that is about to be processed, an invalidate or detach that
\* has not reached its wake_up_all.
WakeOwed ==
    \/ \E e \in Events : est[e] = "queued" /\ efunc[e] = "wait"
    \/ \E e \in Listed : efunc[e] = "wait" /\ kgsl_check_timestamp(ets[e])
    \/ \E p \in Threads : pc[p] \in
        {"i_cancel", "i_flush", "i_wake", "di_inv", "di_cancel", "di_flush",
         "di_wake", "d_debug", "d_hw", "d_wake"}

\* No waiter sleeps for ever: a thread asleep in adreno_drawctxt_wait whose
\* condition holds is going to be woken, even if another waiter on the same
\* timestamp times out and cancels an event it cannot tell from its own.
NoLostWakeup ==
    \A p \in Threads :
        pc[p] = "w_sleep" /\ ~woken[p] /\ _check_context_timestamp(p) => WakeOwed

\* An event tells its function that the timestamp has retired only if it has;
\* a cancelled one is told apart, across the rollover of the timestamps.
RetiredIsTrue ==
    \A e \in Events : est[e] = "queued" /\ eres[e] = "retired" /\ ~kgsl_context_is_bad
        => kgsl_check_timestamp(ets[e])

-----------------------------------------------------------------------------
\* The kthreads and the threads inside an ioctl keep running; event_groups_lock
\* is a queued rwlock, so the writer gets in.  Nobody has to start an ioctl,
\* submit, time out or fault, and the GPU may hang.
FairSpec ==
    /\ Spec
    /\ WF_vars(Hwsched)
    /\ \A e \in Events : WF_vars(_kgsl_event_worker(e))
    /\ \A p \in Threads : SF_vars(Step(p))

\* An event whose timestamp retires while the context is attached fires.
RetiredEventFires ==
    \A e \in Events :
        (est[e] = "listed" /\ kgsl_check_timestamp(ets[e]) /\ ~detached)
        ~> (est[e] = "free")

\* A thread waiting for a timestamp that has retired, or on a context that is
\* invalidated or detached, returns.
WaiterReturns ==
    \A p \in Threads :
        (pc[p] = "w_sleep" /\ _check_context_timestamp(p)) ~> (pc[p] # "w_sleep")
=============================================================================
