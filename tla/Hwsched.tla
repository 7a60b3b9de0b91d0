------------------------------ MODULE Hwsched ------------------------------
(***************************************************************************)
(* The hardware scheduler (adreno_hwsched.c): how draw objects go from the *)
(* queue of their context to the GMU and retire.                           *)
(*                                                                         *)
(* Threads queue draw objects (adreno_hwsched_queue_cmds) and add the      *)
(* context to a lock free list of jobs.  Whoever holds hwsched->mutex, a   *)
(* submitting thread or the worker, is the dispatcher: it takes the jobs,  *)
(* retires what needs no GPU and sends the rest to the GMU.  The worker    *)
(* also reaps finished commands and recovers from faults.  Contexts are    *)
(* detached, the GPU is idled and commands finish at any time.             *)
(*                                                                         *)
(* A ring of DrawqueueSize slots is a sequence; when it would become full, *)
(* head and tail are equal and the ring looks empty, so the sequence is    *)
(* empty.  drawctxt->queued is a counter of its own, as in the code.       *)
(* Timestamps are the small numbers of one lap (KgslTimestamp has the      *)
(* rest), and the events of a sync object are one flag (KgslSyncObj).      *)
(***************************************************************************)
EXTENDS Naturals, Sequences, FiniteSets, SequencesExt

CONSTANTS
    Ctx,            \* the draw contexts
    Submitters,     \* threads that submit to the same context
    Detachable,     \* the contexts that user space detaches
    Level,          \* Level[c]: base.priority of context c
    DrawqueueSize,  \* ADRENO_CONTEXT_DRAWQUEUE_SIZE
    GmuSize,        \* commands the queue of a context in the GMU has room for
    Batches,        \* the sequences of draw object types a thread submits
    HwFence,        \* the values of the ADRENO_HWSCHED_HW_FENCE bit
    FaultKinds,     \* the kinds of faults that happen
    MaxTs,          \* MaxTs[c]: bound on the timestamps of context c
    MaxFaults,      \* bound on the faults
    MaxErrs,        \* bound on the submissions that fail
    MaxIdles,       \* bound on the calls of adreno_hwsched_idle
    worker,         \* the kthread worker
    None            \* no value

NLevels == Cardinality({Level[c] : c \in Ctx})
Levels == 0 .. NLevels - 1
Threads == Ctx \X (1 .. Submitters)
CtxOf(p) == p[1]

(***************************************************************************)
(* Draw objects.  mts is the timestamp a marker or an implicit sync object *)
(* waits for; state is "wait" until the sync point has signaled or the     *)
(* bind operation is done, "go" while a bind operation runs.               *)
(***************************************************************************)
Types == {"cmd", "big", "marker", "sync", "bind", "timeline"}

Obj(type, ts, mts) ==
    [type |-> type, ts |-> ts, mts |-> mts, skip |-> FALSE, state |-> "wait"]

Objects == [type : Types, ts : Nat, mts : Nat, skip : BOOLEAN,
            state : {"wait", "go", "ready", "expired"}]

\* What a thread submits: sync objects, then one object of another type or
\* none; an object that needs no GPU has its implicit sync object before it.
IsAux(b) == Last(b) \in {"bind", "timeline"}

ASSUME HwschedAssumption ==
    /\ IsFiniteSet(Ctx) /\ Detachable \subseteq Ctx
    /\ Submitters \in Nat \ {0}
    /\ Level \in [Ctx -> 0 .. NLevels - 1]
    /\ DrawqueueSize \in Nat /\ DrawqueueSize > 2
    /\ GmuSize \in Nat \ {0}
    /\ HwFence \subseteq BOOLEAN /\ HwFence # {}
    /\ FaultKinds \subseteq {"hard", "page", "gmu"}
    /\ MaxTs \in [Ctx -> Nat]
    /\ \A n \in {MaxFaults, MaxErrs, MaxIdles} : n \in Nat
    /\ \A b \in Batches :
        /\ b \in Seq(Types) /\ Len(b) \in 1 .. DrawqueueSize - 2
        /\ \A i \in 1 .. Len(b) - 1 : b[i] = "sync"
        /\ IsAux(b) => Len(b) > 1
    /\ None \notin Ctx \cup Threads \cup Objects \cup (Ctx \X Nat)
    /\ worker \notin Threads \cup {None}

VARIABLES
    queue,      \* drawqueue of each context, from head to tail
    queued,     \* drawctxt->queued
    timestamp,  \* drawctxt->timestamp, the last one issued
    queuedTs,   \* drawctxt->queued_timestamp
    bits,       \* INVALID and DETACHED of context->priv
    sop, eop,   \* the started and the retired timestamp in the memstore
    jobs,       \* hwsched->jobs of each level, oldest first
    requeue,    \* hwsched->requeue of each level, oldest first
    mutex,      \* holder of hwsched->mutex: a thread, the worker or None
    work,       \* hwsched->work is queued on the worker
    disp,       \* where the holder of the mutex is in hwsched_issuecmds
    cmdList,    \* hwsched->cmd_list
    inflight,   \* hwsched->inflight
    power,      \* ADRENO_HWSCHED_POWER: the scheduler holds an active count
    active,     \* ADRENO_HWSCHED_ACTIVE: idle_gate is not complete
    bigObj,     \* hwsched->big_cmdobj
    gmu,        \* timestamps of the commands the GMU holds, per context
    irq,        \* a message of the GMU waits for the host
    fault,      \* hwsched->fault, the set of the faults seen
    ctxtBad,    \* hwsched->ctxt_bad
    halt,       \* adreno_gpu_halt
    pc,         \* where a submitting thread is
    batch,      \* the draw objects it submits
    sig,        \* a sleeping thread has been woken and tests its condition
    dpc,        \* how far kgsl_context_detach of a context is
    ipc,        \* how far adreno_hwsched_idle is
    faults, errs, idles     \* counters for the bounds

ctxVars == <<queue, queued, timestamp, queuedTs, bits>>
listVars == <<jobs, requeue>>
schedVars == <<cmdList, inflight, power, active, bigObj>>
gpuVars == <<sop, eop, gmu, irq>>
faultVars == <<fault, ctxtBad>>
threadVars == <<pc, batch, sig>>
boundVars == <<faults, errs, idles>>
vars == <<ctxVars, listVars, mutex, work, disp, schedVars, gpuVars, faultVars,
          halt, threadVars, dpc, ipc, boundVars>>

-----------------------------------------------------------------------------
\* kgsl_check_timestamp, before a rollover.
kgsl_check_timestamp(c, ts) == eop[c] >= ts

kgsl_context_invalid(c) == "INVALID" \in bits[c]
kgsl_context_detached(c) == "DETACHED" \in bits[c]
kgsl_context_is_bad(c) == bits[c] # {}

\* The limit on a context queue: one slot less than the ring has.
_context_drawqueue_size == DrawqueueSize - 1

\* The room a waiting thread tests for; the dispatcher asks with n = 0.
_check_context_queue(c, n) ==
    ~kgsl_context_invalid(c) /\ queued[c] + n < _context_drawqueue_size

\* The members of S in increasing order, and the elements of s that are in S.
Ascending(S) ==
    CHOOSE f \in [1 .. Cardinality(S) -> S] : \A i, j \in DOMAIN f : i < j => f[i] < f[j]

Only(s, S) ==
    LET at == Ascending({i \in DOMAIN s : s[i] \in S})
    IN [k \in DOMAIN at |-> s[at[k]]]

\* Objects put at the tail or at the head of the ring of a context.
PutTail(q, os) ==
    IF Len(q) + Len(os) < DrawqueueSize
    THEN q \o os
    ELSE SubSeq(q \o os, DrawqueueSize + 1, Len(q) + Len(os))

PutHead(q, o) == IF Len(q) + 1 < DrawqueueSize THEN <<o>> \o q ELSE <<>>

\* The dispatcher holds drawctxt->lock while it walks over what retires.
LockFree(c) == ~(disp.held /\ disp.ctx = c)

\* device->mutex: adreno_hwsched_idle keeps it while it asks the GPU; every
\* other holder is one action.
DeviceMutexFree == ipc # "idle"

\* wake_up_all(&drawctxt->wq)
wake_up_all(c) ==
    sig' = [p \in Threads |-> sig[p] \/ (CtxOf(p) = c /\ pc[p] = "sleep")]

NoDisp == [pc |-> "off", lvl |-> 0, list |-> <<>>, seen |-> {}, ctx |-> None,
           obj |-> None, held |-> FALSE, count |-> 0, ret |-> "none"]

Init ==
    /\ queue = [c \in Ctx |-> <<>>] /\ queued = [c \in Ctx |-> 0]
    /\ timestamp = [c \in Ctx |-> 0] /\ queuedTs = [c \in Ctx |-> 0]
    /\ bits = [c \in Ctx |-> {}]
    /\ sop = [c \in Ctx |-> 0] /\ eop = [c \in Ctx |-> 0]
    /\ jobs = [l \in Levels |-> <<>>] /\ requeue = [l \in Levels |-> <<>>]
    /\ mutex = None /\ work = FALSE /\ disp = NoDisp
    /\ cmdList = <<>> /\ inflight = 0 /\ power = FALSE /\ active = FALSE
    /\ bigObj = None
    /\ gmu = [c \in Ctx |-> <<>>] /\ irq = FALSE
    /\ fault = {} /\ ctxtBad = None /\ halt = FALSE
    /\ pc = [p \in Threads |-> "idle"] /\ batch = [p \in Threads |-> <<>>]
    /\ sig = [p \in Threads |-> FALSE]
    /\ dpc = [c \in Ctx |-> "live"] /\ ipc = "off"
    /\ faults = 0 /\ errs = 0 /\ idles = 0

-----------------------------------------------------------------------------
(***************************************************************************)
(* Submitting threads.                                                     *)
(***************************************************************************)

Submits(p) ==
    LET c == CtxOf(p) IN
    /\ pc[p] = "idle" /\ dpc[c] # "done"
    /\ timestamp[c] + Cardinality({q \in Threads : CtxOf(q) = c /\ pc[q] # "idle"})
         < MaxTs[c]

\* _queue_drawobj for each object: get_timestamp, the skip bit of the markers
\* before a real command and the marker timestamp.
QueueObjs(c, os) ==
    LET ts == IF Last(os).type = "sync" THEN 0 ELSE timestamp[c] + 1
        old == IF Last(os).type \in {"cmd", "big"}
               THEN [i \in DOMAIN queue[c] |->
                       IF queue[c][i].type = "marker"
                       THEN [queue[c][i] EXCEPT !.skip = TRUE] ELSE queue[c][i]]
               ELSE queue[c]
        new == [i \in DOMAIN os |->
                  CASE os[i].type = "sync" -> os[i]
                    [] os[i].type = "marker" -> Obj("marker", ts, queuedTs[c])
                    [] OTHER -> [os[i] EXCEPT !.ts = ts]]
    IN
    /\ queue' = [queue EXCEPT ![c] = PutTail(old, new)]
    /\ queued' = [queued EXCEPT ![c] = @ + Len(new)]
    /\ IF ts = 0
       THEN UNCHANGED <<timestamp, queuedTs>>
       ELSE /\ timestamp' = [timestamp EXCEPT ![c] = ts]
            /\ queuedTs' = [queuedTs EXCEPT ![c] = ts]

Return(p) ==
    /\ pc' = [pc EXCEPT ![p] = "idle"]
    /\ batch' = [batch EXCEPT ![p] = <<>>]
    /\ sig' = [sig EXCEPT ![p] = FALSE]

\* _queue_markerobj: nothing is queued and nothing runs, retire it at once.
FastMarker(p) ==
    LET c == CtxOf(p) ts == timestamp[c] + 1 IN
    /\ timestamp' = [timestamp EXCEPT ![c] = ts]
    /\ sop' = [sop EXCEPT ![c] = ts] /\ eop' = [eop EXCEPT ![c] = ts]
    /\ Return(p)
    /\ UNCHANGED <<queue, queued, queuedTs, bits, gmu, irq>>

\* With the lock held and room in the queue; a thread that waited for room
\* does not look again.
QueueCmds(p, os) ==
    LET c == CtxOf(p) IN
    IF os[1].type = "marker" /\ queued[c] = 0
         /\ kgsl_check_timestamp(c, queuedTs[c])
    THEN FastMarker(p)
    ELSE /\ QueueObjs(c, os)
         /\ pc' = [pc EXCEPT ![p] = "queued"]
         /\ batch' = [batch EXCEPT ![p] = <<>>]
         /\ sig' = [sig EXCEPT ![p] = FALSE]
         /\ UNCHANGED <<bits, gpuVars>>

\* Up to the sleep of _wait_for_room_in_context_queue.  The condition is
\* tested once before the thread sleeps.
adreno_hwsched_queue_cmds(p, os) ==
    LET c == CtxOf(p) IN
    /\ LockFree(c)
    /\ IF kgsl_context_is_bad(c)
       THEN Return(p) /\ UNCHANGED <<ctxVars, gpuVars>>
       ELSE IF queued[c] + Len(os) > _context_drawqueue_size - 1
       THEN /\ pc' = [pc EXCEPT ![p] = "sleep"]
            /\ batch' = [batch EXCEPT ![p] = os]
            /\ sig' = [sig EXCEPT ![p] = TRUE]
            /\ UNCHANGED <<ctxVars, gpuVars>>
       ELSE QueueCmds(p, os)
    /\ UNCHANGED <<listVars, mutex, work, disp, schedVars, faultVars, halt,
                   dpc, ipc, boundVars>>

\* Commands, markers and sync objects.
kgsl_ioctl_gpu_command(p) ==
    /\ Submits(p)
    /\ \E b \in {b \in Batches : ~IsAux(b)} :
        adreno_hwsched_queue_cmds(p, [i \in DOMAIN b |-> Obj(b[i], 0, 0)])

\* A bind or a timeline object gets an implicit sync object for the timestamp
\* that was queued last when the ioctl looked, before it takes the lock.
kgsl_ioctl_gpu_aux_command(p) ==
    LET c == CtxOf(p) IN
    /\ Submits(p)
    /\ \E b \in {b \in Batches : IsAux(b)} :
        batch' = [batch EXCEPT ![p] =
            [i \in DOMAIN b |->
                Obj(b[i], 0, IF b[i] = "sync" THEN queuedTs[c] ELSE 0)]]
    /\ pc' = [pc EXCEPT ![p] = "queue"]
    /\ UNCHANGED <<ctxVars, listVars, mutex, work, disp, schedVars, gpuVars,
                   faultVars, halt, sig, dpc, ipc, boundVars>>

QueueAuxCmds(p) ==
    pc[p] = "queue" /\ adreno_hwsched_queue_cmds(p, batch[p])

\* The sleeping thread is woken and tests its condition, or the ten seconds
\* are over and it is tested a last time.
_wait_for_room_in_context_queue(p) ==
    LET c == CtxOf(p) IN
    /\ pc[p] = "sleep" /\ sig[p] /\ LockFree(c)
    /\ sig' = [sig EXCEPT ![p] = FALSE]
    /\ pc' = [pc EXCEPT ![p] =
                IF _check_context_queue(c, Len(batch[p])) THEN "woken" ELSE "sleep"]
    /\ UNCHANGED <<ctxVars, listVars, mutex, work, disp, schedVars, gpuVars,
                   faultVars, halt, batch, dpc, ipc, boundVars>>

WaitTimeout(p) ==
    LET c == CtxOf(p) IN
    /\ pc[p] = "sleep" /\ ~sig[p] /\ LockFree(c)
    /\ IF _check_context_queue(c, Len(batch[p]))
       THEN pc' = [pc EXCEPT ![p] = "woken"] /\ UNCHANGED <<batch, sig>>
       ELSE Return(p)
    /\ UNCHANGED <<ctxVars, listVars, mutex, work, disp, schedVars, gpuVars,
                   faultVars, halt, dpc, ipc, boundVars>>

\* The lock is taken again and the state of the context is looked at again.
WokenUp(p) ==
    LET c == CtxOf(p) IN
    /\ pc[p] = "woken" /\ LockFree(c)
    /\ IF kgsl_context_is_bad(c)
       THEN Return(p) /\ UNCHANGED <<ctxVars, gpuVars>>
       ELSE QueueCmds(p, batch[p])
    /\ UNCHANGED <<listVars, mutex, work, disp, schedVars, faultVars, halt,
                   dpc, ipc, boundVars>>

AddJob(c) ==
    jobs' = [jobs EXCEPT ![Level[c]] = Append(@, c)]

\* The job goes on the list of the scheduler ...
QueueJob(p) ==
    /\ pc[p] = "queued"
    /\ AddJob(CtxOf(p))
    /\ pc' = [pc EXCEPT ![p] = "issue"]
    /\ UNCHANGED <<ctxVars, requeue, mutex, work, disp, schedVars, gpuVars,
                   faultVars, halt, batch, sig, dpc, ipc, boundVars>>

\* Mutant: a thread that finds the dispatcher busy does not queue the work.
IssuecmdsNoTrigger(p) ==
    /\ pc[p] = "issue"
    /\ IF mutex # None \/ fault # {}
       THEN pc' = [pc EXCEPT ![p] = "idle"] /\ UNCHANGED <<mutex, disp>>
       ELSE /\ mutex' = p
            /\ disp' = [NoDisp EXCEPT !.pc = "level"]
            /\ pc' = [pc EXCEPT ![p] = "issuing"]
    /\ UNCHANGED <<ctxVars, listVars, work, schedVars, gpuVars, faultVars, halt,
                   batch, sig, dpc, ipc, boundVars>>

\* ... and the thread dispatches itself, unless somebody else does.
adreno_hwsched_issuecmds(p) ==
    /\ pc[p] = "issue"
    /\ IF mutex # None
       THEN /\ work' = TRUE
            /\ pc' = [pc EXCEPT ![p] = "idle"]
            /\ UNCHANGED <<mutex, disp>>
       ELSE IF fault # {}
       THEN pc' = [pc EXCEPT ![p] = "idle"] /\ UNCHANGED <<mutex, disp, work>>
       ELSE /\ mutex' = p
            /\ disp' = [NoDisp EXCEPT !.pc = "level"]
            /\ pc' = [pc EXCEPT ![p] = "issuing"]
            /\ UNCHANGED work
    /\ UNCHANGED <<ctxVars, listVars, schedVars, gpuVars, faultVars, halt,
                   batch, sig, dpc, ipc, boundVars>>

-----------------------------------------------------------------------------
(***************************************************************************)
(* The dispatcher: hwsched_issuecmds, by the holder of hwsched->mutex.     *)
(***************************************************************************)

\* The dispatcher with the jobs of list to do: it takes the first one whose
\* context is neither bad nor seen before and drops the jobs before it.
NextJob(list, seen) ==
    LET Keep(c) == ~kgsl_context_is_bad(c) /\ c \notin seen
        i == SelectInSeq(list, Keep)
    IN IF i = 0
       THEN [NoDisp EXCEPT !.pc = "level", !.lvl = disp.lvl + 1]
       ELSE [NoDisp EXCEPT !.pc = "next", !.lvl = disp.lvl, !.ctx = list[i],
                           !.list = SubSeq(list, i + 1, Len(list)),
                           !.seen = seen \cup {list[i]}]

\* The dispatcher takes both lists of a level.
hwsched_handle_jobs ==
    LET l == disp.lvl IN
    /\ disp.pc = "level" /\ l < NLevels
    /\ disp' = NextJob(requeue[l] \o jobs[l], {})
    /\ jobs' = [jobs EXCEPT ![l] = <<>>]
    /\ requeue' = [requeue EXCEPT ![l] = <<>>]
    /\ UNCHANGED <<ctxVars, mutex, work, schedVars, gpuVars, faultVars, halt,
                   threadVars, dpc, ipc, boundVars>>

hwsched_handle_jobs_list ==
    /\ disp.pc = "job"
    /\ disp' = NextJob(disp.list, disp.seen)
    /\ UNCHANGED <<ctxVars, listVars, mutex, work, schedVars, gpuVars,
                   faultVars, halt, threadVars, dpc, ipc, boundVars>>

\* _pop_drawobj
Pop(c) ==
    /\ queue' = [queue EXCEPT ![c] = Tail(@)]
    /\ queued' = [queued EXCEPT ![c] = @ - 1]

\* _retire_timestamp_only
RetireTimestamp(c, ts) ==
    /\ sop' = [sop EXCEPT ![c] = ts] /\ eop' = [eop EXCEPT ![c] = ts]

\* _marker_expired
_marker_expired(c, o) == kgsl_check_timestamp(c, o.mts)

Stop(r) == disp' = [disp EXCEPT !.pc = "end", !.held = FALSE, !.ret = r]

SendNext(o) ==
    disp' = [disp EXCEPT !.pc = "send", !.held = FALSE, !.obj = o]

\* _process_drawqueue_get_next_drawobj: one object of the walk over the queue.
\* What needs no GPU is retired here, with the lock held until the walk ends.
\* With hardware fences an expired marker still goes to hwsched_sendcmd.
_process_drawqueue_get_next_drawobj ==
    LET c == disp.ctx  o == Head(queue[c])
        walk == disp' = [disp EXCEPT !.held = TRUE]
    IN
    /\ disp.pc = "next"
    /\ \/ /\ queue[c] = <<>>
          /\ Stop("none")
          /\ UNCHANGED <<queue, queued, sop, eop>>
       \/ /\ queue[c] # <<>> /\ o.type \in {"cmd", "big"}
          /\ IF o.type = "big" /\ bigObj # None
             THEN Stop("ENOSPC") /\ UNCHANGED <<queue, queued>>
             ELSE Pop(c) /\ SendNext(o)
          /\ UNCHANGED <<sop, eop>>
       \/ /\ queue[c] # <<>> /\ o.type = "sync"
          /\ IF o.state = "ready" THEN Pop(c) /\ walk
             ELSE Stop("EAGAIN") /\ UNCHANGED <<queue, queued>>
          /\ UNCHANGED <<sop, eop>>
       \/ /\ queue[c] # <<>> /\ o.type = "marker"
          /\ IF _marker_expired(c, o)
             THEN /\ RetireTimestamp(c, o.ts) /\ Pop(c)
                  /\ \/ TRUE \in HwFence /\ SendNext([o EXCEPT !.state = "expired"])
                     \/ FALSE \in HwFence /\ walk
             ELSE /\ IF o.skip THEN Pop(c) /\ SendNext(o)
                     ELSE Stop("EAGAIN") /\ UNCHANGED <<queue, queued>>
                  /\ UNCHANGED <<sop, eop>>
       \/ /\ queue[c] # <<>> /\ o.type = "timeline"
          /\ Pop(c) /\ RetireTimestamp(c, o.ts) /\ walk
       \/ /\ queue[c] # <<>> /\ o.type = "bind"
          /\ IF o.state = "ready"
             THEN Pop(c) /\ RetireTimestamp(c, o.ts) /\ walk
             ELSE /\ queue' = [queue EXCEPT ![c][1].state = "go"]
                  /\ Stop("EAGAIN")
                  /\ UNCHANGED <<queued, sop, eop>>
    /\ UNCHANGED <<timestamp, queuedTs, bits, listVars, mutex, work, schedVars,
                   gmu, irq, faultVars, halt, threadVars, dpc, ipc, boundVars>>

\* Mutant: adreno_gpu_halt is not looked at.
SendRefusedNoHalt(c, o) ==
    IF fault # {} THEN "EBUSY"
    ELSE IF kgsl_context_detached(c) THEN "ENOENT"
    ELSE IF o.state # "expired" /\ Len(gmu[c]) = GmuSize THEN "ENOSPC"
    ELSE "none"

\* What hwsched_sendcmd returns when it sends nothing.
SendRefused(c, o) ==
    IF halt \/ fault # {} THEN "EBUSY"
    ELSE IF kgsl_context_detached(c) THEN "ENOENT"
    ELSE IF o.state # "expired" /\ Len(gmu[c]) = GmuSize THEN "ENOSPC"
    ELSE "none"

\* The command is the GMU's and on cmd_list; an expired marker is neither.
Submit(c, o) ==
    /\ inflight' = inflight + 1
    /\ power' = TRUE
    /\ active' = (active \/ inflight = 0)
    /\ bigObj' = IF o.type = "big" THEN <<c, o.ts>> ELSE bigObj
    /\ IF o.state = "expired"
       THEN UNCHANGED <<cmdList, gmu>>
       ELSE /\ cmdList' = Append(cmdList, [ctx |-> c, obj |-> o])
            /\ gmu' = [gmu EXCEPT ![c] = Append(@, o.ts)]

\* The first submission failed: the active count taken for it is put back.
SubmitFailed ==
    /\ power' = IF inflight = 0 THEN FALSE ELSE power
    /\ UNCHANGED <<cmdList, inflight, active, bigObj, gmu>>

\* The result of hwsched_sendcmd as hwsched_sendcmds sees it.
Sent(r) ==
    disp' = [disp EXCEPT
        !.pc = CASE r = "none" -> "next" [] r = "ENOENT" -> "end" [] OTHER -> "back",
        !.obj = IF r \in {"none", "ENOENT"} THEN None ELSE @,
        !.count = IF r = "none" THEN 1 ELSE @,
        !.ret = r]

\* hwsched_sendcmd, under the device mutex.  Waking the GPU up may fail, and
\* so may the registration of the context, when the GMU has a fault.
hwsched_sendcmd ==
    LET c == disp.ctx  o == disp.obj  r == SendRefused(c, o) IN
    /\ disp.pc = "send" /\ DeviceMutexFree
    /\ \/ /\ r = "none"
          /\ Submit(c, o) /\ Sent("none")
          /\ UNCHANGED <<errs, faults, fault, work>>
       \/ /\ r # "none"
          /\ IF r = "ENOSPC" THEN SubmitFailed ELSE UNCHANGED <<schedVars, gmu>>
          /\ Sent(r)
          /\ UNCHANGED <<errs, faults, fault, work>>
       \/ /\ r \in {"none", "ENOSPC"} /\ inflight = 0 /\ ~power /\ errs < MaxErrs
          /\ errs' = errs + 1
          /\ SubmitFailed /\ Sent("EINVAL")
          /\ UNCHANGED <<faults, fault, work>>
       \/ /\ r \in {"none", "ENOSPC"} /\ faults < MaxFaults
          /\ faults' = faults + 1
          /\ fault' = fault \cup {"hard"} /\ work' = TRUE
          /\ SubmitFailed /\ Sent("EINVAL")
          /\ UNCHANGED errs
    /\ UNCHANGED <<ctxVars, listVars, mutex, sop, eop, irq, ctxtBad, halt,
                   threadVars, dpc, ipc, idles>>

\* Mutants: the object goes back to the tail of the queue; it is not counted
\* again; the state of the context is not looked at.
RequeueAtTail ==
    LET c == disp.ctx IN
    /\ disp.pc = "back"
    /\ IF kgsl_context_is_bad(c)
       THEN UNCHANGED <<queue, queued>>
       ELSE /\ queue' = [queue EXCEPT ![c] = PutTail(@, <<disp.obj>>)]
            /\ queued' = [queued EXCEPT ![c] = @ + 1]
    /\ disp' = [disp EXCEPT !.pc = "end", !.obj = None]
    /\ UNCHANGED <<timestamp, queuedTs, bits, listVars, mutex, work, schedVars,
                   gpuVars, faultVars, halt, threadVars, dpc, ipc, boundVars>>

RequeueNotCounted ==
    LET c == disp.ctx IN
    /\ disp.pc = "back"
    /\ queue' = [queue EXCEPT ![c] = IF kgsl_context_is_bad(c) THEN @
                                      ELSE PutHead(@, disp.obj)]
    /\ disp' = [disp EXCEPT !.pc = "end", !.obj = None]
    /\ UNCHANGED <<queued, timestamp, queuedTs, bits, listVars, mutex, work,
                   schedVars, gpuVars, faultVars, halt, threadVars, dpc, ipc,
                   boundVars>>

RequeueUnchecked ==
    LET c == disp.ctx IN
    /\ disp.pc = "back"
    /\ queue' = [queue EXCEPT ![c] = PutHead(@, disp.obj)]
    /\ queued' = [queued EXCEPT ![c] = @ + 1]
    /\ disp' = [disp EXCEPT !.pc = "end", !.obj = None]
    /\ UNCHANGED <<timestamp, queuedTs, bits, listVars, mutex, work, schedVars,
                   gpuVars, faultVars, halt, threadVars, dpc, ipc, boundVars>>

\* The object that was not sent goes back to the head of the queue.
hwsched_dispatcher_requeue_drawobj ==
    LET c == disp.ctx IN
    /\ disp.pc = "back"
    /\ IF kgsl_context_is_bad(c)
       THEN /\ disp' = [disp EXCEPT !.pc = "end", !.obj = None, !.ret = "ENOENT"]
            /\ UNCHANGED <<queue, queued>>
       ELSE /\ queue' = [queue EXCEPT ![c] = PutHead(@, disp.obj)]
            /\ queued' = [queued EXCEPT ![c] = @ + 1]
            /\ disp' = [disp EXCEPT !.pc = "end", !.obj = None]
    /\ UNCHANGED <<timestamp, queuedTs, bits, listVars, mutex, work, schedVars,
                   gpuVars, faultVars, halt, threadVars, dpc, ipc, boundVars>>

\* Mutants: nobody is woken; the job is dropped when nothing was sent.
WakeNobody(c) == UNCHANGED sig
DropIfNothingSent == disp.count = 0

\* The end of hwsched_sendcmds wakes the threads that wait for room.
WakeSnoozing(c) ==
    IF _check_context_queue(c, 0) THEN wake_up_all(c) ELSE UNCHANGED sig

\* hwsched_handle_jobs_list drops the job of a context that had nothing queued
\* or is gone.
DropJob == disp.ret = "ENOENT" \/ (disp.ret = "none" /\ disp.count = 0)

SendcmdsDone ==
    LET c == disp.ctx  l == disp.lvl IN
    /\ disp.pc = "end"
    /\ WakeSnoozing(c)
    /\ \/ DropJob /\ UNCHANGED listVars
       \/ /\ ~DropJob /\ disp.ret = "ENOSPC"
          /\ requeue' = [requeue EXCEPT ![l] = Append(@, c)]
          /\ UNCHANGED jobs
       \/ /\ ~DropJob /\ disp.ret # "ENOSPC"
          /\ jobs' = [jobs EXCEPT ![l] = Append(@, c)]
          /\ UNCHANGED requeue
    /\ disp' = IF disp.list = <<>> THEN NextJob(<<>>, {})
               ELSE [disp EXCEPT !.pc = "job", !.ctx = None, !.count = 0,
                                 !.ret = "none"]
    /\ UNCHANGED <<ctxVars, mutex, work, schedVars, gpuVars, faultVars, halt,
                   pc, batch, dpc, ipc, boundVars>>

Issued == disp.pc = "level" /\ disp.lvl = NLevels

\* The thread gives the mutex back and its ioctl returns.
IssuedByThread(p) ==
    /\ Issued /\ mutex = p /\ (inflight = 0 \/ DeviceMutexFree)
    /\ mutex' = None /\ disp' = NoDisp
    /\ Return(p)
    /\ UNCHANGED <<ctxVars, listVars, work, schedVars, gpuVars, faultVars, halt,
                   dpc, ipc, boundVars>>

\* hwsched_power_down when nothing is in flight: the idle gate opens.
IssuedByWorker ==
    /\ Issued /\ mutex = worker /\ DeviceMutexFree
    /\ mutex' = None /\ disp' = NoDisp
    /\ IF inflight = 0 THEN active' = FALSE /\ power' = FALSE
       ELSE UNCHANGED <<active, power>>
    /\ UNCHANGED <<ctxVars, listVars, work, cmdList, inflight, bigObj, gpuVars,
                   faultVars, halt, threadVars, dpc, ipc, boundVars>>

-----------------------------------------------------------------------------
(***************************************************************************)
(* The worker.                                                             *)
(***************************************************************************)

\* Mutant: hwsched->inflight counts what is reaped once.
ReapCountsOnce(done) ==
    /\ cmdList' = Only(cmdList, ToSet(cmdList) \ done)
    /\ inflight' = IF cmdList' = cmdList THEN inflight ELSE inflight - 1
    /\ bigObj' = IF \E e \in done : bigObj = <<e.ctx, e.obj.ts>>
                 THEN None ELSE bigObj

\* adreno_hwsched_retire_cmdobj for the entries of cmd_list that are done.
Reap(done) ==
    /\ cmdList' = Only(cmdList, ToSet(cmdList) \ done)
    /\ inflight' = inflight - (Len(cmdList) - Len(cmdList'))
    /\ bigObj' = IF \E e \in done : bigObj = <<e.ctx, e.obj.ts>>
                 THEN None ELSE bigObj

\* The worker takes the mutex; a flush that waits for queued work waits for
\* this run of it.
WorkerLocks ==
    /\ work /\ mutex = None
    /\ ipc' = IF ipc = "queued" THEN "flush" ELSE ipc

\* adreno_hwsched_work without a fault: retire_cmd_list, then dispatch.
retire_cmd_list ==
    /\ WorkerLocks /\ fault = {}
    /\ work' = FALSE /\ mutex' = worker
    /\ Reap({e \in ToSet(cmdList) : kgsl_check_timestamp(e.ctx, e.obj.ts)})
    /\ disp' = [NoDisp EXCEPT !.pc = "level"]
    /\ UNCHANGED <<ctxVars, listVars, power, active, gpuVars, faultVars, halt,
                   threadVars, dpc, boundVars>>

\* get_fault_cmdobj: the entry the GMU named.
FaultCmdobj ==
    {i \in DOMAIN cmdList : ctxtBad = <<cmdList[i].ctx, cmdList[i].obj.ts>>}

\* get_active_cmdobj: of the entries whose context has started something that
\* is not retired, the first one of the highest priority.
Active(i) ==
    LET c == cmdList[i].ctx IN sop[c] # 0 /\ sop[c] # eop[c]

ActiveCmdobj ==
    {i \in DOMAIN cmdList :
        /\ Active(i)
        /\ \A j \in DOMAIN cmdList :
            Active(j) => LET li == Level[cmdList[i].ctx]
                             lj == Level[cmdList[j].ctx]
                         IN li < lj \/ (li = lj /\ i <= j)}

\* adreno_hwsched_reset_and_snapshot finds the command at fault ...
FaultedCmd ==
    IF FaultCmdobj # {} THEN FaultCmdobj
    ELSE IF "page" \in fault THEN ActiveCmdobj ELSE {}

\* adreno_drawctxt_invalidate of the contexts cs, whose memstore becomes m.
adreno_drawctxt_invalidate(cs, m) ==
    /\ bits' = [c \in Ctx |-> IF c \in cs THEN bits[c] \cup {"INVALID"}
                              ELSE bits[c]]
    /\ queue' = [c \in Ctx |-> IF c \in cs THEN <<>> ELSE queue[c]]
    /\ sop' = [c \in Ctx |-> IF c \in cs THEN timestamp[c] ELSE m.sop[c]]
    /\ eop' = [c \in Ctx |-> IF c \in cs THEN timestamp[c] ELSE m.eop[c]]
    /\ sig' = [p \in Threads |->
                 sig[p] \/ (CtxOf(p) \in cs /\ pc[p] = "sleep")]
    /\ UNCHANGED <<queued, timestamp, queuedTs>>

Memstore == [sop |-> sop, eop |-> eop]

\* ... retires it by force, invalidates its context or not, and resets the
\* GMU, which loses what it held.  A device that sleeps is left alone.
adreno_hwsched_reset_and_snapshot(awake) ==
    /\ \/ /\ awake /\ FaultedCmd # {}
          /\ \E i \in FaultedCmd, guilty \in BOOLEAN :
                LET c == cmdList[i].ctx  ts == cmdList[i].obj.ts IN
                adreno_drawctxt_invalidate(IF guilty THEN {c} ELSE {},
                    [sop |-> [sop EXCEPT ![c] = ts], eop |-> [eop EXCEPT ![c] = ts]])
       \/ /\ ~awake \/ FaultedCmd = {}
          /\ UNCHANGED <<ctxVars, sop, eop, sig>>
    /\ ctxtBad' = IF awake THEN None ELSE ctxtBad
    /\ irq' = (irq /\ ~awake)

\* Submits what is left of cmd_list again, unless the GMU fails once more.
adreno_hwsched_replay ==
    LET Replayed(c) == Only(cmdList', {e \in ToSet(cmdList') : e.ctx = c}) IN
    /\ Reap({e \in ToSet(cmdList) : eop'[e.ctx] >= e.obj.ts \/ bits'[e.ctx] # {}})
    /\ \/ /\ fault' = {}
          /\ gmu' = [c \in Ctx |->
                       [i \in DOMAIN Replayed(c) |-> Replayed(c)[i].obj.ts]]
          /\ UNCHANGED faults
       \/ /\ cmdList' # <<>> /\ faults < MaxFaults
          /\ faults' = faults + 1
          /\ fault' = {"hard"}
          /\ gmu' = [c \in Ctx |-> <<>>]

\* adreno_hwsched_work with a fault, under hwsched->mutex and device->mutex.
adreno_hwsched_do_fault ==
    /\ WorkerLocks /\ fault # {} /\ DeviceMutexFree
    /\ \E awake \in BOOLEAN :
        /\ (power \/ \E c \in Ctx : gmu[c] # <<>>) => awake
        /\ adreno_hwsched_reset_and_snapshot(awake)
    /\ adreno_hwsched_replay
    /\ work' = TRUE
    /\ UNCHANGED <<listVars, mutex, disp, power, active, halt, pc, batch, dpc,
                   errs, idles>>

-----------------------------------------------------------------------------
(***************************************************************************)
(* The GPU and the GMU firmware, which are not part of the driver.         *)
(***************************************************************************)

\* The GPU starts the oldest command of a context; a fault stops it.
GpuStart(c) ==
    /\ gmu[c] # <<>> /\ fault = {} /\ sop[c] # Head(gmu[c])
    /\ sop' = [sop EXCEPT ![c] = Head(gmu[c])]
    /\ UNCHANGED <<ctxVars, listVars, mutex, work, disp, schedVars, eop, gmu, irq,
                   faultVars, halt, threadVars, dpc, ipc, boundVars>>

\* It finishes the command: the GMU tells the host.
GpuRetire(c) ==
    /\ gmu[c] # <<>> /\ fault = {} /\ sop[c] = Head(gmu[c])
    /\ eop' = [eop EXCEPT ![c] = Head(gmu[c])]
    /\ gmu' = [gmu EXCEPT ![c] = Tail(@)]
    /\ irq' = TRUE
    /\ UNCHANGED <<ctxVars, listVars, mutex, work, disp, schedVars, sop,
                   faultVars, halt, threadVars, dpc, ipc, boundVars>>

\* gen7_hwsched_process_msgq of F2H_MSG_TS_RETIRE
TsRetire ==
    /\ irq /\ irq' = FALSE /\ work' = TRUE
    /\ UNCHANGED <<ctxVars, listVars, mutex, disp, schedVars, sop, eop, gmu,
                   faultVars, halt, threadVars, dpc, ipc, boundVars>>

\* adreno_hwsched_fault for a command that runs: the GMU names it, or the
\* IOMMU reports a page fault, or the GMU itself fails.
adreno_hwsched_fault(c) ==
    /\ faults < MaxFaults /\ fault = {}
    /\ gmu[c] # <<>> /\ sop[c] = Head(gmu[c])
    /\ \E k \in FaultKinds :
        /\ fault' = {k}
        /\ ctxtBad' = IF k = "hard" THEN <<c, Head(gmu[c])>> ELSE ctxtBad
    /\ faults' = faults + 1
    /\ work' = TRUE
    /\ UNCHANGED <<ctxVars, listVars, mutex, disp, schedVars, gpuVars, halt,
                   threadVars, dpc, ipc, errs, idles>>

\* A sync point signals or a bind operation is done, and the callback puts the
\* context on the list again (adreno_hwsched_queue_context).
adreno_hwsched_queue_context(c) ==
    /\ \E i \in DOMAIN queue[c] :
        LET o == queue[c][i] IN
        /\ \/ o.type = "sync" /\ o.state = "wait" /\ eop[c] >= o.mts
           \/ o.type = "bind" /\ o.state = "go"
        /\ queue' = [queue EXCEPT ![c][i].state = "ready"]
    /\ IF kgsl_context_detached(c) THEN UNCHANGED jobs ELSE AddJob(c)
    /\ work' = TRUE
    /\ UNCHANGED <<queued, timestamp, queuedTs, bits, requeue, mutex, disp,
                   schedVars, gpuVars, faultVars, halt, threadVars, dpc, ipc,
                   boundVars>>

-----------------------------------------------------------------------------
(***************************************************************************)
(* kgsl_context_detach and adreno_drawctxt_detach.                         *)
(***************************************************************************)
kgsl_context_detach(c) ==
    /\ dpc[c] = "live" /\ c \in Detachable
    /\ bits' = [bits EXCEPT ![c] = @ \cup {"DETACHED"}]
    /\ dpc' = [dpc EXCEPT ![c] = "marked"]
    /\ UNCHANGED <<queue, queued, timestamp, queuedTs, listVars, mutex, work,
                   disp, schedVars, gpuVars, faultVars, halt, threadVars, ipc,
                   boundVars>>

\* drawctxt_detach_drawobjs leaves drawctxt->queued as it is.
drawctxt_detach_drawobjs(c) ==
    /\ dpc[c] = "marked" /\ LockFree(c)
    /\ queue' = [queue EXCEPT ![c] = <<>>]
    /\ dpc' = [dpc EXCEPT ![c] = "drained"]
    /\ UNCHANGED <<queued, timestamp, queuedTs, bits, listVars, mutex, work,
                   disp, schedVars, gpuVars, faultVars, halt, threadVars, ipc,
                   boundVars>>

\* gen7_hwsched_context_detach: the GMU acknowledges once the commands of the
\* context are done, or a reset lets the waiter go.
gen7_hwsched_context_detach(c) ==
    /\ dpc[c] = "drained" /\ gmu[c] = <<>> /\ DeviceMutexFree
    /\ RetireTimestamp(c, timestamp[c])
    /\ wake_up_all(c)
    /\ dpc' = [dpc EXCEPT ![c] = "done"]
    /\ UNCHANGED <<ctxVars, listVars, mutex, work, disp, schedVars, gmu, irq,
                   faultVars, halt, pc, batch, ipc, boundVars>>

\* No acknowledge in 30 seconds: the context is guilty and the GPU is reset.
UnregisterTimeout(c) ==
    /\ dpc[c] = "drained" /\ gmu[c] # <<>> /\ LockFree(c) /\ DeviceMutexFree
    /\ faults < MaxFaults
    /\ faults' = faults + 1
    /\ adreno_drawctxt_invalidate({c}, Memstore)
    /\ fault' = fault \cup {"hard"}
    /\ work' = TRUE
    /\ dpc' = [dpc EXCEPT ![c] = "done"]
    /\ UNCHANGED <<listVars, mutex, disp, schedVars, gmu, irq, ctxtBad, halt,
                   pc, batch, ipc, errs, idles>>

-----------------------------------------------------------------------------
(***************************************************************************)
(* adreno_hwsched_idle: stop new submissions, let the worker finish, wait  *)
(* for the idle gate, and let submissions go on.                           *)
(***************************************************************************)
IdleHalt ==
    /\ ipc = "off" /\ idles < MaxIdles
    /\ idles' = idles + 1
    /\ halt' = TRUE
    /\ ipc' = IF work THEN "queued" ELSE "flush"
    /\ UNCHANGED <<ctxVars, listVars, mutex, work, disp, schedVars, gpuVars,
                   faultVars, threadVars, dpc, faults, errs>>

\* adreno_hwsched_flush: the worker is done with what was queued before.
IdleFlush ==
    /\ ipc = "flush" /\ mutex # worker
    /\ ipc' = "gate"
    /\ UNCHANGED <<ctxVars, listVars, mutex, work, disp, schedVars, gpuVars,
                   faultVars, halt, threadVars, dpc, boundVars>>

\* The wait for idle_gate is over ...
IdleGate ==
    /\ ipc = "gate" /\ ~active
    /\ ipc' = "gated"
    /\ UNCHANGED <<ctxVars, listVars, mutex, work, disp, schedVars, gpuVars,
                   faultVars, halt, threadVars, dpc, boundVars>>

\* ... or timed out.  With device->mutex held, submissions may go on.
IdleUnhalt ==
    /\ ipc \in {"gate", "gated"}
    /\ halt' = FALSE /\ work' = TRUE
    /\ ipc' = IF ipc = "gated" THEN "idle" ELSE "off"
    /\ UNCHANGED <<ctxVars, listVars, mutex, disp, schedVars, gpuVars,
                   faultVars, threadVars, dpc, boundVars>>

\* The caller has used the idle GPU and gives device->mutex back.
IdleDone ==
    /\ ipc = "idle"
    /\ ipc' = "off"
    /\ UNCHANGED <<ctxVars, listVars, mutex, work, disp, schedVars, gpuVars,
                   faultVars, halt, threadVars, dpc, boundVars>>

-----------------------------------------------------------------------------
Submitter(p) ==
    \/ QueueAuxCmds(p)
    \/ _wait_for_room_in_context_queue(p)
    \/ WokenUp(p)
    \/ QueueJob(p)
    \/ adreno_hwsched_issuecmds(p)

Dispatch ==
    \/ hwsched_handle_jobs
    \/ hwsched_handle_jobs_list
    \/ _process_drawqueue_get_next_drawobj
    \/ hwsched_sendcmd
    \/ hwsched_dispatcher_requeue_drawobj
    \/ SendcmdsDone
    \/ \E p \in Threads : IssuedByThread(p)
    \/ IssuedByWorker

Worker == retire_cmd_list \/ adreno_hwsched_do_fault

Detach(c) ==
    \/ drawctxt_detach_drawobjs(c)
    \/ gen7_hwsched_context_detach(c)

Next ==
    \/ \E p \in Threads :
        \/ kgsl_ioctl_gpu_command(p) \/ kgsl_ioctl_gpu_aux_command(p)
        \/ Submitter(p) \/ WaitTimeout(p)
    \/ Dispatch
    \/ Worker
    \/ \E c \in Ctx : GpuStart(c) \/ GpuRetire(c) \/ adreno_hwsched_fault(c)
    \/ TsRetire
    \/ \E c \in Ctx : adreno_hwsched_queue_context(c)
    \/ \E c \in Ctx : kgsl_context_detach(c) \/ Detach(c) \/ UnregisterTimeout(c)
    \/ IdleHalt \/ IdleFlush \/ IdleGate \/ IdleUnhalt \/ IdleDone

Spec == Init /\ [][Next]_vars

\* Threads, the worker, the GPU and the interrupt are scheduled, sync points
\* signal and bind operations end.  Nothing makes a thread submit, a context
\* be detached, a fault happen, or a wait time out.
Fairness ==
    /\ \A p \in Threads : WF_vars(Submitter(p))
    /\ WF_vars(Dispatch)
    /\ WF_vars(Worker)
    /\ \A c \in Ctx : WF_vars(GpuStart(c) \/ GpuRetire(c))
    /\ WF_vars(TsRetire)
    /\ \A c \in Ctx : WF_vars(adreno_hwsched_queue_context(c))
    /\ \A c \in Ctx : WF_vars(Detach(c))
    /\ WF_vars(IdleFlush \/ IdleGate \/ (ipc = "gated" /\ IdleUnhalt) \/ IdleDone)

FairSpec == Spec /\ Fairness

-----------------------------------------------------------------------------
(***************************************************************************)
(* Properties.                                                             *)
(***************************************************************************)
Good(c) == ~kgsl_context_is_bad(c)

\* Every variable has its type.
TypeOK ==
    /\ queue \in [Ctx -> Seq(Objects)] /\ gmu \in [Ctx -> Seq(Nat)]
    /\ queued \in [Ctx -> Nat]
    /\ timestamp \in [Ctx -> Nat] /\ queuedTs \in [Ctx -> Nat]
    /\ bits \in [Ctx -> SUBSET {"INVALID", "DETACHED"}]
    /\ sop \in [Ctx -> Nat] /\ eop \in [Ctx -> Nat]
    /\ jobs \in [Levels -> Seq(Ctx)] /\ requeue \in [Levels -> Seq(Ctx)]
    /\ mutex \in Threads \cup {worker, None}
    /\ disp \in [pc : {"off", "level", "job", "next", "send", "back", "end"},
                 lvl : Nat, list : Seq(Ctx), seen : SUBSET Ctx, ctx : Ctx \cup {None},
                 obj : Objects \cup {None}, held : BOOLEAN, count : {0, 1},
                 ret : {"none", "ENOSPC", "EAGAIN", "EBUSY", "ENOENT", "EINVAL"}]
    /\ cmdList \in Seq([ctx : Ctx, obj : Objects]) /\ inflight \in Nat
    /\ bigObj \in (Ctx \X Nat) \cup {None}
    /\ work \in BOOLEAN /\ power \in BOOLEAN /\ active \in BOOLEAN
    /\ irq \in BOOLEAN /\ halt \in BOOLEAN
    /\ fault \subseteq {"hard", "page", "gmu"}
    /\ ctxtBad \in (Ctx \X Nat) \cup {None}
    /\ pc \in [Threads -> {"idle", "queue", "sleep", "woken", "queued", "issue", "issuing"}]
    /\ batch \in [Threads -> Seq(Objects)] /\ sig \in [Threads -> BOOLEAN]
    /\ dpc \in [Ctx -> {"live", "marked", "drained", "done"}]
    /\ ipc \in {"off", "queued", "flush", "gate", "gated", "idle"}
    /\ faults \in Nat /\ errs \in Nat /\ idles \in Nat

\* drawctxt->queued never exceeds _context_drawqueue_size, so that there is a
\* slot for the object the dispatcher puts back, and it counts the queue of a
\* context that is not bad, whatever is popped, put back and queued meanwhile.
QueueNeverOverflows ==
    \A c \in Ctx :
        /\ queued[c] <= _context_drawqueue_size
        /\ Good(c) => queued[c] = Len(queue[c])

\* The timestamps of what has not retired, in the order they will: what the
\* GMU holds, the object the dispatcher has popped, and the queue.  Sync objects
\* and markers that have been retired count as 0.
Pending(c) ==
    LET popped == IF disp.ctx = c /\ disp.obj # None THEN <<disp.obj>> ELSE <<>>
        objs == popped \o queue[c]
    IN gmu[c] \o [i \in DOMAIN objs |->
                    IF objs[i].state = "expired" THEN 0 ELSE objs[i].ts]

\* Time is linear: however objects are popped, put back, retired on the CPU or
\* replayed, they go to the GMU in the order of their timestamps, and a
\* timestamp is retired only after all the ones before it.
InOrder ==
    \A c \in Ctx : Good(c) =>
        \A i \in DOMAIN Pending(c) : Pending(c)[i] # 0 =>
            /\ Pending(c)[i] > eop[c]
            /\ \A j \in 1 .. i - 1 : Pending(c)[j] < Pending(c)[i]

\* hwsched->inflight counts cmd_list, whose entries that have not retired are
\* exactly what the GMU holds, through every failed, reaped or replayed
\* submission (before a fault is handled the GMU may hold nothing), and
\* hwsched->big_cmdobj is the one big command of the list.
ListedIsInflight ==
    LET bigs == {i \in DOMAIN cmdList : cmdList[i].obj.type = "big"} IN
    /\ inflight = Len(cmdList)
    /\ fault = {} =>
        \A c \in Ctx : ~kgsl_context_invalid(c) =>
            gmu[c] = LET es == Only(cmdList, {e \in ToSet(cmdList) :
                                   e.ctx = c /\ ~kgsl_check_timestamp(c, e.obj.ts)})
                     IN [i \in DOMAIN es |-> es[i].obj.ts]
    /\ Cardinality(bigs) <= 1
    /\ \A i \in bigs : bigObj = <<cmdList[i].ctx, cmdList[i].obj.ts>>
    /\ bigs = {} => bigObj = None

\* A queue that detach or a fault has emptied stays empty: no thread and no
\* dispatcher on its way puts an object on it.  After the detach the GMU runs
\* nothing of the context, or the reset that stops it is on its way.
DetachedIsQuiet ==
    \A c \in Ctx :
        /\ dpc[c] \in {"drained", "done"} \/ kgsl_context_invalid(c)
            => queue[c] = <<>>
        /\ dpc[c] = "done" /\ gmu[c] # <<>> => fault # {} /\ work

\* A context with something in its queue is on a list of jobs, in the hands of
\* the dispatcher, or a thread is about to list it: dropped and duplicate jobs
\* lose no context.
JobListed ==
    \A c \in Ctx : Good(c) /\ queue[c] # <<>> =>
        \/ c \in Range(jobs[Level[c]]) \cup Range(requeue[Level[c]])
        \/ c \in Range(disp.list)
        \/ disp.ctx = c
        \/ \E p \in Threads : CtxOf(p) = c /\ pc[p] = "queued"

\* While the GMU holds a command the scheduler holds an active count and the
\* idle gate is shut.  Once the gate let adreno_hwsched_idle pass, and until it
\* returns, nothing is in flight and the GMU holds nothing, although the
\* submissions may go on again.
IdleIsIdle ==
    /\ \A c \in Ctx : gmu[c] # <<>> => power /\ active
    /\ ipc = "idle" => inflight = 0 /\ \A c \in Ctx : gmu[c] = <<>>

\* Every timestamp that is queued retires, unless its context goes bad or the
\* GPU could not be woken up: the dispatcher is always run again.
EveryTimestampRetires ==
    \A c \in Ctx : \A t \in 1 .. MaxTs[c] :
        timestamp[c] >= t ~> eop[c] >= t \/ ~Good(c) \/ errs > 0

\* A thread that waits for room gets on with it without the timeout, unless
\* its context goes bad or the GPU could not be woken up.
RoomIsFound ==
    \A p \in Threads :
        pc[p] = "sleep" ~> pc[p] # "sleep" \/ ~Good(CtxOf(p)) \/ errs > 0

\* The comments at the two checks for room: drawqueue->queued never exceeds
\* _context_drawqueue_size.
RoomIsKept == \A c \in Ctx : queued[c] <= _context_drawqueue_size
=============================================================================
