------------------------------ MODULE KgslSync ------------------------------
(***************************************************************************)
(* The sync file fences of KGSL (kgsl_sync.c).                             *)
(*                                                                         *)
(* A timeline fence stands for a timestamp of a GPU context.  It is listed *)
(* on the sync timeline of the context and signaled by an event of the     *)
(* context (KgslEvents), by a thread that finds the timestamp retired, or  *)
(* by a poll.  A source fence belongs to a syncsource of a process and is  *)
(* signaled by user space.  Both are handed out as sync files: the         *)
(* descriptor may be closed, waited for and dumped while the context is    *)
(* detached or the syncsource is destroyed.                                *)
(*                                                                         *)
(* One context, one syncsource; a fence of the pool is used once, so that  *)
(* Fences bounds the fences that are created.  A fence may ask for any     *)
(* timestamp up to MaxTs, queued or not.  A descriptor is closed after the *)
(* ioctl that made it.  The references that the commands of the context    *)
(* hold to it are not counted: KgslEvents has them.                        *)
(***************************************************************************)
EXTENDS Naturals, FiniteSets

CONSTANTS
    Threads,    \* threads in an ioctl of this file
    Fences,     \* the fences that can be created
    MaxTs,      \* bound: the timestamps that are queued or asked for
    UserTS,     \* KGSL_CONTEXT_USER_GENERATED_TS is set
    Overlap,    \* FALSE: the bounds below on what overlaps
    None        \* no fence

ASSUME KgslSyncAssumption ==
    /\ MaxTs \in Nat \ {0}
    /\ UserTS \in BOOLEAN
    /\ Overlap \in BOOLEAN
    /\ None \notin Fences
    /\ IsFiniteSet(Threads) /\ IsFiniteSet(Fences)

VARIABLES
    kind,       \* "unborn", "timeline" or "source"; "dying" while a source
                \* fence is released, "gone" when freed
    ts,         \* kfence->timestamp
    ref,        \* references to each fence
    signaled,   \* DMA_FENCE_FLAG_SIGNALED_BIT
    file,       \* the sync file of a fence: "none", "kernel", "fd", "closed"
    waiter,     \* a callback of kgsl_sync_fence_async_wait is registered
    event,      \* the event of a fence: "none", "listed", "retired",
                \* "cancelled" (both queued on the worker) or "called"
    children,   \* ktimeline->child_list_head
    last,       \* ktimeline->last_timestamp
    tref,       \* ktimeline->kref
    tcontext,   \* ktimeline->context is not NULL
    cref,       \* context->refcount
    bits,       \* INVALID and DETACHED of context->priv
    queued,     \* drawctxt->timestamp: the last timestamp queued
    gpu,        \* the last timestamp whose commands the GPU has finished
    retired,    \* the retired timestamp in the memstore
    lost,       \* the GMU was not told of the detach: the GPU may go on
    dropped,    \* history: the timestamps of cancelled events
    dpc,        \* how far kgsl_context_detach is
    schildren,  \* syncsource->child_list_head
    sref,       \* syncsource->refcount
    spc,        \* "none", "live", then how far kgsl_syncsource_cleanup is
    releasing,  \* source fences without references, to be released
    pc,         \* where a thread is
    fen,        \* the fence it works on
    cur,        \* the retired timestamp it has read and is about to signal
    ctx         \* value_str: it holds the context

fenceVars == <<kind, ts, ref, signaled, file, waiter, event>>
timelineVars == <<children, last, tref, tcontext>>
contextVars == <<cref, bits, queued, gpu, retired, lost, dropped, dpc>>
sourceVars == <<schildren, sref, spc, releasing>>
threadVars == <<pc, fen, cur, ctx>>
vars == <<fenceVars, timelineVars, contextVars, sourceVars, threadVars>>

Kinds == {"unborn", "timeline", "source", "dying", "gone"}
Live == {f \in Fences : kind[f] \in {"timeline", "source", "dying"}}

PCs == {"idle",
        "create", "fd", "signal", "event", "copy", "put", "fail", "cancel", "fput",
        "str", "strput", "unref",
        "salloc", "sfd", "slist", "sfail", "ssig", "sunref", "sput"}

\* Every variable has its type.
TypeOK ==
    /\ kind \in [Fences -> Kinds]
    /\ ts \in [Fences -> 0 .. MaxTs]
    /\ ref \in [Fences -> Nat]
    /\ signaled \in [Fences -> BOOLEAN]
    /\ file \in [Fences -> {"none", "kernel", "fd", "closed"}]
    /\ waiter \in [Fences -> BOOLEAN]
    /\ event \in [Fences -> {"none", "listed", "retired", "cancelled", "called"}]
    /\ children \subseteq Fences /\ schildren \subseteq Fences
    /\ releasing \subseteq Fences
    /\ last \in 0 .. MaxTs /\ queued \in 0 .. MaxTs /\ gpu \in 0 .. MaxTs
    /\ retired \in 0 .. MaxTs /\ dropped \subseteq 0 .. MaxTs
    /\ tref \in Nat /\ cref \in Nat /\ sref \in Nat
    /\ tcontext \in BOOLEAN /\ lost \in BOOLEAN
    /\ bits \subseteq {"INVALID", "DETACHED"}
    /\ dpc \in {"none", "marked", "detached", "cancelled", "timeline", "put"}
    /\ spc \in {"none", "live", "removed", "swept", "destroyed"}
    /\ pc \in [Threads -> PCs]
    /\ fen \in [Threads -> Fences \cup {None}]
    /\ cur \in [Threads -> 0 .. MaxTs]
    /\ ctx \in [Threads -> BOOLEAN]

\* kgsl_sync_timeline_create: the context has its master reference and the
\* one of the timeline, the timeline the one of the context.
Init ==
    /\ kind = [f \in Fences |-> "unborn"]
    /\ ts = [f \in Fences |-> 0]
    /\ ref = [f \in Fences |-> 0]
    /\ signaled = [f \in Fences |-> FALSE]
    /\ file = [f \in Fences |-> "none"]
    /\ waiter = [f \in Fences |-> FALSE]
    /\ event = [f \in Fences |-> "none"]
    /\ children = {} /\ last = 0 /\ tref = 1 /\ tcontext = TRUE
    /\ cref = 2 /\ bits = {} /\ dpc = "none"
    /\ queued = 0 /\ gpu = 0 /\ retired = 0
    /\ lost = FALSE /\ dropped = {}
    /\ schildren = {} /\ sref = 0 /\ spc = "none" /\ releasing = {}
    /\ pc = [p \in Threads |-> "idle"]
    /\ fen = [p \in Threads |-> None]
    /\ cur = [p \in Threads |-> 0]
    /\ ctx = [p \in Threads |-> FALSE]

-----------------------------------------------------------------------------
(***************************************************************************)
(* Reference counts.                                                       *)
(***************************************************************************)

\* kgsl_context_put, n times: kgsl_context_destroy puts the timeline.
kgsl_context_put(n) ==
    /\ cref' = cref - n
    /\ tref' = IF cref = n THEN tref - 1 ELSE tref

\* dma_fence_put of the fences F.  The last put of a timeline fence puts the
\* timeline and frees it (kgsl_sync_fence_release); the one of a source
\* fence starts kgsl_syncsource_fence_release.
dma_fence_put(F) ==
    LET dead == {f \in F : ref[f] = 1}
        tl == {f \in dead : kind[f] = "timeline"}
    IN /\ ref' = [f \in Fences |-> IF f \in F THEN ref[f] - 1 ELSE ref[f]]
       /\ kind' = [f \in Fences |-> IF f \in tl THEN "gone" ELSE kind[f]]
       /\ releasing' = releasing \cup (dead \ tl)
       /\ tref' = tref - Cardinality(tl)

\* A thread goes to another place, or returns.
Goto(p, l) == pc' = [pc EXCEPT ![p] = l]
Return(p) == Goto(p, "idle") /\ fen' = [fen EXCEPT ![p] = None]

\* The last timestamp that was signaled covers a timeline fence.
kgsl_sync_fence_has_signaled(f) == kind[f] = "timeline" /\ last >= ts[f]

-----------------------------------------------------------------------------
(***************************************************************************)
(* kgsl_sync_timeline_signal: one step under ktimeline->lock.  Fences that *)
(* a poll has signaled leave the list here too.                            *)
(***************************************************************************)

\* Mutant: every fence up to the one after the timestamp.
SignalOneMore(t) ==
    LET now == IF t > last THEN t ELSE last
        done == {f \in children : signaled[f] \/ now + 1 >= ts[f]}
    IN /\ last' = now
       /\ signaled' = [f \in Fences |-> signaled[f] \/ f \in done]
       /\ children' = children \ done
       /\ dma_fence_put(done)

kgsl_sync_timeline_signal(t) ==
    LET now == IF t > last THEN t ELSE last
        done == {f \in children : signaled[f] \/ now >= ts[f]}
    IN /\ last' = now
       /\ signaled' = [f \in Fences |-> signaled[f] \/ f \in done]
       /\ children' = children \ done
       /\ dma_fence_put(done)

-----------------------------------------------------------------------------
(***************************************************************************)
(* kgsl_add_fence_event.                                                   *)
(***************************************************************************)

\* Bounds: without Overlap, a fence is asked for while there is one to create
\* and no dump goes on, a dump begins when no call is under way, and a GPU that
\* was not told of the detach goes on until the events are cancelled.
AtDump == {"str", "strput", "unref"}
MayAsk == Overlap \/ /\ \E f \in Fences : kind[f] = "unborn"
                     /\ \A p \in Threads : pc[p] \notin AtDump
MayDump == Overlap \/ \A p \in Threads : pc[p] = "idle"
MayGoOn == Overlap \/ dpc \in {"none", "marked", "detached"}

\* kgsl_context_get_owner, and the check of INVALID.
kgsl_context_get_owner(p) ==
    /\ pc[p] = "idle" /\ MayAsk
    /\ "DETACHED" \notin bits /\ cref > 0
    /\ cref' = cref + 1
    /\ Goto(p, IF "INVALID" \in bits THEN "put" ELSE "create")
    /\ UNCHANGED <<fenceVars, timelineVars, bits, queued, gpu, retired, lost,
                   dropped, dpc, sourceVars, fen, cur, ctx>>

\* The fence, with a reference for the list and one for the sync file.
kgsl_sync_fence_create(p) ==
    /\ pc[p] = "create"
    /\ \/ \E f \in Fences, t \in 1 .. MaxTs :
            /\ kind[f] = "unborn"
            /\ kind' = [kind EXCEPT ![f] = "timeline"]
            /\ ts' = [ts EXCEPT ![f] = t]
            /\ ref' = [ref EXCEPT ![f] = 2]
            /\ file' = [file EXCEPT ![f] = "kernel"]
            /\ children' = children \cup {f}
            /\ tref' = tref + 1
            /\ fen' = [fen EXCEPT ![p] = f]
            /\ Goto(p, "fd")
       \/ \* No memory.
            /\ Goto(p, "put")
            /\ UNCHANGED <<kind, ts, ref, file, children, tref, fen>>
    /\ UNCHANGED <<signaled, waiter, event, last, tcontext, contextVars,
                   sourceVars, cur, ctx>>

\* get_unused_fd_flags, then the first look at the retired timestamp.
kgsl_readtimestamp(p) ==
    /\ pc[p] = "fd"
    /\ \/ /\ retired >= ts[fen[p]]
          /\ cur' = [cur EXCEPT ![p] = retired] /\ Goto(p, "signal")
       \/ retired < ts[fen[p]] /\ Goto(p, "event") /\ UNCHANGED cur
       \/ Goto(p, "fail") /\ UNCHANGED cur
    /\ UNCHANGED <<fenceVars, timelineVars, contextVars, sourceVars, fen, ctx>>

SignalRetired(p) ==
    /\ pc[p] = "signal"
    /\ kgsl_sync_timeline_signal(cur[p])
    /\ cur' = [cur EXCEPT ![p] = 0]
    /\ Goto(p, "copy")
    /\ UNCHANGED <<ts, file, waiter, event, tcontext, contextVars, schildren,
                   sref, spc, fen, ctx>>

\* _add_fence_event and kgsl_add_event take a reference to the context each.
\* Only a context with timestamps of its own may be ahead of what is queued.
_add_fence_event(p) ==
    /\ pc[p] = "event"
    /\ LET f == fen[p]
       IN \/ /\ UserTS \/ ts[f] <= queued
             /\ event' = [event EXCEPT ![f] =
                            IF retired >= ts[f] THEN "retired" ELSE "listed"]
             /\ cref' = cref + 2
             /\ Goto(p, "copy")
          \/ Goto(p, "fail") /\ UNCHANGED <<event, cref>>
    /\ UNCHANGED <<kind, ts, ref, signaled, file, waiter, timelineVars, bits,
                   queued, gpu, retired, lost, dropped, dpc, sourceVars,
                   fen, cur, ctx>>

\* copy_to_user and fd_install.
fd_install(p) ==
    /\ pc[p] = "copy"
    /\ \/ file' = [file EXCEPT ![fen[p]] = "fd"] /\ Goto(p, "put")
       \/ Goto(p, "fail") /\ UNCHANGED file
    /\ UNCHANGED <<kind, ts, ref, signaled, waiter, event, timelineVars,
                   contextVars, sourceVars, fen, cur, ctx>>

\* out: the context, on the way out or on the way to undo the fence.
PutContext(p) ==
    /\ pc[p] \in {"put", "fail"}
    /\ kgsl_context_put(1)
    /\ IF pc[p] = "put" THEN Return(p) ELSE Goto(p, "cancel") /\ UNCHANGED fen
    /\ UNCHANGED <<fenceVars, children, last, tcontext, bits, queued, gpu, retired,
                   lost, dropped, dpc, sourceVars, cur, ctx>>

\* Mutant: the fence is put though the list has let it go already.
CancelUnchecked(p) ==
    LET f == fen[p]
    IN /\ pc[p] = "cancel"
       /\ children' = children \ {f}
       /\ dma_fence_put({f})
       /\ Goto(p, "fput")
       /\ UNCHANGED <<ts, signaled, file, waiter, event, last, tcontext,
                      contextVars, schildren, sref, spc, fen, cur, ctx>>

kgsl_sync_cancel(p) ==
    LET f == fen[p]
    IN /\ pc[p] = "cancel"
       /\ children' = children \ {f}
       /\ dma_fence_put(children \cap {f})
       /\ Goto(p, "fput")
       /\ UNCHANGED <<ts, signaled, file, waiter, event, last, tcontext,
                      contextVars, schildren, sref, spc, fen, cur, ctx>>

\* The sync file that never got a descriptor.
fput(p) ==
    /\ pc[p] = "fput"
    /\ file' = [file EXCEPT ![fen[p]] = "closed"]
    /\ dma_fence_put({fen[p]})
    /\ Return(p)
    /\ UNCHANGED <<ts, signaled, waiter, event, children, last, tcontext,
                   contextVars, schildren, sref, spc, cur, ctx>>

-----------------------------------------------------------------------------
(***************************************************************************)
(* The event of a fence (KgslEvents) and the context.                      *)
(***************************************************************************)

\* kgsl_process_event_groups: the events whose timestamp has retired.
kgsl_process_event_groups ==
    LET due == {f \in Fences : event[f] = "listed" /\ retired >= ts[f]}
    IN /\ due # {} /\ dpc \notin {"timeline", "put"}
       /\ event' = [f \in Fences |-> IF f \in due THEN "retired" ELSE event[f]]
       /\ UNCHANGED <<kind, ts, ref, signaled, file, waiter, timelineVars,
                      contextVars, sourceVars, threadVars>>

\* Mutant: a cancelled event signals nothing.
CallbackIfRetired(f) ==
    /\ event[f] \in {"retired", "cancelled"}
    /\ \A g \in Fences : event[g] # "called"
    /\ event' = [event EXCEPT ![f] = "called"]
    /\ IF event[f] = "retired"
       THEN kgsl_sync_timeline_signal(ts[f])
       ELSE UNCHANGED <<last, signaled, children, ref, kind, releasing, tref>>
    /\ UNCHANGED <<ts, file, waiter, tcontext, contextVars, schildren, sref,
                   spc, threadVars>>

\* The callback signals whatever the result of the event is; the worker is one
\* thread.
kgsl_sync_fence_event_cb(f) ==
    /\ event[f] \in {"retired", "cancelled"}
    /\ \A g \in Fences : event[g] # "called"
    /\ event' = [event EXCEPT ![f] = "called"]
    /\ kgsl_sync_timeline_signal(ts[f])
    /\ UNCHANGED <<ts, file, waiter, tcontext, contextVars, schildren, sref,
                   spc, threadVars>>

\* The two references of the event, by the callback and by the worker.
_kgsl_event_worker(f) ==
    /\ event[f] = "called"
    /\ event' = [event EXCEPT ![f] = "none"]
    /\ kgsl_context_put(2)
    /\ UNCHANGED <<kind, ts, ref, signaled, file, waiter, children, last,
                   tcontext, bits, queued, gpu, retired, lost, dropped,
                   dpc, sourceVars, threadVars>>

\* The context takes no more commands.
Ended == "INVALID" \in bits \/ dpc \notin {"none", "marked"}

\* The next timestamp is queued; user space that leaves some out takes several
\* of these steps at once.  The bits are tested under drawctxt->lock, which
\* kgsl_context_detach does not hold when it sets DETACHED.
Submit ==
    /\ cref > 0 /\ ~Ended /\ queued < MaxTs
    /\ queued' = queued + 1
    /\ UNCHANGED <<fenceVars, timelineVars, cref, bits, gpu, retired, lost,
                   dropped, dpc, sourceVars, threadVars>>

\* The context has commands that the GPU may still finish.
OnGpu == cref > 0 /\ gpu < queued /\ (~Ended \/ lost) /\ MayGoOn

\* The GPU finishes the next command of the context, or a fault skips it, and
\* its timestamp is written, over a later one when the detach could not stop it.
GpuRetire ==
    /\ OnGpu
    /\ gpu' = gpu + 1 /\ retired' = gpu + 1
    /\ UNCHANGED <<fenceVars, timelineVars, cref, bits, queued, lost,
                   dropped, dpc, sourceVars, threadVars>>

\* signal_event for the listed events: the ones of the fences F are cancelled,
\* the others have retired.
SignalEvents(F) ==
    /\ event' = [f \in Fences |-> IF f \in F THEN "cancelled"
                                  ELSE IF event[f] = "listed" THEN "retired"
                                  ELSE event[f]]
    /\ dropped' = dropped \cup {ts[f] : f \in F}

\* The context is made invalid and what is queued retires; the flush cancels
\* the events that are ahead of that.  An event that is added between the two
\* might as well be added before, so they are one step.
adreno_drawctxt_invalidate ==
    /\ bits' = bits \cup {"INVALID"}
    /\ retired' = queued
    /\ SignalEvents({f \in Fences : event[f] = "listed" /\ queued < ts[f]})

\* The fault handler, which has stopped the GPU at an unfinished command.
FaultInvalidate ==
    /\ OnGpu
    /\ adreno_drawctxt_invalidate
    /\ UNCHANGED <<kind, ts, ref, signaled, file, waiter, timelineVars, cref,
                   queued, gpu, lost, dpc, sourceVars, threadVars>>

\* kgsl_context_detach: the bit, the draw context, the events, the timeline
\* and the references of the timeline and of the creator.
kgsl_context_detach ==
    /\ dpc = "none"
    /\ dpc' = "marked" /\ bits' = bits \cup {"DETACHED"}
    /\ UNCHANGED <<fenceVars, timelineVars, cref, queued, gpu, retired, lost,
                   dropped, sourceVars, threadVars>>

\* The GMU unregisters the context and what is queued retires; or the request
\* fails and nothing is written; or it is not answered in time, and the
\* context is made invalid.
gen7_hwsched_context_detach ==
    /\ dpc = "marked" /\ dpc' = "detached"
    /\ \/ retired' = queued /\ UNCHANGED <<bits, lost, event, dropped>>
       \/ /\ lost' = ("INVALID" \notin bits)
          /\ \/ UNCHANGED <<bits, retired, event, dropped>>
             \/ adreno_drawctxt_invalidate
    /\ UNCHANGED <<kind, ts, ref, signaled, file, waiter, timelineVars, cref,
                   queued, gpu, sourceVars, threadVars>>

kgsl_cancel_events ==
    /\ dpc = "detached" /\ dpc' = "cancelled"
    /\ SignalEvents({f \in Fences : event[f] = "listed"})
    /\ UNCHANGED <<kind, ts, ref, signaled, file, waiter, timelineVars, cref,
                   bits, queued, gpu, retired, lost, sourceVars, threadVars>>

\* kgsl_del_event_group, then the timeline forgets the context.
kgsl_sync_timeline_detach ==
    /\ dpc = "cancelled"
    /\ dpc' = "timeline" /\ tcontext' = FALSE
    /\ UNCHANGED <<fenceVars, children, last, tref, cref, bits, queued, gpu,
                   retired, lost, dropped, sourceVars, threadVars>>

DetachPuts ==
    /\ dpc = "timeline"
    /\ dpc' = "put" /\ kgsl_context_put(2)
    /\ UNCHANGED <<fenceVars, children, last, tcontext, bits, queued, gpu,
                   retired, lost, dropped, sourceVars, threadVars>>

-----------------------------------------------------------------------------
(***************************************************************************)
(* What is done with a descriptor.                                         *)
(***************************************************************************)

close(f) ==
    /\ file[f] = "fd"
    /\ file' = [file EXCEPT ![f] = "closed"]
    /\ dma_fence_put({f})
    /\ UNCHANGED <<ts, signaled, waiter, event, children, last, tcontext,
                   contextVars, schildren, sref, spc, threadVars>>

\* A poll, or the first wait (kgsl_enable_signaling), signals a fence that the
\* last timestamp covers; the fence stays in the list.
Poll(f) ==
    /\ file[f] = "fd" /\ ~signaled[f] /\ kgsl_sync_fence_has_signaled(f)
    /\ signaled' = [signaled EXCEPT ![f] = TRUE]
    /\ UNCHANGED <<kind, ts, ref, file, waiter, event, timelineVars,
                   contextVars, sourceVars, threadVars>>

\* A callback on a fence that neither has signaled nor signals now.
kgsl_sync_fence_async_wait(f) ==
    /\ file[f] = "fd" /\ ~waiter[f] /\ ~signaled[f]
    /\ ~kgsl_sync_fence_has_signaled(f)
    /\ waiter' = [waiter EXCEPT ![f] = TRUE]
    /\ ref' = [ref EXCEPT ![f] = ref[f] + 1]
    /\ UNCHANGED <<kind, ts, signaled, file, event, timelineVars, contextVars,
                   sourceVars, threadVars>>

\* The callback has run, or kgsl_sync_fence_async_cancel has removed it; the
\* owner of the callback puts the fence.
WaitEnds(f) ==
    /\ waiter[f]
    /\ waiter' = [waiter EXCEPT ![f] = FALSE]
    /\ dma_fence_put({f})
    /\ UNCHANGED <<ts, signaled, file, event, children, last, tcontext,
                   contextVars, schildren, sref, spc, threadVars>>

kgsl_sync_fence_callback(f) == signaled[f] /\ WaitEnds(f)
kgsl_sync_fence_async_cancel(f) == ~signaled[f] /\ WaitEnds(f)

\* kgsl_sync_timeline_value_str, called with a reference to the fence.
kgsl_sync_timeline_value_str(p, f) ==
    /\ pc[p] = "idle" /\ MayDump
    /\ kind[f] = "timeline" /\ file[f] = "fd" /\ tref > 0
    /\ ref' = [ref EXCEPT ![f] = ref[f] + 1]
    /\ tref' = tref + 1
    /\ ctx' = [ctx EXCEPT ![p] = tcontext /\ cref > 0]
    /\ cref' = IF ctx'[p] THEN cref + 1 ELSE cref
    /\ fen' = [fen EXCEPT ![p] = f]
    /\ Goto(p, "str")
    /\ UNCHANGED <<kind, ts, signaled, file, waiter, event, children, last,
                   tcontext, bits, queued, gpu, retired, lost, dropped,
                   dpc, sourceVars, cur>>

ValueStrPuts(p) ==
    /\ pc[p] = "str"
    /\ IF ctx[p] THEN kgsl_context_put(1) ELSE UNCHANGED <<cref, tref>>
    /\ ctx' = [ctx EXCEPT ![p] = FALSE]
    /\ Goto(p, "strput")
    /\ UNCHANGED <<fenceVars, children, last, tcontext, bits, queued, gpu, retired,
                   lost, dropped, dpc, sourceVars, fen, cur>>

kgsl_sync_timeline_put(p) ==
    /\ pc[p] = "strput"
    /\ tref' = tref - 1
    /\ Goto(p, "unref")
    /\ UNCHANGED <<fenceVars, children, last, tcontext, contextVars,
                   sourceVars, fen, cur, ctx>>

\* A thread puts the reference it has to its fence and returns.
Unref(p) ==
    /\ pc[p] = "unref"
    /\ dma_fence_put({fen[p]})
    /\ Return(p)
    /\ UNCHANGED <<ts, signaled, file, waiter, event, children, last, tcontext,
                   contextVars, schildren, sref, spc, cur, ctx>>

-----------------------------------------------------------------------------
(***************************************************************************)
(* Syncsources.                                                            *)
(***************************************************************************)

\* Bound: without Overlap, the syncsource is created once a context that has run
\* every command has been destroyed.  The two share nothing but threads and
\* descriptors, and the other behaviours only interleave independent steps.
OneAfterTheOther == Overlap \/ (cref = 0 /\ gpu = MaxTs)

kgsl_ioctl_syncsource_create ==
    /\ spc = "none" /\ OneAfterTheOther
    /\ spc' = "live" /\ sref' = 1
    /\ UNCHANGED <<fenceVars, timelineVars, contextVars, schildren, releasing,
                   threadVars>>

\* kgsl_ioctl_syncsource_destroy or the release of the process takes the id
\* out of the idr; kgsl_syncsource_cleanup signals what is listed, and puts
\* the reference of the creation.
kgsl_ioctl_syncsource_destroy ==
    /\ spc = "live"
    /\ spc' = "removed"
    /\ UNCHANGED <<fenceVars, timelineVars, contextVars, schildren, sref,
                   releasing, threadVars>>

kgsl_syncsource_cleanup ==
    /\ spc = "removed"
    /\ spc' = "swept"
    /\ signaled' = [f \in Fences |-> signaled[f] \/ f \in schildren]
    /\ schildren' = {}
    /\ UNCHANGED <<kind, ts, ref, file, waiter, event, timelineVars,
                   contextVars, sref, releasing, threadVars>>

CleanupPuts ==
    /\ spc = "swept"
    /\ spc' = "destroyed" /\ sref' = sref - 1
    /\ UNCHANGED <<fenceVars, timelineVars, contextVars, schildren, releasing,
                   threadVars>>

\* kgsl_ioctl_syncsource_create_fence: kgsl_syncsource_get by the id.
kgsl_syncsource_get(p) ==
    /\ pc[p] = "idle" /\ spc = "live"
    /\ sref' = sref + 1
    /\ Goto(p, "salloc")
    /\ UNCHANGED <<fenceVars, timelineVars, contextVars, schildren, spc,
                   releasing, fen, cur, ctx>>

\* The fence takes over the reference to the syncsource.  Without a sync
\* file the reference of the thread is the only one.
CreateSourceFence(p) ==
    /\ pc[p] = "salloc"
    /\ \/ \E f \in Fences :
            /\ kind[f] = "unborn"
            /\ kind' = [kind EXCEPT ![f] = "source"]
            /\ fen' = [fen EXCEPT ![p] = f]
            /\ \/ /\ ref' = [ref EXCEPT ![f] = 2]
                  /\ file' = [file EXCEPT ![f] = "kernel"]
                  /\ Goto(p, "sfd")
               \/ /\ ref' = [ref EXCEPT ![f] = 1]
                  /\ Goto(p, "unref") /\ UNCHANGED file
       \/ Goto(p, "sput") /\ UNCHANGED <<kind, fen, ref, file>>
    /\ UNCHANGED <<ts, signaled, waiter, event, timelineVars, contextVars,
                   sourceVars, cur, ctx>>

\* The descriptor is installed before the fence is listed.
SourceFd(p) ==
    /\ pc[p] = "sfd"
    /\ \/ file' = [file EXCEPT ![fen[p]] = "fd"] /\ Goto(p, "slist")
       \/ Goto(p, "sfail") /\ UNCHANGED file
    /\ UNCHANGED <<kind, ts, ref, signaled, waiter, event, timelineVars,
                   contextVars, sourceVars, fen, cur, ctx>>

SourceList(p) ==
    /\ pc[p] = "slist"
    /\ schildren' = schildren \cup {fen[p]}
    /\ Goto(p, "unref")
    /\ UNCHANGED <<fenceVars, timelineVars, contextVars, sref, spc, releasing,
                   fen, cur, ctx>>

\* No descriptor: the reference of the thread, then the sync file (fput).
SourceFail(p) ==
    /\ pc[p] = "sfail"
    /\ dma_fence_put({fen[p]})
    /\ Goto(p, "fput")
    /\ UNCHANGED <<ts, signaled, file, waiter, event, children, last, tcontext,
                   contextVars, schildren, sref, spc, fen, cur, ctx>>

\* kgsl_ioctl_syncsource_signal_fence, of any open fence.
kgsl_ioctl_syncsource_signal_fence(p, f) ==
    /\ pc[p] = "idle" /\ spc = "live" /\ file[f] = "fd"
    /\ sref' = sref + 1
    /\ ref' = [ref EXCEPT ![f] = ref[f] + 1]
    /\ fen' = [fen EXCEPT ![p] = f]
    /\ Goto(p, "ssig")
    /\ UNCHANGED <<kind, ts, signaled, file, waiter, event, timelineVars,
                   contextVars, schildren, spc, releasing, cur, ctx>>

\* Under syncsource->lock: nothing happens to a fence that is not listed.
kgsl_syncsource_signal(f) ==
    /\ signaled' = [signaled EXCEPT ![f] = signaled[f] \/ f \in schildren]
    /\ schildren' = schildren \ {f}

SignalSource(p) ==
    /\ pc[p] = "ssig"
    /\ kgsl_syncsource_signal(fen[p])
    /\ Goto(p, "sunref")
    /\ UNCHANGED <<kind, ts, ref, file, waiter, event, timelineVars,
                   contextVars, sref, spc, releasing, fen, cur, ctx>>

SignalPutsFence(p) ==
    /\ pc[p] = "sunref"
    /\ dma_fence_put({fen[p]})
    /\ Goto(p, "sput")
    /\ UNCHANGED <<ts, signaled, file, waiter, event, children, last, tcontext,
                   contextVars, schildren, sref, spc, fen, cur, ctx>>

kgsl_syncsource_put(p) ==
    /\ pc[p] = "sput"
    /\ sref' = sref - 1
    /\ Return(p)
    /\ UNCHANGED <<fenceVars, timelineVars, contextVars, schildren, spc,
                   releasing, cur, ctx>>

\* The last reference has gone: the fence is signaled and unlisted, then the
\* syncsource is put and the fence freed.
kgsl_syncsource_fence_release(f) ==
    /\ f \in releasing
    /\ releasing' = releasing \ {f}
    /\ kind' = [kind EXCEPT ![f] = "dying"]
    /\ kgsl_syncsource_signal(f)
    /\ UNCHANGED <<ts, ref, file, waiter, event, timelineVars, contextVars,
                   sref, spc, threadVars>>

FreeSourceFence(f) ==
    /\ kind[f] = "dying"
    /\ kind' = [kind EXCEPT ![f] = "gone"]
    /\ sref' = sref - 1
    /\ UNCHANGED <<ts, ref, signaled, file, waiter, event, timelineVars,
                   contextVars, schildren, spc, releasing, threadVars>>

-----------------------------------------------------------------------------
\* A step of a thread inside a call.
ThreadStep(p) ==
    \/ kgsl_sync_fence_create(p) \/ kgsl_readtimestamp(p) \/ SignalRetired(p)
    \/ _add_fence_event(p) \/ fd_install(p) \/ PutContext(p)
    \/ kgsl_sync_cancel(p) \/ fput(p)
    \/ ValueStrPuts(p) \/ kgsl_sync_timeline_put(p) \/ Unref(p)
    \/ CreateSourceFence(p) \/ SourceFd(p) \/ SourceList(p) \/ SourceFail(p)
    \/ SignalSource(p) \/ SignalPutsFence(p) \/ kgsl_syncsource_put(p)

Call(p) ==
    \/ kgsl_context_get_owner(p) \/ kgsl_syncsource_get(p)
    \/ \E f \in Fences : kgsl_sync_timeline_value_str(p, f)
                       \/ kgsl_ioctl_syncsource_signal_fence(p, f)

\* What the event worker and the releases do with a fence.
FenceStep(f) ==
    \/ kgsl_sync_fence_event_cb(f) \/ _kgsl_event_worker(f)
    \/ kgsl_sync_fence_callback(f)
    \/ kgsl_syncsource_fence_release(f) \/ FreeSourceFence(f)

UserStep(f) ==
    \/ close(f) \/ Poll(f)
    \/ kgsl_sync_fence_async_wait(f) \/ kgsl_sync_fence_async_cancel(f)

\* What goes on once it has begun.
DetachStep ==
    \/ gen7_hwsched_context_detach \/ kgsl_cancel_events
    \/ kgsl_sync_timeline_detach \/ DetachPuts

CleanupStep == kgsl_syncsource_cleanup \/ CleanupPuts

Next ==
    \/ \E p \in Threads : Call(p) \/ ThreadStep(p)
    \/ \E f \in Fences : FenceStep(f) \/ UserStep(f)
    \/ Submit \/ GpuRetire \/ kgsl_process_event_groups \/ FaultInvalidate
    \/ kgsl_context_detach \/ DetachStep
    \/ kgsl_ioctl_syncsource_create \/ kgsl_ioctl_syncsource_destroy
    \/ CleanupStep

Spec == Init /\ [][Next]_vars

-----------------------------------------------------------------------------
(***************************************************************************)
(* Properties.                                                             *)
(***************************************************************************)
One(b) == IF b THEN 1 ELSE 0

\* The threads that hold a reference to the context, to a fence of their
\* own and to the syncsource.
HoldsContext == {"create", "fd", "signal", "event", "copy", "put", "fail"}
HoldsFence == {"str", "strput", "unref", "sfd", "slist", "sfail", "ssig", "sunref"}
HoldsSource == {"salloc", "ssig", "sunref", "sput"}
At(places) == {p \in Threads : pc[p] \in places}

\* Every count of references is exact, whoever holds them and however a call
\* fails half way: the context is held by its creator and its timeline until
\* the detach, twice by each event and by threads; the timeline by a context
\* that is not destroyed, by its fences and by a dump; a fence by the list of
\* the timeline, its sync file, a callback and threads; the syncsource until
\* it is destroyed, by its fences and by threads.  What is freed is in no
\* list, and ktimeline->context never points to a destroyed context.
SyncRefCounts ==
    /\ cref = (IF dpc = "put" THEN 0 ELSE 2)
              + 2 * Cardinality({f \in Fences : event[f] # "none"})
              + Cardinality(At(HoldsContext)) + Cardinality({p \in Threads : ctx[p]})
    /\ tcontext => cref > 0
    /\ tref = One(cref > 0) + Cardinality({f \in Fences : kind[f] = "timeline"})
              + Cardinality(At({"str", "strput"}))
    /\ \A f \in Fences :
         ref[f] = One(f \in children) + One(file[f] \in {"kernel", "fd"})
                  + One(waiter[f])
                  + Cardinality({p \in At(HoldsFence) : fen[p] = f})
    /\ \A f \in Live : ref[f] > 0 \/ f \in releasing \/ kind[f] = "dying"
    /\ sref = One(spc \in {"live", "removed", "swept"})
              + Cardinality({f \in Fences : kind[f] \in {"source", "dying"}})
              + Cardinality(At(HoldsSource))
    /\ children \cup schildren \subseteq Live
    /\ \A f \in schildren : kind[f] # "dying"

\* The memstore was made to show what is queued: the GPU was stopped, or the
\* context was made invalid.
Forced == "INVALID" \in bits \/ (Ended /\ ~lost)

\* A timestamp that nobody needs to wait for: the GPU has finished it; or the
\* context has ended, and it was retired with all that was queued, or an event
\* for it or for a later one was cancelled.
Over(t) ==
    \/ t <= gpu
    \/ Forced /\ t <= queued
    \/ Ended /\ \E d \in dropped : t <= d

\* A timeline fence of a context that lives is not signaled before the GPU has
\* finished its timestamp, though the timestamp of one event or the retired
\* timestamp read by one thread signals the fences of all others.  The fences
\* of a context that has ended may be signaled without: up to what was queued
\* when the memstore was forced, and up to a cancelled event.
SignaledIsRetired ==
    \A f \in Fences : signaled[f] /\ ts[f] > 0 => Over(ts[f])

\* The fence asks for what will never retire: a timestamp that was not queued
\* before the context ended, or one the GMU may not have been told about.
NeverRetires(f) == Ended /\ (lost \/ ts[f] > queued)

\* A listed fence has an event that will signal it, or is in the hands of the
\* thread that makes it; and an event that waits is still looked for: it is not
\* left in the list after the events were cancelled, unless it came too late
\* for that and asks for what never retires.
ListedIsExpected ==
    /\ \A f \in children :
        \/ event[f] \in {"listed", "retired", "cancelled"}
        \/ \E p \in Threads :
               fen[p] = f /\ pc[p] \in {"fd", "signal", "event", "fail", "cancel"}
    /\ \A f \in Fences :
        event[f] = "listed" /\ dpc \in {"cancelled", "timeline", "put"}
            => NeverRetires(f)

\* kgsl_sync_timeline_signal passes over no open fence that last_timestamp
\* covers, but for one that was created when a cancelled event had already
\* moved last_timestamp past it.
PollFindsNothing ==
    \A f \in Fences :
        file[f] = "fd" /\ kgsl_sync_fence_has_signaled(f)
            => signaled[f] \/ NeverRetires(f)

\* Whoever has a callback on a fence hears of it when last_timestamp covers it.
WaitersTold ==
    \A f \in Fences : waiter[f] /\ kgsl_sync_fence_has_signaled(f) => signaled[f]

\* No timeline fence is forgotten, whatever thread, event or poll comes first
\* and however the context goes away, but the fence of a timestamp that never
\* retires whose event is added after kgsl_cancel_events.
NoFenceForgotten == ListedIsExpected /\ PollFindsNothing /\ WaitersTold
=============================================================================
