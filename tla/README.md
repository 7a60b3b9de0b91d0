# A TLA+ development of the KGSL graphics driver

This directory specifies and verifies the synchronisation core of KGSL, the
Adreno GPU driver in `src/qcom/opensource/graphics-kernel` (below: `gk/`). The
repository collects the out-of-tree kernel modules of one phone platform;
KGSL is the part of it in which many threads, a GPU and a firmware share
reference counted objects, and in which a lost wake-up, a missed signal or a
reference put twice is the kind of error no test finds.

- [Inventory](#inventory)
- [Modules](#modules)
- [Runs](#runs)
- [Fairness](#fairness)
- [Proofs](#proofs)
- [Findings](#findings)
- [What is left out](#what-is-left-out)
- [Plan](#plan)

## Inventory

### The graphics driver

| Part | Source | State | Operations | What is hard | What makes it correct |
|---|---|---|---|---|---|
| Software timelines | `gk/kgsl_timeline.c` | `device->timelines` (an idr), per timeline a kref, a value, a sorted list of fences, two spinlocks; per fence a kref and a sequence number | create, signal, wait, query, fence-get, destroy ioctls; the dma_fence callbacks | users put fences without any lock while signal and destroy walk the list; an id is reserved before it names an object | exact reference counts, no freed fence on a list, no fence misses its signal or fires early, destroy wakes everybody |
| GPU events | `gk/kgsl_events.c` | per context a group with a list of events and the last processed timestamp; a kthread worker | add, cancel one, cancel all, process, flush, remove the group | an event added while its timestamp retires; the rollover of 32 bit timestamps; removal of the group against both | every event fires exactly when its timestamp has retired or it is cancelled |
| Timestamps | `gk/kgsl.h` | – | `timestamp_cmp` | rollover, two timestamps exactly a window apart | the order of timestamps is the order in time |
| Context life cycle | `gk/kgsl.c`, `gk/kgsl_device.h` | refcount, DETACHED and INVALID bits, `context_idr` | get, put, detach, destroy | ioctls, the release of the file, the scheduler and events all hold references | the count is exactly the number of users, one thread detaches |
| Draw contexts | `gk/adreno_drawctxt.c` | queued timestamp, wait queue, the ring of queued draw objects | wait for a timestamp, invalidate, detach, create, queue | a fault or a detach between check and sleep; a ring that two threads and the dispatcher fill | a waiter whose condition holds is woken, the ring never overflows |
| Hardware scheduler | `gk/adreno_hwsched.c`, `gk/adreno_gen7_hwsched_hfi.c` | lock free lists of jobs, `cmd_list` and `inflight`, `big_cmdobj`, POWER and ACTIVE, the idle gate, a pending fault | queue, wait for room, dispatch, put back, retire, fault, reset, replay, idle, unregister a context | whoever gets the mutex dispatches; submissions fail half way; faults during recovery; a detach or an idle request under way meanwhile | timestamps retire in order and all of them; what is listed is what the GMU holds; a detached context stays quiet; idle means idle |
| Sync objects | `gk/kgsl_drawobj.c` | pending bits of the sync points, a timer | add events, fence and timeline callbacks, expire, cancel, destroy | a callback, the timer and the destruction race for a bit | each sync point is dropped once, and its reference with it |
| KGSL fences | `gk/kgsl_sync.c` | per context a sync timeline with a kref, the last signaled timestamp and a list of fences; per process syncsources with theirs | create a fence, signal, cancel, release, dump, asynchronous wait; create, signal and destroy for syncsources | an event signals a fence whose creation is just failing; a dump reaches for a context that is being detached; one signal serves the fences of others | exact reference counts, no fence signals early, none is forgotten |
| Processes and device instances | `gk/kgsl.c` | process list, per process idrs, the number of contexts | open, close, context and memory creation | open against the last close; the context limit | no context survives its process |
| Software dispatcher | `gk/adreno_dispatch.c` | ringbuffers, in-flight queue | as the hardware scheduler | – | used by GPUs older than the platform's |
| GMU, HFI, power | `gk/adreno_gen7_gmu.c`, `gk/kgsl_pwrctrl.c` | power state, message queues | register and firmware sequences | hardware timing | – |
| Memory, VBO, IOMMU | `gk/kgsl_sharedmem.c`, `gk/kgsl_vbo.c`, `gk/kgsl_iommu.c` | page tables, interval trees | allocate, bind, map, free | a bind operation that runs while its target is freed | – |
| Diagnostics | `gk/kgsl_snapshot.c` and others | – | output | – | – |

How they interact: an ioctl looks a context up by id (a reference), submits
commands to the scheduler, and adds events to the context's group. The GPU
writes the retired timestamp to the memstore; its interrupt kicks the
scheduler's kthread, which walks all event groups and queues the events that
are due to the events kthread, whose callbacks wake waiters and put the
context. A fault and the detach of a context write the memstore as well, and
cancel or flush the events. Timelines share no state with the contexts; they
meet in the sync objects, whose sync points are event callbacks, fence
callbacks and timeline fences.

### The rest of the repository

Audio, Bluetooth, camera, IPA, display, EVA, MMRM, SecureMSM, video, WLAN,
NFC, exFAT and the Motorola drivers are separate kernel modules that share no
state with KGSL. `PROJECT.json` lists each with the reason it is not modelled.

## Modules

| Module | Models |
|---|---|
| `KgslTimeline` | all of `kgsl_timeline.c`, thread by thread |
| `TimelineContract` | what a timeline promises to its users, without locks, lists or counts |
| `KgslTimelineProofs` | all safety properties of the timelines |
| `KgslTimelineContractProofs` | that they keep the contract |
| `MCKgslTimeline` | instances of `KgslTimeline` for TLC |
| `KgslTimestamp` | `timestamp_cmp` and the arithmetic of timestamps, for any window size |
| `KgslGroupProgress` | the memstore against `group->processed`: reads of the retired timestamp, on time and late, around the rollover |
| `KgslGroupProgressProofs` | the comparison and the progress check, for every window size |
| `KgslEvents` | one context with its event group, its waiters, faults and detach |
| `KgslEventsProofs` | types, reference counts, exclusive detach, group life time; no missed event, no lost wake-up, "retired" is true |
| `MCKgslEvents` | instances of `KgslEvents` for TLC |
| `KgslSyncObj` | a sync object with its sync points, from the submit ioctl to the return of its memory |
| `KgslSyncObjProofs` | all its safety properties, for any number of sync points |
| `MCKgslSyncObj` | instances of `KgslSyncObj` for TLC |
| `Hwsched` | draw objects from the ioctl through the queue of their context, the dispatcher and the GMU to their retirement; faults, detach, idle |
| `HwschedProofs` | types, detached contexts are quiet, no job forgotten, what is in flight, no overflow with one thread per context |
| `HwschedOrderProofs` | timestamps in order, idle is idle, what is listed is what the GMU holds, with one thread per context |
| `MCHwsched` | instances of `Hwsched` for TLC |
| `KgslSync` | the fences of `kgsl_sync.c`: a sync timeline and a syncsource, with their sync files |
| `KgslSyncProofs` | all its safety properties, for any number of threads and fences |
| `MCKgslSync` | instances of `KgslSync` for TLC |

### KgslTimeline

The state is `device->timelines` (`idr`), the fields of `struct kgsl_timeline`
(`ref`, `value`, `fences`, `lock`, `fence_lock`, `owner`, `tid`) and of `struct
kgsl_timeline_fence` (`ftl`, `fseq`, `fref`, `sig`, `err`), the fences an open
sync_file holds (`fd`), and the locals of the threads. Objects are memory: a
timeline with `ref = 0` and a fence with `ftl = None` can be allocated again, so
a use after free is visible as a reference to free memory or to another object.

A step is what a thread does between two points where another can interfere.
A section under `device->timelines_lock` is one step. `timeline->lock` and
`fence_lock` are variables with a holder, because signal, add and destroy loop
under them while other threads put fences with no lock at all; a count that
reaches zero leaves the fence on the list until the thread that put it gets
`fence_lock` in `timeline_fence_release`. That window is what
`kref_get_unless_zero` in the scans is for. The bulk operations are one step per
fence. `dma_fence`, `dma_fence_array` and `sync_file` are external: reference
counts, the signaled bit and the error, as `kgsl_timeline.c` uses them. Failing
allocations and interrupted waits are alternatives.

Pure reads (`kgsl_ioctl_timeline_query`) are actions too: they take and put a
reference, and the last put may free the timeline.

### TimelineContract

A fence is none, waiting, signaled or signaled with an error; a timeline has
a value. A step may raise a value, start a fence, signal a fence whose
timeline has reached its number, or signal it with an error once the timeline
has no id any more. `KgslTimeline` maps its state to it (`Contract == INSTANCE
TimelineContract WITH ...`); `ImplementsContract` is the refinement, safety and liveness.

### KgslTimestamp and KgslGroupProgress

Timestamps are naturals modulo `2 * Window`; in the driver `Window` is 2^31.
`KgslGroupProgress` puts the processed and the retired timestamp on the circle
together with their distance (`lag`), which the code does not have: it is the
truth the comparison is checked against.

### KgslEvents

One context: the memstore and the GPU, the reference count and the bits of the
context, the list of events with their results, and the locals of the threads
inside wait, add-event, marker, fault and detach. A section under `group->lock`
is one step; between two sections everything is interleaved. The scheduler's
kthread has its own location (`hpc`) since it takes and puts a reference around
the group; the events kthread runs one event at a time. Where the kthread
retires a marker or handles a fault, a thread of the model stands for it, and
`FaultRunning` keeps a fault from overlapping the kthread's ordinary work as the
single kthread does. The GMU's answer to the unregister request of a detach may
fail to come: the detach then invalidates the context, and the GPU is halted at
any later time.

The order of events on the list and in the worker's queue is left out; no code
depends on it. Commands hold references on their context as well; they only
make it live longer and are left out.

### KgslSyncObj

One sync object: the fields of `struct kgsl_drawobj_sync` (`ref`, `num`,
`pending`, `started` for `timeout_jiffies`, `timer`), of its
`kgsl_drawobj_sync_event`s (`handle`, and `held` for the references of the sync
points on contexts and fences), the place of the object in the context's queue
(`inq`), `drawctxt->lock` where somebody waits or works inside it, and one
location per actor: the ioctl (`opc`), each callback (`cpc`), the timer handler
(`tpc`), the scheduler (`hpc`) and the destroyer (`dpc`). The destroyer is
whoever has taken the object out of its queue, or the ioctl that failed; when
it is the scheduler, it holds `drawctxt->lock` meanwhile.

Each atomic bit operation is one step, and so is each section under a lock that
nobody waits in. A sync point is of one of three types, with three different
rules on who puts what, and the model follows each: the callback of an event
always puts the object and puts the context if it cleared the bit; the callback
of a fence puts the object if it cleared the bit, and the fence goes with the
object; the callback of a fence array leaves both puts to a work item. A fence
callback runs under the lock of its fence, which `dma_fence_remove_callback`
takes: `DestroyCancel` waits for it. A cancelled event is called back by the
events worker, after the destroyer has gone on.

`Signal` stands for everything outside that makes a sync point fire: the
timestamp retires, or its context goes away and its events are cancelled; a
fence signals. It may happen between any two steps, before the object exists
or never. Failures of every step of the ioctl are alternatives. The memory is
used again for the next object, so that a late user of the old one shows.

The context's other commands are left out: the scheduler sees a queue with at
most this object. `kick` is the queued work of the scheduler together with the
context's job, which after `-EAGAIN` goes back to the list and waits for the
next trigger.

### Hwsched

The state is that of each context (`queue`, `queued`, `timestamp`, `queuedTs`,
`bits`), the memstore (`sop`, `eop`), the two lists of jobs per priority, the
fields of `struct adreno_hwsched` (`mutex`, `work`, `cmdList`, `inflight`,
`power`, `active`, `bigObj`, `fault`, `ctxtBad`), what the GMU holds (`gmu`), and
the locations of the threads, of a detach (`dpc`) and of `adreno_hwsched_idle`
(`ipc`). `disp` is the stack frame of whoever holds `hwsched->mutex`, since a
submitting thread and the worker run the same code.

Between two steps everything else may happen: the dispatcher gives
`drawctxt->lock` back after it has popped an object, takes `device->mutex` to send
it, and takes the lock again to put it back when the GMU has no room, the GPU
does not wake up, or a fault or a halt came in. While it walks over objects that
need no GPU (satisfied sync objects, expired markers, timeline and bind objects)
it holds the lock (`disp.held`). A job is dropped, put on the requeue list or on
the ordinary one as `hwsched_handle_jobs_list` decides.

The ring of a context is a sequence that becomes empty when it would be full,
as head and tail are then equal, and `queued` is a counter of its own: an
overflow is visible. A sync object is one flag here, its details are those of
`KgslSyncObj`; a big command has more IBs than a message carries. A fault names
a command (`hard`, from the GMU), stalls the IOMMU (`page`) or is of the GMU
itself; the recovery picks the command as the code does, may or may not find its
context guilty, empties the GMU and submits the list again, during which the GMU
may fail once more. `adreno_hwsched_do_fault` is one step since both mutexes are
held from the reset to the last replayed command.

External: the GPU and the GMU's firmware, which start and retire commands of a
context in order and stop at a fault. Left out: LPAC, recurring commands,
hardware fences beyond the expired markers they send to `hwsched_sendcmd`, and
the failing allocation at the top of `hwsched_sendcmd`, which acts like a GPU
that cannot be woken up.

### KgslSync

One context with its sync timeline and one syncsource. The state is that of
every fence (`kind`, `ts`, `ref`, `signaled`, its sync file, a registered callback,
its event), of the timeline (`children`, `last`, `tref`, `tcontext`), of the context
(`cref`, `bits`, the timestamps `queued`, `gpu` and `retired`, how far a detach is),
of the syncsource (`schildren`, `sref`, `spc`) and the locations of the threads. Sections under `ktimeline->lock` or
`syncsource->lock` are one step. `kgsl_add_fence_event` has one per call that
others can interfere with: the fence is listed before it has an event, the event
may fire before the descriptor is installed, and every call can fail, which
leads to `kgsl_sync_cancel` and `fput`. A fence is used once, so a reference to a
freed one is a count that does not add up. The release of a source fence is two
steps, because it runs without a lock after the last reference has gone.

A fence may ask for a timestamp that is not queued yet or never will be:
`kgsl_sync_fence_create` checks nothing, and `kgsl_add_event` takes such an event in
a context with `KGSL_CONTEXT_USER_GENERATED_TS` (`UserTS`, `gk/kgsl_events.c:247`).
`queued` is `drawctxt->timestamp`, `gpu` what the GPU has finished, `retired` what the
memstore shows. A fault that invalidates the context sets `retired` to `queued` and
flushes the events, which cancels those ahead of it. The detach
(`gen7_hwsched_context_detach`) has three outcomes: the GMU confirms and `retired`
becomes `queued`; it refuses and nothing is written; or it does not answer and the
context is invalidated. In the last two the GPU was not told (`lost`) and may go on.
Then `kgsl_cancel_events` cancels what is listed, and the group and the timeline's
pointer to the context go in a later step, so that an event can still be added in
between. The callback signals for a cancelled event as for a retired one, which moves
`last` past timestamps that never retire; the history variable `dropped` keeps the
timestamps of cancelled events, for the property only. A poll and the first wait
(`kgsl_enable_signaling`) signal a fence that `last` covers and that nobody has
signaled (`Poll`). The events are those of `KgslEvents` (added, retired, cancelled,
called, done); their worker is one thread.

What the two properties say is the most that holds of this code.
`SignaledIsRetired`: while the context lives a fence is signaled only when the GPU
has finished its timestamp; once it has ended, also up to `queued` if the memstore
was forced to it, and up to a cancelled event. `NoFenceForgotten`: a listed fence has
an event or a thread that will signal it (`ListedIsExpected`), a signal passes over
no open fence that it covers (`PollFindsNothing`), and a callback on a fence is
called (`WaitersTold`). The first two except a fence whose timestamp can no longer
retire (`NeverRetires`: not queued when the context ended, or a detach the GMU did
not confirm); see [Findings](#findings).

With `Overlap` = FALSE the run bounds what goes on at the same time: `MayAsk`,
`MayDump` (a dump and the creation of a fence do not overlap), `MayGoOn` (a GPU that
was not told of the detach goes on until the events are cancelled) and
`OneAfterTheOther` (the syncsource is created after the context has gone; they share
nothing but threads and descriptors). The proofs hold with and without them.

## Runs

| Run | Instance | Shows |
|---|---|---|
| `timeline_race` | 3 threads, 1 timeline, 2 fences, values to 2 | exact reference counts of timelines and fences; no freed fence on a list; no fence misses its signal or fires early; values never decrease |
| `timeline_reuse` | 2 threads on 2 device instances, 2 timelines, 1 id, 2 fences, waits on up to 2 | an id names at most one timeline, the one that carries it; a timeline is freed without fences |
| `timeline_live` | 2 threads, 1 timeline, 2 fences, fair | waits return, destroy wakes everybody, the contract with its liveness |
| `events_race` | 3 threads, 2 events, 1 command, user timestamps, starting just before the rollover | exact reference count, the group never outlives the context, no missed event, no lost wake-up, "retired" is only said of what the GPU has done |
| `events_live` | 2 threads, 1 event, fair | an event whose timestamp retires fires; a waiter returns |
| `group_progress` | `Window` = 16, late reads by up to 3 | the comparison follows time and no progress is skipped |
| `syncobj_race` | a timestamp, a fence and a timeline sync point | exact references of the object and its sync points; commands never start early; the scheduler is told; the timer is stopped before the memory goes; no deadlock |
| `syncobj_live` | a fence and a timestamp, fair | a satisfied object leaves the queue; a destroyed one is freed |
| `hwsched_race` | 2 contexts with a thread each at 2 priorities, 1 command each, ordinary or big, 2 faults of any kind, 1 GPU that does not wake up, 1 idle request, 1 detach | `cmd_list`, `inflight` and `big_cmdobj` agree with what the GMU holds; a drained context stays empty and nothing of it runs after the detach; the idle gate tells the truth |
| `hwsched_order` | 1 context, 1 thread, 3 timestamps, all kinds of objects, a ring of 4 slots, room for 1 command in the GMU, fair | the ring does not overflow; order of retirement; no context is lost from the lists; every timestamp retires; who sleeps for room gets it |
| `hwsched_overflow` | 2 threads on that ring, plain commands | a violation, see [Findings](#findings) |
| `sync_race` | 2 threads, 2 fences, timestamps to 2, user timestamps, `Overlap` = FALSE | all reference counts of fences, timeline, context and syncsource are exact; no fence of a living context signals before its timestamp retires, and of one that has ended none beyond what was forced or cancelled; none is forgotten but those of timestamps that can no longer retire |

Why the bounds are enough. Three threads are one per role in every race of the
code: one that walks a list, one that puts, one that adds or destroys (or: a
waiter, a thread that adds, a thread that detaches, next to two kthreads and
the GPU, which are not counted). Two fences are needed for an order in the
list, for a wait that fails half way and for two waiters on one value; two
timelines and one id for the reuse of an id while the old object lives on; two
events for two waiters with the same timestamp. Values up to 2 let a signal
pass one fence and not the other. `Window` = 4 with a start at 7 or 6 puts
the rollover inside the run; distances stay below the window
(`EventsAssumption`), as the driver does by bounding the commands in flight.

One sync point of each type is enough to let each race with each, with two
others to be first, in the middle and last; that the number does not matter is
proved. The liveness run has two, of the types whose callbacks run in
different ways (under a fence's lock, in the worker).

For the scheduler, a ring of 4 slots keeps at most 2 queued objects plus the one
that is put back, so one thread fills it with two batches, and a GMU with room
for one command refuses the second. Two contexts of one command each let a
fault, a detach and an idle request of one meet a command of the other in
flight, and two faults let the second one come during the recovery from the
first. Two fences let one signal serve two fences, fail one while the other
lives on, and exchange their roles between timeline and syncsource.

Symmetry is used over threads and memory in safety runs only, and not over the
device instances where a constant function distinguishes them. Deadlock is
checked in the timeline and sync object runs: with a blocking lock in
`adreno_drawctxt_dump` TLC finds the deadlock that the comment at
`gk/adreno_drawctxt.c:55` describes, so the trylock is
needed, and it is enough. It is off where the modelled life simply ends: a
detached context that nobody uses, a scheduler whose bounded timestamps are all
submitted and retired, and fences that are all freed.

Every property has a mutant in `PROJECT.json`: a change to one definition that
a slip in that code would make (a check dropped, a reference not taken, a
scan that does not stop, a comparison without the rollover), under which TLC
finds the property violated.

## Fairness

`KgslTimeline!FairSpec` gives strong fairness to `Step(p)`, the continuation of
an ioctl in progress: kernel spinlocks are queued, so a thread that waits for
one gets it, and a runnable thread is scheduled. Beginning an ioctl, closing a
file descriptor, polling a fence and the timeout or interruption of a wait are
not forced. `KgslEvents!FairSpec` adds weak fairness of the scheduler's kthread
once its work is queued and of the events worker. Nothing makes the GPU execute
a command, so liveness speaks only of timestamps that do retire.

`KgslSyncObj!FairSpec` gives strong fairness to the ioctl, the scheduler and each
callback (they wait for spinlocks, and callbacks of events for the one worker,
which takes them in turn), and weak fairness to the timer handler once it has
started, to a destroyer and to the thread that empties the queue of a bad
context. Nothing has to signal, no timer has to fire, no context has to go bad.

`Hwsched!FairSpec` gives weak fairness to a submitting thread, to the holder of the
mutex, to the worker while its work is queued, to the GPU for each context, to
the message interrupt, to the completion of sync points and bind operations, to
a detach and to an idle request once begun. Nothing makes a thread submit, a
fault happen or a wait time out, so `RoomIsFound` is shown without the ten second
timeout. `hwsched_order` has no faults and no failing wake-ups; with one of the
latter a job may wait for the next trigger (`gk/adreno_hwsched.c:487`),
which the two liveness properties except. `InOrder` is checked in that run too, so
its order under faults and replay rests on the theorem `HwschedInOrder`.

## Proofs

All are checked by TLAPS. Assumptions are those named in the modules:
`WindowAssumption`, `EventsAssumption`, `TimelineAssumption`, `SyncAssumption`,
`KgslSyncAssumption`, `HwschedAssumption` and the one of `KgslGroupProgress`; TLC
evaluates them in the runs. Each inductive invariant was first checked by TLC
with the constants of a run.

**Events** (`KgslEventsProofs`; any number of threads and events, any window,
with and without user timestamps). `TypeCorrect`, `RefCountExact`, `DetachOnce`
and `GroupSafe` follow from one inductive invariant,

    IInv == TypeOK /\ ContextRefCount /\ EventsOwned /\ DetachedOnce
            /\ GroupHasMaster /\ DestroyedIsGone

`ContextRefCount` alone is not inductive: a put must know that its user is
counted, so that the count is not zero (`UsersHoldContext`), and a thread that
allocates an event must know that the event is free (`EventsOwned`: an event
in state "init" belongs to exactly one thread). `DetachedOnce` ties the master
reference to the one thread that is past the test-and-set of DETACHED, which
is what lets it remove the group (`GroupHasMaster`) before it puts. The counting
lemmas (`Busy*`, `Event*`) say how the sets of users change by one step.

**The order of events** (also `KgslEventsProofs`; the same generality).
`RetiredCorrect`, `NothingMissed` and `NobodySleepsOn` need to know where on the
circle of timestamps everything is. `OrderInv` measures it from where the run
starts (`Pos`): all timestamps in use lie in one window (`InWindow`), the memstore
follows the GPU until the context is gone (`MemstoreFollowsGpu`, `DetachUnderWay`,
`FaultIsBad`), so that `timestamp_cmp` is the comparison of positions (`CmpByPos`)
and what was retired stays retired (`RetiredForward`). On top of it come the
obligations that the two "nothing is lost" properties are really about: an event
on the list is ahead of the processed timestamp or a pass over the group is
owed (`ListedAhead`, `PassOwed`), a waiter's own event is listed or has fired
(`WaitersEvent`, `SleepersCounted`), and whatever makes a condition of a sleeper
true owes the wake-up (`BadWakes`, `DueWakes`).

**Timestamps and progress** (`KgslGroupProgressProofs`; any window). With
`LagIsDistance` (the lag is the distance on the circle) as the strengthening,
`CmpCorrect` shows that `timestamp_cmp` orders the processed and the retired
timestamp in time, `ForwardCorrect` that the shortcut at `kgsl_events.c:64`
never skips progress; `CmpAntisymmetric` needs no invariant and includes the
pairs exactly a window apart.

**Timelines** (`KgslTimelineProofs`). `ValueMonotonic`: the value of a timeline
that stays in use never decreases. It needs only that values and arguments are
natural numbers (`Numbers`), as the check is made under `timeline->lock` in the
step that writes.

The rest is proved for any number of threads,
timelines, fences, ids and device instances, from

    IInv == TypeOK /\ Control /\ Locks /\ Lists /\ Allocs /\ Releases
            /\ TimelineRefCount /\ FenceRefCount /\ IdsKept /\ Reached /\ Covered

`TimelineCounted`, `FencesCounted`, `ListsHoldNoFreedFence`, `NoSignalLost`,
`NoSignalEarly`, `DestroyedIsEmpty` and `IdsName` are its consequences. The
exact counts carry the argument: a count of one means that nobody else uses
the object (`CountsGiveUsers`), so the last put may free it. `Locks` and
`Lists` say who is inside which spinlock and what a list holds meanwhile:
fences of its timeline, each once, and those with count zero are in the hands
of exactly one `timeline_fence_release` (`Releases`). `Covered` is the
invariant behind `NoSignalLost`: every fence that its timeline has reached is
signaled, or it is on the part of the list that a scan has still to visit, or
on the private list of one, or its own thread has not yet compared
(`PlacedBy`, `OwedBy`). Only `SignalLock` changes a value; everything else
leaves reached fences as they were (`Steady`, `FencesKept`).

`KeepsContract` (`KgslTimelineContractProofs`) is the refinement: `Init` maps to an initial state of
`TimelineContract`, and each step of each thread to a step of the contract or to
a stutter (`Published`, `InUse`, `StateOf`, `Seen` follow the mapping through the
steps). It states the safety part, `Contract!SafeSpec`; the fairness part of the
contract is checked by `timeline_live`.

**Fences** (`KgslSyncProofs`; any number of threads, fences and timestamps, with
and without `Overlap`). `CountsExact`, `NothingEarly` and `NothingForgotten` follow from

    IInv == TypeOK /\ ThreadFences /\ FenceStates /\ ZeroIsDead /\ Counts
            /\ SignalsRetired /\ NoneMissed /\ AllExpected

`ThreadFences` says which fence a thread inside an ioctl works on and that nobody
else has it before it is published; `FenceStates` ties the state of the event, the
file and the list of a fence to each other; with them every put finds its user
counted. `SignalsRetired` speaks of the timestamps on their way to a signal
too: `last`, and what an event callback or a thread is about to pass on, all of
which are over (`OverTs`). It rests on `ContextState`, how `queued`, `gpu` and
`retired` stand to each other until the memstore is forced and after, and on
`ContextStep`: these timestamps only grow, and a context that has ended queues no
more, so what is over stays over and what is hopeless (`Hopeless`) stays hopeless.
`NoneMissed` tells two kinds of fences apart: one that somebody waits for is
signaled, or listed and ahead of `last` (`Sought`); one that is only open may be
behind `last` as well if it is hopeless (`Covered`), since it may have been created
after a cancelled event moved `last` past it. `AllExpected` is `ListedIsExpected` with
the hopeless fences as a set.

**Sync objects** (`KgslSyncObjProofs`; any number of sync points of any types, from
`SyncAssumption`). Every safety property of the runs is a theorem:
`TypeCorrect`, `ObjCountExact`, `SourceCountExact`, `CallbackToCome`,
`NothingEarly`, `SchedulerTold`, `TimerSafe`. The inductive invariant is

    IInv == TypeOK /\ Control /\ Counts /\ Order

`Control` says where the actors can be at the same time: the object has one
owner (`OneOwner`), what the ioctl and the destroyer know of the sync point they
are at (`SubmitPoint`, `DestroyPoint`: once the destroyer has cleared a bit, the
callback can no longer get past its own test), who is inside `drawctxt->lock`
(`LockHolder`). `Counts` needs it: the owner, each sync point and the timer
handler account for one reference each (`Live*` count the sync points,
`UsersHold` turns them into a bound), and whoever puts a context or a fence array
has cleared the bit. A put may be the last and then drops the fences of the
handles too; `SourcePut` treats that once for every place that puts. `Order`
adds `ClearMeansSignaled`: while nobody cancels, a clear bit belongs to a sync
point that has signaled, which with `LockHolder` gives `NoEarlyRetire`.

**The hardware scheduler** (`HwschedProofs`; any number of contexts, priorities and
timestamps, any size of the queues, any room in the GMU, with and without faults
and hardware fences). `HwschedTypes`, `HwschedDetachedIsQuiet`, `HwschedJobListed`
and `HwschedInflight` follow from

    Base == TypeOK /\ Control /\ BatchesKept /\ Holder /\ QueuedCounts /\ JobLevels
            /\ WorkListed /\ NoExpired /\ Gate /\ Marked /\ Drained /\ Stopped

`Control` gives the stack frame of the dispatcher: at which location it has an
object in its hands, and that the context it holds the lock of is its own.
`BatchesKept` says what a sleeping thread is going to queue, `Holder` who may hold
the mutex. `QueuedCounts` (the ring is no longer than its counter) makes the pop
safe. `WorkListed` is `JobListed` with its reasons: the job of a context is
dropped only where the dispatcher has seen an empty queue under the lock
(`InHand`). `Marked` ties the bit DETACHED to the location of the detach, without
which `Drained` (an emptied queue stays empty: `adreno_hwsched_queue_cmds` and
the requeue both test the bits again after their sleep) and `Stopped` (the GMU
runs nothing of the context, or the reset that stops it is on its way) are not
inductive. `Gate` relates `inflight`, the active count and the idle gate; it needs
`NoExpired`, since only hardware fences count an object that is not listed. The
model's sequences are filtered by context and by state; the lemmas on `Only` and
on the outcome of a step (`WalkDisp`, `SendDisp`, `RequeueDisp`, `ReapIs`,
`SignalIs`) say once what those operators keep.

`HwschedQueueNeverOverflows` has the hypothesis `Submitters = 1`, a single thread
that submits to each context: with two the promise is false (Findings). It adds
`Room == SlotsKept /\ Roomy /\ Counted`: a slot is kept for the object that is in
the dispatcher's hands, and a thread that has been told of room still finds it,
since nobody else can take it.

**The order in the scheduler** (`HwschedOrderProofs`; the same generality, with
`Submitters = 1`). `HwschedInOrder`, `HwschedIdleIsIdle` and
`HwschedListedIsInflight` need, on top of `Base` and `Room`,

    Order == Times /\ Lines /\ HandIs /\ BatchesWait /\ EntriesUp
             /\ GmuListed /\ GmuUp /\ GmuAhead /\ Started /\ Blamed

The line of a context is the object in the dispatcher's hands, then the queue;
`Out` is the set of its timestamps on `cmd_list`. `InOrder` alone is not inductive,
because the dispatcher retires markers, bind and timeline objects on the CPU as
soon as they reach the head of the queue, and `InOrder` does not say that nothing
before them is still on the GPU. `Lines` does: `LineInv` says that the line is
ascending and ahead of `Out` and of what has retired, that every marker waits for
all that is before it (`MarkersWait`), and that a bind or timeline object has all
of that behind it or is preceded by a sync object that waits for it (`AuxWaits`,
`SyncsWait`, `SyncsSignal`). `LineChanges`, `LineLeaves` and `LineGrows` prove this of
any line, apart from the scheduler's variables: an object changes its state, the
first one leaves, new ones come behind. The step lemmas (`LineWalks`, `LineSends`,
`LineRequeues`, `LineEnqueues`, `LineFast`, `FaultIs`) map every action to one of the
three. `BatchesWait` is where the one thread per context is needed: the implicit
sync point of a bind or timeline object waits for what was queued last, also after
the thread has slept for room. The other conjuncts follow the commands to the
GMU: they are listed in order, the GMU holds listed ones in order that have not
retired, and the command a fault is blamed on (`Started`, `Blamed`) is one of them,
so that a recovery that retires it by force (`Forced`) overtakes nothing.

`HwschedListedIsInflight` assumes also that hardware fences are off, as its run
does; with them an expired marker is counted in `inflight` and not listed. It adds
`Listing`: what is listed and has not retired is in the GMU unless a fault is
pending (`GmuAll`), and `big_cmdobj` is the big command of the list (`BigIs`,
`BigHand`). Two ascending sequences with the same members are equal
(`RisingUnique`), which turns the sets into the sequences the property compares.

Only model-checked: the liveness properties and with them the fairness part of
`TimelineContract` (TLAPS has no fairness reasoning here). Every invariant and
action property of the passing runs is a theorem, in the scheduler with the
hypotheses just named, which are also those of its runs. `DetachOnce` and
`CallbackToCome` are proved and in no run: the counts the runs check depend on
them.

## Findings

- `hwsched_overflow`: the comments at `gk/adreno_hwsched.c:797` and `:966` say
  that a context queues at most `_context_drawqueue_size - 1` objects "to make
  sure we never let drawqueue->queued exceed _context_drawqueue_size", and the
  dispatcher asserts it with the `WARN_ON` at `:330`. A thread that sleeps for
  room tests its condition in `_check_context_queue`, which gives the lock back,
  and queues after it has taken it again (`:811`) without another test. Two
  threads of one context that wake up for the same room both queue; when the
  dispatcher then puts back the command it had popped, `queued` is one above the
  limit and the ring looks empty. With one thread per context
  (`hwsched_order`) the promise holds.

Met while proving, outside the bounds of what the runs check: `get_active_cmdobj`
(`gk/adreno_hwsched.c:1520`) takes the first listed submission of a context that
is active, which may be one that has retired and is not reaped yet;
`force_retire_timestamp` then sets the retired timestamp back to it.
`kgsl_ioctl_gpu_aux_command` reads the queued timestamp for its implicit sync point
before it takes `drawctxt->lock`, so a command that another thread of the
same context queues in between is overtaken by the bind or timeline object
(`InOrder` fails with two threads and such batches). With hardware fences an
expired marker that was put back may retire after a later one that took the fast
path, which sets the retired timestamp back.

The detach of a context leaves a window for fences. Between `kgsl_cancel_events`
and `kgsl_del_event_group` (`gk/kgsl.c:791` and `:794`) a thread that has taken its
context before the detach can still add the event of a new fence. If the timestamp
is a user timestamp that was never queued, or the GMU refused or did not answer the
detach, the event is listed, nobody looks at the list again, the
`WARN_ON(!list_empty(...))` of `gk/kgsl_events.c:324` can fire, and the fence stays
unsignaled and the context referenced until another signal covers the timestamp,
which may be never. That is the exception in `NoFenceForgotten`; TLC reaches it
(without the exception `ListedIsExpected` is violated). Also, since
`kgsl_sync_fence_event_cb` (`gk/kgsl_sync.c:111`) does not look at its result, a
cancelled event signals its fence and all fences before it without an error though
their timestamps never retire (the last disjunct of `Over`), and a fence that is
created behind such a `last_timestamp` is signaled only when somebody polls or waits
for it (the exception in `PollFindsNothing`).

Three more disagreements of a comment with the code, none with consequences
for the properties above: `_check_context_queue` says that a sleeper wakes up if the
context was invalidated (`gk/adreno_hwsched.c:64`), but returns false for such a
context (`:70`), so that thread sleeps until the timeout or a signal, and
`RoomIsFound` leaves bad contexts out; the plain comparison
at `gk/kgsl_events.c:64` does not ensure, as its comment says, that a timestamp
from before the rollover cannot slip back; `syncobj_destroy` never schedules the
context (`gk/kgsl_drawobj.c:389`), since it has cleared the bits it tests.

## What is left out

- Interrupt contexts: which locks are taken with interrupts off, and puts from
  interrupt handlers on the same CPU (`gk/kgsl_timeline.c:551` and
  `gk/kgsl_sync.c:152` take a lock with interrupts on).
- The global event group, debugfs listings, tracing and logging.
- References that commands and jobs hold on contexts; the context limit and the
  process life cycle.
- Of the fences: the memstore write and the flush of an invalidation are one step
  in `KgslSync` (an event added in between might as well be added before);
  `KgslEvents` has them apart. Timestamps there do not roll over.
- `adreno_hwsched_fault` reads and sets the fault word in two accesses
  (`gk/adreno_hwsched.c:1834`), which are one step in `Hwsched`: two faults at the
  same time may lose the type of one of them, but the recovery from the other still
  runs.
- Hardware fences: no entry of `gk/adreno-gpulist.h` sets `ADRENO_HW_FENCE`
  (`gk/adreno.h:126`), so `ADRENO_HWSCHED_HW_FENCE` is never set at this commit.
  `Hwsched` keeps their effect on expired markers under its constant `HwFence`.
- Of the hardware scheduler: LPAC, recurring commands, the
  legacy form of the context-bad message, and the HFI protocol below
  `submit_drawobj` (a queue with bounded room stands for it).
- A device that is suspended (`halt_gate`) or put to sleep by its idle timer.
- The legacy dispatcher and its fault handler: not used by this platform's GPU.
- What the timer handler prints: it reads the fence of a pending sync point
  without a reference (`gk/kgsl_drawobj.c:200`).
- The creation of command, bind and timeline objects from user input, and the
  memory they refer to.
- Source fences listed after their syncsource was cleaned up (hazard at
  `gk/kgsl_sync.c:727`): the code promises them nothing but the signal of their
  release.
- A fence allocated by a thread that looked its timeline up before the destroy
  (`gk/kgsl_timeline.c:316`): nothing promises its signal, its wait ends by
  timeout. Device instances that are closed (`:541`).
- Profiling buffers: `adreno_hwsched_retire_cmdobj` returns early when one cannot be
  mapped (`gk/adreno_hwsched.c:1123`), and keeps the object and `big_cmdobj`.
- Weak memory: steps are sequentially consistent.

## Plan

Done: `KgslTimeline` with its contract, `KgslTimestamp`, `KgslGroupProgress`,
`KgslEvents`, `KgslSyncObj`, `Hwsched`, `KgslSync`, and the proofs above. No module
has a RECURSIVE operator, so all can be proved about. Next, in this order:

1. `KgslProcess` (`kgsl.c`): open against the last close, context creation and
   its limit, release of everything a process owns.
