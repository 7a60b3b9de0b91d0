---------------------------- MODULE KgslTimeline ----------------------------
(***************************************************************************)
(* The software timelines of the KGSL driver (kgsl_timeline.c): reference  *)
(* counted timeline objects that user space finds by id, and the dma       *)
(* fences that wait for a timeline to reach a sequence number.             *)
(*                                                                         *)
(* Every thread runs one ioctl at a time.  A step is what a thread does    *)
(* between two points where another thread can interfere: a section under  *)
(* device->timelines_lock is one step; timeline->lock and                  *)
(* timeline->fence_lock are variables, because the code holds them across  *)
(* loops in which other threads drop fence references without any lock.    *)
(* Spinlocks are held with interrupts or preemption off, so a thread that  *)
(* waits for one simply has no enabled step.                               *)
(*                                                                         *)
(* dma_fence, dma_fence_array and sync_file are kernel code: they are      *)
(* modelled by the reference counts, the signaled bit and the error that   *)
(* kgsl_timeline.c relies on.                                              *)
(***************************************************************************)
EXTENDS Naturals, Sequences, SequencesExt, FiniteSets

CONSTANTS
    Threads,      \* threads that call the timeline ioctls
    DevPrivs,     \* open device instances (struct kgsl_device_private)
    DevOf,        \* the device instance each thread uses
    Timelines,    \* memory for struct kgsl_timeline
    Fences,       \* memory for struct kgsl_timeline_fence
    Ids,          \* identifiers of device->timelines (an idr)
    MaxSeqno,     \* bound on the u64 sequence numbers
    MaxCount,     \* bound on the entries of one wait ioctl
    None,         \* no object
    Reserved      \* an id allocated with a NULL pointer

ASSUME TimelineAssumption ==
    /\ DevOf \in [Threads -> DevPrivs]
    /\ MaxSeqno \in Nat
    /\ MaxCount \in Nat \ {0}
    /\ None \notin Timelines \cup Fences \cup Threads \cup DevPrivs \cup Ids
    /\ Reserved \notin Timelines \cup {None}
    /\ IsFiniteSet(Threads) /\ IsFiniteSet(Fences) /\ IsFiniteSet(Ids)

VARIABLES
    \* device
    idr,          \* idr[id]: the timeline with that id, Reserved, or None
    \* struct kgsl_timeline
    ref,          \* ref[t]: kref of the timeline; 0 means t is free memory
    value,        \* value[t]: current value of the timeline
    fences,       \* fences[t]: list of active fences
    lock,         \* lock[t]: the thread inside timeline->lock, or None
    fence_lock,   \* fence_lock[t]: the thread inside fence_lock, or None
    owner,        \* owner[t]: timeline->dev_priv
    tid,          \* tid[t]: timeline->id
    \* struct kgsl_timeline_fence
    ftl,          \* ftl[f]: fence->timeline; None means f is free memory
    fseq,         \* fseq[f]: sequence number the fence waits for
    fref,         \* fref[f]: kref of the dma_fence
    sig,          \* sig[f]: the fence is signaled
    err,          \* err[f]: the fence carries the error -ENOENT
    fd,           \* fences that an open sync_file holds
    \* locals of the threads
    pc,           \* where the thread is
    op,           \* what the thread collects fences for
    tl,           \* the timeline the thread holds a reference on, or None
    seq,          \* the sequence number argument
    cur,          \* the fence kgsl_timeline_fence_alloc works on, or None
    idx,          \* position of the scan of timeline->fences
    temp,         \* the list `temp' of signal and destroy
    got,          \* the array `fences' of kgsl_timelines_to_fence_array
    rel           \* the fence inside timeline_fence_release, or None

devVars    == <<idr>>
tlVars     == <<ref, value, fences, lock, fence_lock, owner, tid>>
fenceVars  == <<ftl, fseq, fref, sig, err, fd>>
threadVars == <<pc, op, tl, seq, cur, idx, temp, got, rel>>
vars == <<devVars, tlVars, fenceVars, threadVars>>

Seqno == 0 .. MaxSeqno

PCs == {"idle", "commit",
        "s_lock", "s_scan_lock", "s_scan", "s_signal",
        "f_alloc", "f_lock", "f_add", "f_done",
        "w_next", "w_wait", "w_put", "g_install", "g_put",
        "d_scan_lock", "d_scan", "d_lock", "d_signal",
        "put"}

-----------------------------------------------------------------------------
(***************************************************************************)
(* Helpers.                                                                *)
(***************************************************************************)

\* The thread is at label l of its ioctl and is not inside a fence release.
At(p, l) == pc[p] = l /\ rel[p] = None

Goto(p, l) == pc' = [pc EXCEPT ![p] = l]

\* Memory that kzalloc can return.
FreeTimelines == {t \in Timelines : ref[t] = 0}
FreeFences    == {f \in Fences : ftl[f] = None}

\* timeline_fence_signaled: !__dma_fence_is_later(seqno, value), 64 bit.
timeline_fence_signaled(f) == fseq[f] <= value[ftl[f]]

\* kgsl_timeline_by_id: find the id and take a reference unless it is 0.
kgsl_timeline_by_id(p, id) ==
    /\ idr[id] \in Timelines
    /\ ref[idr[id]] > 0
    /\ ref' = [ref EXCEPT ![idr[id]] = @ + 1]
    /\ tl' = [tl EXCEPT ![p] = idr[id]]

\* kgsl_timeline_put: the last reference runs kgsl_timeline_destroy, which
\* frees the memory (what it held is gone; the list should be empty by then).
kgsl_timeline_put(t) ==
    LET last == ref[t] = 1 IN
    /\ ref' = [ref EXCEPT ![t] = @ - 1]
    /\ value' = [value EXCEPT ![t] = IF last THEN 0 ELSE @]
    /\ owner' = [owner EXCEPT ![t] = IF last THEN None ELSE @]
    /\ tid' = [tid EXCEPT ![t] = IF last THEN None ELSE @]

\* dma_fence_put(f): the last reference calls timeline_fence_release.
dma_fence_put(p, f) ==
    /\ fref' = [fref EXCEPT ![f] = @ - 1]
    /\ rel' = [rel EXCEPT ![p] = IF fref[f] = 1 THEN f ELSE None]

\* A position where the sorted insertion of kgsl_timeline_add_fence puts f:
\* before the first entry with a larger sequence number.
InsertionPoint(s, f, k) ==
    /\ \A i \in 1 .. k - 1 : fseq[s[i]] <= fseq[f]
    /\ k <= Len(s) => fseq[f] < fseq[s[k]]

\* list_del_init of f, if it is on the list s.
Unlink(s, f) ==
    IF \E i \in 1 .. Len(s) : s[i] = f
    THEN RemoveAt(s, CHOOSE i \in 1 .. Len(s) : s[i] = f)
    ELSE s

-----------------------------------------------------------------------------
Init ==
    /\ idr = [id \in Ids |-> None]
    /\ ref = [t \in Timelines |-> 0]
    /\ value = [t \in Timelines |-> 0]
    /\ fences = [t \in Timelines |-> <<>>]
    /\ lock = [t \in Timelines |-> None]
    /\ fence_lock = [t \in Timelines |-> None]
    /\ owner = [t \in Timelines |-> None]
    /\ tid = [t \in Timelines |-> None]
    /\ ftl = [f \in Fences |-> None]
    /\ fseq = [f \in Fences |-> 0]
    /\ fref = [f \in Fences |-> 0]
    /\ sig = [f \in Fences |-> FALSE]
    /\ err = [f \in Fences |-> FALSE]
    /\ fd = {}
    /\ pc = [p \in Threads |-> "idle"]
    /\ op = [p \in Threads |-> "none"]
    /\ tl = [p \in Threads |-> None]
    /\ seq = [p \in Threads |-> 0]
    /\ cur = [p \in Threads |-> None]
    /\ idx = [p \in Threads |-> 0]
    /\ temp = [p \in Threads |-> <<>>]
    /\ got = [p \in Threads |-> <<>>]
    /\ rel = [p \in Threads |-> None]

-----------------------------------------------------------------------------
\* Mutant: the id is not reserved before the pointer is committed.
AllocNotReserved(p) ==
    /\ At(p, "idle")
    /\ \E t \in FreeTimelines, id \in Ids, initial \in Seqno :
        /\ idr[id] = None
        /\ ref' = [ref EXCEPT ![t] = 1]
        /\ value' = [value EXCEPT ![t] = initial]
        /\ owner' = [owner EXCEPT ![t] = DevOf[p]]
        /\ tid' = [tid EXCEPT ![t] = id]
        /\ tl' = [tl EXCEPT ![p] = t]
    /\ Goto(p, "commit")
    /\ UNCHANGED <<devVars, fences, lock, fence_lock, fenceVars,
                   op, seq, cur, idx, temp, got, rel>>

(***************************************************************************)
(* kgsl_ioctl_timeline_create: kgsl_timeline_alloc reserves an id with a   *)
(* NULL pointer and sets up the object; the pointer is committed later.    *)
(***************************************************************************)
kgsl_timeline_alloc(p) ==
    /\ At(p, "idle")
    /\ \E t \in FreeTimelines, id \in Ids, initial \in Seqno :
        /\ idr[id] = None
        /\ idr' = [idr EXCEPT ![id] = Reserved]
        /\ ref' = [ref EXCEPT ![t] = 1]
        /\ value' = [value EXCEPT ![t] = initial]
        /\ fences' = [fences EXCEPT ![t] = <<>>]
        /\ lock' = [lock EXCEPT ![t] = None]
        /\ fence_lock' = [fence_lock EXCEPT ![t] = None]
        /\ owner' = [owner EXCEPT ![t] = DevOf[p]]
        /\ tid' = [tid EXCEPT ![t] = id]
        /\ tl' = [tl EXCEPT ![p] = t]
    /\ Goto(p, "commit")
    /\ UNCHANGED <<fenceVars, op, seq, cur, idx, temp, got, rel>>

\* idr_replace: the reference of kref_init now belongs to the idr.
kgsl_ioctl_timeline_create(p) ==
    /\ At(p, "commit")
    /\ idr' = [idr EXCEPT ![tid[tl[p]]] = tl[p]]
    /\ tl' = [tl EXCEPT ![p] = None]
    /\ Goto(p, "idle")
    /\ UNCHANGED <<tlVars, fenceVars, op, seq, cur, idx, temp, got, rel>>

-----------------------------------------------------------------------------
(***************************************************************************)
(* kgsl_ioctl_timeline_signal: each entry of its array is a lookup, a      *)
(* kgsl_timeline_signal and a put; nothing is held between entries, so an  *)
(* ioctl with n entries is n calls of the same thread in a row.  The       *)
(* retirement of a timeline object of a command calls kgsl_timeline_signal *)
(* the same way, with a reference it took when it was submitted.           *)
(***************************************************************************)
kgsl_ioctl_timeline_signal(p) ==
    /\ At(p, "idle")
    /\ \E id \in Ids, n \in Seqno :
        /\ kgsl_timeline_by_id(p, id)
        /\ seq' = [seq EXCEPT ![p] = n]
    /\ Goto(p, "s_lock")
    /\ UNCHANGED <<devVars, value, fences, lock, fence_lock, owner, tid,
                   fenceVars, op, cur, idx, temp, got, rel>>

\* Mutant: kgsl_timeline_signal without its check of the sequence number.
SignalLockUnchecked(p) ==
    LET t == tl[p] IN
    /\ At(p, "s_lock")
    /\ lock[t] = None
    /\ value' = [value EXCEPT ![t] = seq[p]]
    /\ lock' = [lock EXCEPT ![t] = p]
    /\ Goto(p, "s_scan_lock")
    /\ UNCHANGED <<devVars, ref, fences, fence_lock, owner, tid,
                   fenceVars, op, tl, seq, cur, idx, temp, got, rel>>

\* Take timeline->lock; a seqno below the value changes nothing.
SignalLock(p) ==
    LET t == tl[p] IN
    /\ At(p, "s_lock")
    /\ lock[t] = None
    /\ \/ /\ seq[p] < value[t]
          /\ Goto(p, "put")
          /\ UNCHANGED <<lock, value>>
       \/ /\ seq[p] >= value[t]
          /\ value' = [value EXCEPT ![t] = seq[p]]
          /\ lock' = [lock EXCEPT ![t] = p]
          /\ Goto(p, "s_scan_lock")
    /\ UNCHANGED <<devVars, ref, fences, fence_lock, owner, tid,
                   fenceVars, op, tl, seq, cur, idx, temp, got, rel>>

\* Both scans of timeline->fences start by taking fence_lock.
ScanLock(p) ==
    LET t == tl[p] IN
    /\ At(p, "s_scan_lock") \/ At(p, "d_scan_lock")
    /\ fence_lock[t] = None
    /\ fence_lock' = [fence_lock EXCEPT ![t] = p]
    /\ idx' = [idx EXCEPT ![p] = 1]
    /\ Goto(p, IF pc[p] = "s_scan_lock" THEN "s_scan" ELSE "d_scan")
    /\ UNCHANGED <<devVars, ref, value, fences, lock, owner, tid,
                   fenceVars, op, tl, seq, cur, temp, got, rel>>

\* Mutant: the scan of kgsl_timeline_signal takes every fence it can pin.
SignalScanAll(p) ==
    LET t == tl[p]
        f == fences[t][idx[p]]
    IN
    /\ At(p, "s_scan")
    /\ idx[p] <= Len(fences[t])
    /\ \/ /\ fref[f] > 0
          /\ fref' = [fref EXCEPT ![f] = @ + 1]
          /\ fences' = [fences EXCEPT ![t] = RemoveAt(@, idx[p])]
          /\ temp' = [temp EXCEPT ![p] = <<f>> \o @]
          /\ UNCHANGED idx
       \/ /\ fref[f] = 0
          /\ idx' = [idx EXCEPT ![p] = @ + 1]
          /\ UNCHANGED <<fref, fences, temp>>
    /\ UNCHANGED <<devVars, ref, value, lock, fence_lock, owner, tid,
                   ftl, fseq, sig, err, fd, pc, op, tl, seq, cur, got, rel>>

\* One entry of the scan: list_move an expired fence to temp, unless its
\* reference count is already 0.
SignalScan(p) ==
    LET t == tl[p]
        f == fences[t][idx[p]]
    IN
    /\ At(p, "s_scan")
    /\ idx[p] <= Len(fences[t])
    /\ \/ /\ timeline_fence_signaled(f) /\ fref[f] > 0
          /\ fref' = [fref EXCEPT ![f] = @ + 1]
          /\ fences' = [fences EXCEPT ![t] = RemoveAt(@, idx[p])]
          /\ temp' = [temp EXCEPT ![p] = <<f>> \o @]
          /\ UNCHANGED idx
       \/ /\ ~(timeline_fence_signaled(f) /\ fref[f] > 0)
          /\ idx' = [idx EXCEPT ![p] = @ + 1]
          /\ UNCHANGED <<fref, fences, temp>>
    /\ UNCHANGED <<devVars, ref, value, lock, fence_lock, owner, tid,
                   ftl, fseq, sig, err, fd, pc, op, tl, seq, cur, got, rel>>

SignalScanEnd(p) ==
    LET t == tl[p] IN
    /\ At(p, "s_scan")
    /\ idx[p] > Len(fences[t])
    /\ fence_lock' = [fence_lock EXCEPT ![t] = None]
    /\ idx' = [idx EXCEPT ![p] = 0]
    /\ Goto(p, "s_signal")
    /\ UNCHANGED <<devVars, ref, value, fences, lock, owner, tid,
                   fenceVars, op, tl, seq, cur, temp, got, rel>>

\* dma_fence_signal_locked and dma_fence_put of the next fence on temp.
SignalFence(p) ==
    LET f == Head(temp[p]) IN
    /\ At(p, "s_signal")
    /\ temp[p] # <<>>
    /\ sig' = [sig EXCEPT ![f] = TRUE]
    /\ dma_fence_put(p, f)
    /\ temp' = [temp EXCEPT ![p] = Tail(@)]
    /\ UNCHANGED <<devVars, tlVars, ftl, fseq, err, fd,
                   pc, op, tl, seq, cur, idx, got>>

\* temp is empty: unlock timeline->lock (signal and destroy).
SignalUnlock(p) ==
    /\ At(p, "s_signal") \/ At(p, "d_signal")
    /\ temp[p] = <<>>
    /\ lock' = [lock EXCEPT ![tl[p]] = None]
    /\ Goto(p, "put")
    /\ UNCHANGED <<devVars, ref, value, fences, fence_lock, owner, tid,
                   fenceVars, op, tl, seq, cur, idx, temp, got, rel>>

\* The ioctl ends by dropping its timeline reference.
PutTimeline(p) ==
    /\ At(p, "put")
    /\ kgsl_timeline_put(tl[p])
    /\ tl' = [tl EXCEPT ![p] = None]
    /\ seq' = [seq EXCEPT ![p] = 0]
    /\ op' = [op EXCEPT ![p] = "none"]
    /\ Goto(p, "idle")
    /\ UNCHANGED <<devVars, fences, lock, fence_lock,
                   fenceVars, cur, idx, temp, got, rel>>

-----------------------------------------------------------------------------
(***************************************************************************)
(* kgsl_timeline_fence_alloc, called for each entry of a wait ioctl and by *)
(* kgsl_ioctl_timeline_fence_get.                                          *)
(***************************************************************************)
\* Start of kgsl_ioctl_timeline_wait and kgsl_ioctl_timeline_fence_get, and
\* the next entry of the wait array: look the timeline up.
FenceLookup(p) ==
    /\ \/ /\ At(p, "idle")
          /\ \E o \in {"any", "all", "get"} : op' = [op EXCEPT ![p] = o]
       \/ /\ At(p, "w_next")
          /\ Len(got[p]) < MaxCount
          /\ UNCHANGED op
    /\ \E id \in Ids, n \in Seqno :
        /\ kgsl_timeline_by_id(p, id)
        /\ seq' = [seq EXCEPT ![p] = n]
    /\ Goto(p, "f_alloc")
    /\ UNCHANGED <<devVars, value, fences, lock, fence_lock, owner, tid,
                   fenceVars, cur, idx, temp, got, rel>>

\* Mutant: the fence does not take a reference on its timeline.
FenceAllocNoGet(p) ==
    LET t == tl[p] IN
    /\ At(p, "f_alloc")
    /\ \E f \in FreeFences :
        /\ ftl' = [ftl EXCEPT ![f] = t]
        /\ fseq' = [fseq EXCEPT ![f] = seq[p]]
        /\ fref' = [fref EXCEPT ![f] = 1]
        /\ cur' = [cur EXCEPT ![p] = f]
    /\ Goto(p, "f_lock")
    /\ UNCHANGED <<devVars, tlVars, sig, err, fd,
                   op, tl, seq, idx, temp, got, rel>>

\* kzalloc, kgsl_timeline_get and dma_fence_init.
kgsl_timeline_fence_alloc(p) ==
    LET t == tl[p] IN
    /\ At(p, "f_alloc")
    /\ ref[t] > 0
    /\ \E f \in FreeFences :
        /\ ftl' = [ftl EXCEPT ![f] = t]
        /\ fseq' = [fseq EXCEPT ![f] = seq[p]]
        /\ fref' = [fref EXCEPT ![f] = 1]
        /\ sig' = [sig EXCEPT ![f] = FALSE]
        /\ err' = [err EXCEPT ![f] = FALSE]
        /\ cur' = [cur EXCEPT ![p] = f]
    /\ ref' = [ref EXCEPT ![t] = @ + 1]
    /\ Goto(p, "f_lock")
    /\ UNCHANGED <<devVars, value, fences, lock, fence_lock, owner, tid, fd,
                   op, tl, seq, idx, temp, got, rel>>

\* -ENOMEM or -ENOENT: a wait puts the timeline and then the fences it has
\* collected, a fence_get only the timeline.
FenceAllocFails(p) ==
    /\ At(p, "f_alloc")
    /\ \/ /\ op[p] = "get"
          /\ Goto(p, "put")
          /\ UNCHANGED <<ref, value, owner, tid, tl>>
       \/ /\ op[p] \in {"any", "all"}
          /\ kgsl_timeline_put(tl[p])
          /\ tl' = [tl EXCEPT ![p] = None]
          /\ Goto(p, "w_put")
    /\ UNCHANGED <<devVars, fences, lock, fence_lock,
                   fenceVars, op, seq, cur, idx, temp, got, rel>>

\* Mutant: the lock is dropped between the check and the insertion.
FenceCheckUnlocked(p) ==
    LET f == cur[p] IN
    /\ At(p, "f_lock")
    /\ lock[tl[p]] = None
    /\ \/ /\ timeline_fence_signaled(f)
          /\ sig' = [sig EXCEPT ![f] = TRUE]
          /\ Goto(p, "f_done")
       \/ /\ ~timeline_fence_signaled(f)
          /\ Goto(p, "f_add")
          /\ UNCHANGED sig
    /\ UNCHANGED <<devVars, tlVars, ftl, fseq, fref, err, fd,
                   op, tl, seq, cur, idx, temp, got, rel>>

\* Under timeline->lock: a fence that has already expired is signaled on the
\* spot; another one is added to the list before the lock is dropped.
FenceLock(p) ==
    LET t == tl[p]
        f == cur[p]
    IN
    /\ At(p, "f_lock")
    /\ lock[t] = None
    /\ \/ /\ timeline_fence_signaled(f)
          /\ sig' = [sig EXCEPT ![f] = TRUE]
          /\ Goto(p, "f_done")
          /\ UNCHANGED lock
       \/ /\ ~timeline_fence_signaled(f)
          /\ lock' = [lock EXCEPT ![t] = p]
          /\ Goto(p, "f_add")
          /\ UNCHANGED sig
    /\ UNCHANGED <<devVars, ref, value, fences, fence_lock, owner, tid,
                   ftl, fseq, fref, err, fd,
                   op, tl, seq, cur, idx, temp, got, rel>>

\* kgsl_timeline_add_fence, then timeline->lock is released.
kgsl_timeline_add_fence(p) ==
    LET t == tl[p]
        f == cur[p]
    IN
    /\ At(p, "f_add")
    /\ fence_lock[t] = None
    /\ \E k \in 1 .. Len(fences[t]) + 1 :
        /\ InsertionPoint(fences[t], f, k)
        /\ fences' = [fences EXCEPT ![t] = InsertAt(@, k, f)]
    /\ lock' = [lock EXCEPT ![t] = None]
    /\ Goto(p, "f_done")
    /\ UNCHANGED <<devVars, ref, value, fence_lock, owner, tid, fenceVars,
                   op, tl, seq, cur, idx, temp, got, rel>>

-----------------------------------------------------------------------------
(***************************************************************************)
(* kgsl_ioctl_timeline_wait.                                               *)
(***************************************************************************)
\* The fence is stored in the array and the timeline reference dropped.
WaitCollect(p) ==
    /\ At(p, "f_done")
    /\ op[p] \in {"any", "all"}
    /\ got' = [got EXCEPT ![p] = Append(@, cur[p])]
    /\ cur' = [cur EXCEPT ![p] = None]
    /\ kgsl_timeline_put(tl[p])
    /\ tl' = [tl EXCEPT ![p] = None]
    /\ Goto(p, "w_next")
    /\ UNCHANGED <<devVars, fences, lock, fence_lock,
                   fenceVars, op, seq, idx, temp, rel>>

\* All entries are collected: one fence is used as it is, several are put
\* in a dma_fence_array, which takes over their references.
WaitStart(p) ==
    /\ At(p, "w_next")
    /\ Goto(p, "w_wait")
    /\ UNCHANGED <<devVars, tlVars, fenceVars,
                   op, tl, seq, cur, idx, temp, got, rel>>

\* A bad entry, an unknown id or no memory for the array.
WaitError(p) ==
    /\ At(p, "w_next")
    /\ Goto(p, "w_put")
    /\ UNCHANGED <<devVars, tlVars, fenceVars,
                   op, tl, seq, cur, idx, temp, got, rel>>

\* The fence the wait sleeps on is signaled: with KGSL_TIMELINE_WAIT_ANY
\* when one of its fences is, otherwise when all are.
WaitOver(p) ==
    IF op[p] = "any" THEN \E f \in Range(got[p]) : sig[f]
                     ELSE \A f \in Range(got[p]) : sig[f]

WaitReturn(p) ==
    /\ At(p, "w_wait")
    /\ WaitOver(p)
    /\ Goto(p, "w_put")
    /\ UNCHANGED <<devVars, tlVars, fenceVars,
                   op, tl, seq, cur, idx, temp, got, rel>>

\* -ETIMEDOUT, -EBUSY (zero timeout) or an interrupted wait.
WaitTimeout(p) ==
    /\ At(p, "w_wait")
    /\ ~WaitOver(p)
    /\ Goto(p, "w_put")
    /\ UNCHANGED <<devVars, tlVars, fenceVars,
                   op, tl, seq, cur, idx, temp, got, rel>>

\* The fences, or the array that holds them, are put.
WaitPut(p) ==
    /\ At(p, "w_put")
    /\ \/ /\ got[p] # <<>>
          /\ dma_fence_put(p, Head(got[p]))
          /\ got' = [got EXCEPT ![p] = Tail(@)]
          /\ UNCHANGED <<pc, op, seq>>
       \/ /\ got[p] = <<>>
          /\ Goto(p, "idle")
          /\ op' = [op EXCEPT ![p] = "none"]
          /\ seq' = [seq EXCEPT ![p] = 0]
          /\ UNCHANGED <<fref, rel, got>>
    /\ UNCHANGED <<devVars, tlVars, ftl, fseq, sig, err, fd,
                   tl, cur, idx, temp>>

-----------------------------------------------------------------------------
(***************************************************************************)
(* kgsl_ioctl_timeline_fence_get, the sync_file it creates, and polling.   *)
(***************************************************************************)
\* sync_file_create takes a reference and fd_install publishes the file;
\* both can fail.
FenceGetInstall(p) ==
    /\ At(p, "f_done")
    /\ op[p] = "get"
    /\ \/ /\ fref' = [fref EXCEPT ![cur[p]] = @ + 1]
          /\ fd' = fd \cup {cur[p]}
       \/ UNCHANGED <<fref, fd>>
    /\ Goto(p, "g_put")
    /\ UNCHANGED <<devVars, tlVars, ftl, fseq, sig, err,
                   op, tl, seq, cur, idx, temp, got, rel>>

\* Mutant: fence_get keeps its own fence reference.
FenceGetLeaks(p) ==
    /\ At(p, "g_put")
    /\ cur' = [cur EXCEPT ![p] = None]
    /\ Goto(p, "put")
    /\ UNCHANGED <<devVars, tlVars, fenceVars,
                   op, tl, seq, idx, temp, got, rel>>

\* out: dma_fence_put; kgsl_timeline_put follows.
kgsl_ioctl_timeline_fence_get(p) ==
    /\ At(p, "g_put")
    /\ dma_fence_put(p, cur[p])
    /\ cur' = [cur EXCEPT ![p] = None]
    /\ Goto(p, "put")
    /\ UNCHANGED <<devVars, tlVars, ftl, fseq, sig, err, fd,
                   op, tl, seq, idx, temp, got>>

\* User space closes the file descriptor.
CloseFd(p) ==
    /\ At(p, "idle")
    /\ \E f \in fd :
        /\ fd' = fd \ {f}
        /\ dma_fence_put(p, f)
    /\ UNCHANGED <<devVars, tlVars, ftl, fseq, sig, err,
                   pc, op, tl, seq, cur, idx, temp, got>>

\* The fences somebody may poll or enable signaling on: those behind a file
\* and those a wait sleeps on.
Pollable(f) == f \in fd \/ \E p \in Threads : pc[p] = "w_wait" /\ f \in Range(got[p])

\* dma_fence_is_signaled and enable_signaling find that the fence has passed
\* (timeline_fence_signaled reads the value without the lock, and the value
\* never decreases) and signal it under timeline->lock.
Poll(f) ==
    /\ Pollable(f)
    /\ timeline_fence_signaled(f)
    /\ lock[ftl[f]] = None
    /\ ~sig[f]
    /\ sig' = [sig EXCEPT ![f] = TRUE]
    /\ UNCHANGED <<devVars, tlVars, ftl, fseq, fref, err, fd, threadVars>>

\* Mutant: the release leaves the fence on the list.
ReleaseListed(p) ==
    LET f == rel[p]
        t == ftl[f]
    IN
    /\ f # None
    /\ kgsl_timeline_put(t)
    /\ ftl' = [ftl EXCEPT ![f] = None]
    /\ fseq' = [fseq EXCEPT ![f] = 0]
    /\ sig' = [sig EXCEPT ![f] = FALSE]
    /\ err' = [err EXCEPT ![f] = FALSE]
    /\ rel' = [rel EXCEPT ![p] = None]
    /\ UNCHANGED <<devVars, fences, lock, fence_lock, fref, fd,
                   pc, op, tl, seq, cur, idx, temp, got>>

\* timeline_fence_release: take the fence off the list if it is still there,
\* put the timeline and free the fence (what the memory held is gone).
timeline_fence_release(p) ==
    LET f == rel[p]
        t == ftl[f]
    IN
    /\ f # None
    /\ fence_lock[t] = None
    /\ fences' = [fences EXCEPT ![t] = Unlink(@, f)]
    /\ kgsl_timeline_put(t)
    /\ ftl' = [ftl EXCEPT ![f] = None]
    /\ fseq' = [fseq EXCEPT ![f] = 0]
    /\ sig' = [sig EXCEPT ![f] = FALSE]
    /\ err' = [err EXCEPT ![f] = FALSE]
    /\ rel' = [rel EXCEPT ![p] = None]
    /\ UNCHANGED <<devVars, lock, fence_lock, fref, fd,
                   pc, op, tl, seq, cur, idx, temp, got>>

-----------------------------------------------------------------------------
(***************************************************************************)
(* kgsl_ioctl_timeline_query reads the value between lookup and put.       *)
(***************************************************************************)
kgsl_ioctl_timeline_query(p) ==
    /\ At(p, "idle")
    /\ \E id \in Ids : kgsl_timeline_by_id(p, id)
    /\ Goto(p, "put")
    /\ UNCHANGED <<devVars, value, fences, lock, fence_lock, owner, tid,
                   fenceVars, op, seq, cur, idx, temp, got, rel>>

(***************************************************************************)
(* kgsl_ioctl_timeline_destroy.                                            *)
(***************************************************************************)
\* Remove the id, if the caller's device instance owns the timeline; the
\* idr's reference passes to the thread.
kgsl_ioctl_timeline_destroy(p) ==
    /\ At(p, "idle")
    /\ \E id \in Ids :
        /\ idr[id] \in Timelines
        /\ owner[idr[id]] = DevOf[p]
        /\ idr' = [idr EXCEPT ![id] = None]
        /\ tl' = [tl EXCEPT ![p] = idr[id]]
    /\ Goto(p, "d_scan_lock")
    /\ UNCHANGED <<tlVars, fenceVars, op, seq, cur, idx, temp, got, rel>>

\* One entry of the scan: take a reference, or unlink a dead fence.
DestroyScan(p) ==
    LET t == tl[p]
        f == fences[t][idx[p]]
    IN
    /\ At(p, "d_scan")
    /\ idx[p] <= Len(fences[t])
    /\ \/ /\ fref[f] > 0
          /\ fref' = [fref EXCEPT ![f] = @ + 1]
          /\ idx' = [idx EXCEPT ![p] = @ + 1]
          /\ UNCHANGED fences
       \/ /\ fref[f] = 0
          /\ fences' = [fences EXCEPT ![t] = RemoveAt(@, idx[p])]
          /\ UNCHANGED <<fref, idx>>
    /\ UNCHANGED <<devVars, ref, value, lock, fence_lock, owner, tid,
                   ftl, fseq, sig, err, fd,
                   pc, op, tl, seq, cur, temp, got, rel>>

\* list_replace_init: temp takes over the list.
DestroyScanEnd(p) ==
    LET t == tl[p] IN
    /\ At(p, "d_scan")
    /\ idx[p] > Len(fences[t])
    /\ temp' = [temp EXCEPT ![p] = fences[t]]
    /\ fences' = [fences EXCEPT ![t] = <<>>]
    /\ fence_lock' = [fence_lock EXCEPT ![t] = None]
    /\ idx' = [idx EXCEPT ![p] = 0]
    /\ Goto(p, "d_lock")
    /\ UNCHANGED <<devVars, ref, value, lock, owner, tid,
                   fenceVars, op, tl, seq, cur, got, rel>>

DestroyLock(p) ==
    /\ At(p, "d_lock")
    /\ lock[tl[p]] = None
    /\ lock' = [lock EXCEPT ![tl[p]] = p]
    /\ Goto(p, "d_signal")
    /\ UNCHANGED <<devVars, ref, value, fences, fence_lock, owner, tid,
                   fenceVars, op, tl, seq, cur, idx, temp, got, rel>>

\* Mutant: destroy sets the error and does not signal.
DestroyFenceSilent(p) ==
    LET f == Head(temp[p]) IN
    /\ At(p, "d_signal")
    /\ temp[p] # <<>>
    /\ err' = [err EXCEPT ![f] = TRUE]
    /\ dma_fence_put(p, f)
    /\ temp' = [temp EXCEPT ![p] = Tail(@)]
    /\ UNCHANGED <<devVars, tlVars, ftl, fseq, sig, fd,
                   pc, op, tl, seq, cur, idx, got>>

\* dma_fence_set_error(-ENOENT), dma_fence_signal_locked, dma_fence_put.
DestroyFence(p) ==
    LET f == Head(temp[p]) IN
    /\ At(p, "d_signal")
    /\ temp[p] # <<>>
    /\ err' = [err EXCEPT ![f] = TRUE]
    /\ sig' = [sig EXCEPT ![f] = TRUE]
    /\ dma_fence_put(p, f)
    /\ temp' = [temp EXCEPT ![p] = Tail(@)]
    /\ UNCHANGED <<devVars, tlVars, ftl, fseq, fd,
                   pc, op, tl, seq, cur, idx, got>>

-----------------------------------------------------------------------------
\* What a thread does inside an ioctl, without choosing to start one.
Step(p) ==
    \/ kgsl_ioctl_timeline_create(p)
    \/ SignalLock(p) \/ ScanLock(p) \/ SignalScan(p) \/ SignalScanEnd(p)
    \/ SignalFence(p) \/ SignalUnlock(p) \/ PutTimeline(p)
    \/ kgsl_timeline_fence_alloc(p) \/ FenceAllocFails(p)
    \/ FenceLock(p) \/ kgsl_timeline_add_fence(p)
    \/ WaitCollect(p) \/ WaitStart(p) \/ WaitReturn(p) \/ WaitPut(p)
    \/ FenceGetInstall(p) \/ kgsl_ioctl_timeline_fence_get(p)
    \/ timeline_fence_release(p)
    \/ DestroyScan(p) \/ DestroyScanEnd(p) \/ DestroyLock(p)
    \/ DestroyFence(p)

\* What user space and the clock may choose to do.
Choose(p) ==
    \/ kgsl_timeline_alloc(p) \/ kgsl_ioctl_timeline_signal(p)
    \/ FenceLookup(p) \/ WaitError(p) \/ WaitTimeout(p) \/ CloseFd(p)
    \/ kgsl_ioctl_timeline_query(p) \/ kgsl_ioctl_timeline_destroy(p)

Next ==
    \/ \E p \in Threads : Step(p) \/ Choose(p)
    \/ \E f \in Fences : Poll(f)

Spec == Init /\ [][Next]_vars

-----------------------------------------------------------------------------
(***************************************************************************)
(* Invariants.                                                             *)
(***************************************************************************)

\* Every variable has its type: kgsl_timeline.h and the locals of the ioctls.
TypeOK ==
    /\ idr \in [Ids -> Timelines \cup {None, Reserved}]
    /\ ref \in [Timelines -> Nat]
    /\ value \in [Timelines -> Seqno]
    /\ fences \in [Timelines -> Seq(Fences)]
    /\ lock \in [Timelines -> Threads \cup {None}]
    /\ fence_lock \in [Timelines -> Threads \cup {None}]
    /\ owner \in [Timelines -> DevPrivs \cup {None}]
    /\ tid \in [Timelines -> Ids \cup {None}]
    /\ ftl \in [Fences -> Timelines \cup {None}]
    /\ fseq \in [Fences -> Seqno]
    /\ fref \in [Fences -> Nat]
    /\ sig \in [Fences -> BOOLEAN]
    /\ err \in [Fences -> BOOLEAN]
    /\ fd \subseteq Fences
    /\ pc \in [Threads -> PCs]
    /\ op \in [Threads -> {"none", "any", "all", "get"}]
    /\ tl \in [Threads -> Timelines \cup {None}]
    /\ seq \in [Threads -> Seqno]
    /\ cur \in [Threads -> Fences \cup {None}]
    /\ idx \in [Threads -> Nat]
    /\ temp \in [Threads -> Seq(Fences)]
    /\ got \in [Threads -> Seq(Fences)]
    /\ rel \in [Threads -> Fences \cup {None}]

\* Who holds a reference on timeline t: the idr, threads and fences.
IdrRefs(t)    == {id \in Ids : idr[id] = t}
ThreadRefs(t) == {p \in Threads : tl[p] = t}
FenceRefs(t)  == {f \in Fences : ftl[f] = t}

\* The kref of a timeline counts exactly its users: the idr entry, the
\* threads that looked it up or are creating it, and the fences on it
\* (kgsl_timeline_get/put, kgsl_timeline.h:75-95).  A timeline that somebody
\* can still reach is never free memory, and an unreachable one is freed.
TimelineRefCount ==
    \A t \in Timelines :
        ref[t] = Cardinality(IdrRefs(t)) + Cardinality(ThreadRefs(t))
                 + Cardinality(FenceRefs(t))

\* The fences whose reference signal or destroy took during its scan and has
\* not put yet.
ScanRefs(p) ==
    Range(temp[p]) \cup
    (IF pc[p] = "d_scan" THEN {fences[tl[p]][i] : i \in 1 .. idx[p] - 1} ELSE {})

\* The kref of a fence counts exactly its users: the thread that allocates
\* it, the arrays of waits, an open file, and the signal or destroy that
\* pinned it with kref_get_unless_zero.
FenceRefCount ==
    \A f \in Fences :
        fref[f] = Cardinality({p \in Threads : cur[p] = f})
                + Cardinality({p \in Threads : f \in Range(got[p])})
                + Cardinality({p \in Threads : f \in ScanRefs(p)})
                + (IF f \in fd THEN 1 ELSE 0)

\* A fence whose count is 0 is inside exactly one timeline_fence_release, and
\* memory that has been released is on no list: the list walks of signal,
\* destroy and add_fence never touch a freed fence.
NoFreedFenceListed ==
    /\ \A f \in Fences :
        Cardinality({p \in Threads : rel[p] = f})
            = (IF ftl[f] # None /\ fref[f] = 0 THEN 1 ELSE 0)
    /\ \A t \in Timelines : \A f \in Range(fences[t]) : ftl[f] = t
    /\ \A p \in Threads : \A f \in ScanRefs(p) \cup Range(got[p]) :
        ftl[f] # None /\ fref[f] > 0

\* Somebody is still going to signal f: its allocation has not checked it
\* yet, or a signal or destroy in progress will.
SignalOwed(f) ==
    \E p \in Threads :
        \/ pc[p] = "f_lock" /\ cur[p] = f
        \/ f \in Range(temp[p])
        \/ pc[p] = "s_scan_lock" /\ f \in Range(fences[tl[p]])
        \/ /\ pc[p] = "s_scan"
           /\ \E i \in idx[p] .. Len(fences[tl[p]]) : fences[tl[p]][i] = f

\* No fence misses its signal: a live fence whose sequence number the
\* timeline has reached is signaled, or a thread in progress owes it the
\* signal.  This is the race the comment at kgsl_timeline.c:310 is about.
NoLostSignal ==
    \A f \in Fences :
        ftl[f] # None /\ fref[f] > 0 /\ timeline_fence_signaled(f) /\ ~sig[f]
            => SignalOwed(f)

\* A fence never fires early: it is signaled without an error only when the
\* value of its timeline is greater or equal to its sequence number
\* (kgsl_timeline.h:57), and with an error only once the id is gone.
NoEarlySignal ==
    \A f \in Fences :
        ftl[f] # None /\ sig[f] =>
            IF err[f] THEN ftl[f] \notin Range(idr) ELSE timeline_fence_signaled(f)

\* The WARN_ON of kgsl_timeline_destroy (kgsl_timeline.c:102): no fence is on
\* the list of a timeline that is freed.
NoFencesAtDestroy == \A t \in FreeTimelines : fences[t] = <<>>

\* An id names one timeline: the entry the idr keeps under an id is the
\* timeline that was given this id, and an id handed out by
\* kgsl_timeline_alloc (kgsl_timeline.c:133) stays reserved for it until the
\* pointer is committed (kgsl_timeline.c:340), so no timeline is lost by a
\* second one that replaces it.
IdNamesOneTimeline ==
    /\ \A id \in Ids : idr[id] \in Timelines => tid[idr[id]] = id
    /\ \A p \in Threads : pc[p] = "commit" => idr[tid[tl[p]]] = Reserved

-----------------------------------------------------------------------------
(***************************************************************************)
(* Action properties.                                                      *)
(***************************************************************************)

\* The value of a living timeline never decreases, although two signals may
\* race (kgsl_timeline.c:267).
ValueNeverDecreases ==
    [][\A t \in Timelines :
        ref[t] > 0 /\ ref'[t] > 0 => value'[t] >= value[t]]_vars

-----------------------------------------------------------------------------
(***************************************************************************)
(* Liveness and refinement.                                                *)
(***************************************************************************)

\* A thread inside an ioctl keeps running, and a queued spinlock is granted
\* in the order in which it was asked for, so a thread that can take its next
\* step again and again takes it.  Nobody has to start an ioctl, close a
\* file, poll, or let a wait time out.
FairSpec == Spec /\ \A p \in Threads : SF_vars(Step(p))

\* A wait whose condition the timelines have met returns, without its timeout:
\* KGSL_TIMELINE_WAIT_ALL and _ANY of msm_kgsl.h:1933.
WaitReturns ==
    \A p \in Threads :
        (/\ pc[p] = "w_wait"
         /\ IF op[p] = "any"
            THEN \E f \in Range(got[p]) : timeline_fence_signaled(f)
            ELSE \A f \in Range(got[p]) : timeline_fence_signaled(f))
        ~> (pc[p] # "w_wait")

\* Destroying a timeline wakes everybody: a fence that is on the list when the
\* id is removed is signaled, unless its users drop it first.
DestroyWakesAll ==
    \A p \in Threads, f \in Fences :
        (pc[p] = "d_scan_lock" /\ f \in Range(fences[tl[p]]))
        ~> (sig[f] \/ fref[f] = 0)

\* A fence is abstractly gone when its last reference is.
FenceState ==
    [f \in Fences |->
        IF ftl[f] = None \/ fref[f] = 0 THEN "free"
        ELSE IF ~sig[f] THEN "pending"
        ELSE IF err[f] THEN "failed" ELSE "done"]

\* The driver keeps the contract its users rely on.
Contract == INSTANCE TimelineContract WITH
    published <- {t \in Timelines :
                    \/ t \in Range(idr)
                    \/ \E p \in Threads : pc[p] = "commit" /\ tl[p] = t},
    live <- {t \in Timelines : ref[t] > 0},
    on <- ftl,
    target <- fseq,
    state <- FenceState

\* The driver also keeps the contract's promise that a fence whose number is
\* reached does not stay pending (kgsl_timeline_signal, kgsl_timeline.c:274).
ImplementsContract == Contract!Spec
=============================================================================
