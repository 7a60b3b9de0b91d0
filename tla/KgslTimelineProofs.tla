------------------------- MODULE KgslTimelineProofs -------------------------
(***************************************************************************)
(* Proofs about the software timelines, for any number of threads,         *)
(* timelines, fences and ids: the value of a timeline never goes back, the *)
(* reference counts are exact, no list holds a freed fence, no fence fires *)
(* early and none is missed.                                               *)
(***************************************************************************)
EXTENDS KgslTimeline, Integers, FiniteSetTheorems, SequenceTheorems, TLAPS

-----------------------------------------------------------------------------
(***************************************************************************)
(* The value of a timeline.                                                *)
(***************************************************************************)
\* The numbers of the model are numbers; the reference counts may be any
\* integers here, this part does not depend on their being exact.
Numbers ==
    /\ ref \in [Timelines -> Int]
    /\ value \in [Timelines -> Seqno]
    /\ seq \in [Threads -> Seqno]

\* The value of every timeline that stays in use is at least what it was.
Forward ==
    \A t \in Timelines : ref[t] > 0 /\ ref'[t] > 0 => value'[t] >= value[t]

\* 0 is a sequence number.
LEMMA ZeroSeqno == 0 \in Seqno
  BY TimelineAssumption DEF Seqno

\* kgsl_timeline_put, also when it frees the timeline, keeps the numbers.
LEMMA PutNumbers ==
    ASSUME Numbers, NEW t, kgsl_timeline_put(t)
    PROVE  ref' \in [Timelines -> Int] /\ value' \in [Timelines -> Seqno]
  <1>1. ref' \in [Timelines -> Int]
    <2>1. CASE t \in Timelines
      <3>1. ref[t] - 1 \in Int
        BY <2>1 DEF Numbers
      <3>2. QED
        BY <3>1 DEF Numbers, kgsl_timeline_put
    <2>2. CASE t \notin Timelines
      BY <2>2 DEF Numbers, kgsl_timeline_put
    <2>3. QED
      BY <2>1, <2>2
  <1>2. value' \in [Timelines -> Seqno]
    BY ZeroSeqno DEF Numbers, kgsl_timeline_put
  <1>3. QED
    BY <1>1, <1>2

\* Every step keeps the numbers.
LEMMA NumbersStep ==
    ASSUME Numbers, [Next]_vars
    PROVE  Numbers'
  <1>1. ASSUME NEW p \in Threads, kgsl_ioctl_timeline_create(p)
        PROVE  Numbers'
    BY <1>1
       DEF kgsl_ioctl_timeline_create, tlVars, threadVars, Numbers, Seqno
  <1>2. ASSUME NEW p \in Threads, SignalLock(p)
        PROVE  Numbers'
    BY <1>2
       DEF SignalLock, At, tlVars, threadVars, Numbers, Seqno
  <1>3. ASSUME NEW p \in Threads, ScanLock(p)
        PROVE  Numbers'
    BY <1>3
       DEF ScanLock, tlVars, threadVars, Numbers, Seqno
  <1>4. ASSUME NEW p \in Threads, SignalScan(p)
        PROVE  Numbers'
    BY <1>4
       DEF SignalScan, tlVars, threadVars, Numbers, Seqno
  <1>5. ASSUME NEW p \in Threads, SignalScanEnd(p)
        PROVE  Numbers'
    BY <1>5
       DEF SignalScanEnd, tlVars, threadVars, Numbers, Seqno
  <1>6. ASSUME NEW p \in Threads, SignalFence(p)
        PROVE  Numbers'
    BY <1>6
       DEF SignalFence, tlVars, threadVars, Numbers, Seqno
  <1>7. ASSUME NEW p \in Threads, SignalUnlock(p)
        PROVE  Numbers'
    BY <1>7
       DEF SignalUnlock, tlVars, threadVars, Numbers, Seqno
  <1>8. ASSUME NEW p \in Threads, PutTimeline(p)
        PROVE  Numbers'
    <2>1. ref' \in [Timelines -> Int] /\ value' \in [Timelines -> Seqno]
      BY <1>8, PutNumbers DEF PutTimeline
    <2>2. seq' \in [Threads -> Seqno]
      BY <1>8, ZeroSeqno DEF PutTimeline, threadVars, Numbers
    <2>3. QED
      BY <2>1, <2>2 DEF Numbers
  <1>9. ASSUME NEW p \in Threads, kgsl_timeline_fence_alloc(p)
        PROVE  Numbers'
    <2>1. ref' \in [Timelines -> Int] /\ value' \in [Timelines -> Seqno]
      <3>1. CASE tl[p] \in Timelines
        <4>1. ref[tl[p]] + 1 \in Int
          BY <3>1 DEF Numbers
        <4>2. QED
          BY <1>9, <4>1 DEF kgsl_timeline_fence_alloc, Numbers
      <3>2. CASE tl[p] \notin Timelines
        BY <1>9, <3>2 DEF kgsl_timeline_fence_alloc, Numbers
      <3>3. QED
        BY <3>1, <3>2
    <2>2. seq' \in [Threads -> Seqno]
      BY <1>9, ZeroSeqno DEF kgsl_timeline_fence_alloc, threadVars, Numbers
    <2>3. QED
      BY <2>1, <2>2 DEF Numbers
  <1>10. ASSUME NEW p \in Threads, FenceAllocFails(p)
        PROVE  Numbers'
    <2>1. ref' \in [Timelines -> Int] /\ value' \in [Timelines -> Seqno]
      BY <1>10, PutNumbers DEF FenceAllocFails, Numbers
    <2>2. seq' \in [Threads -> Seqno]
      BY <1>10, ZeroSeqno DEF FenceAllocFails, threadVars, Numbers
    <2>3. QED
      BY <2>1, <2>2 DEF Numbers
  <1>11. ASSUME NEW p \in Threads, FenceLock(p)
        PROVE  Numbers'
    BY <1>11
       DEF FenceLock, tlVars, threadVars, Numbers, Seqno
  <1>12. ASSUME NEW p \in Threads, kgsl_timeline_add_fence(p)
        PROVE  Numbers'
    BY <1>12
       DEF kgsl_timeline_add_fence, tlVars, threadVars, Numbers, Seqno
  <1>13. ASSUME NEW p \in Threads, WaitCollect(p)
        PROVE  Numbers'
    <2>1. ref' \in [Timelines -> Int] /\ value' \in [Timelines -> Seqno]
      BY <1>13, PutNumbers DEF WaitCollect
    <2>2. seq' \in [Threads -> Seqno]
      BY <1>13, ZeroSeqno DEF WaitCollect, threadVars, Numbers
    <2>3. QED
      BY <2>1, <2>2 DEF Numbers
  <1>14. ASSUME NEW p \in Threads, WaitStart(p)
        PROVE  Numbers'
    BY <1>14
       DEF WaitStart, tlVars, threadVars, Numbers, Seqno
  <1>15. ASSUME NEW p \in Threads, WaitReturn(p)
        PROVE  Numbers'
    BY <1>15
       DEF WaitReturn, tlVars, threadVars, Numbers, Seqno
  <1>16. ASSUME NEW p \in Threads, WaitPut(p)
        PROVE  Numbers'
    <2>1. ref' \in [Timelines -> Int] /\ value' \in [Timelines -> Seqno]
      BY <1>16 DEF WaitPut, tlVars, Numbers
    <2>2. seq' \in [Threads -> Seqno]
      BY <1>16, ZeroSeqno DEF WaitPut, threadVars, Numbers
    <2>3. QED
      BY <2>1, <2>2 DEF Numbers
  <1>17. ASSUME NEW p \in Threads, FenceGetInstall(p)
        PROVE  Numbers'
    BY <1>17
       DEF FenceGetInstall, tlVars, threadVars, Numbers, Seqno
  <1>18. ASSUME NEW p \in Threads, kgsl_ioctl_timeline_fence_get(p)
        PROVE  Numbers'
    BY <1>18
       DEF kgsl_ioctl_timeline_fence_get, tlVars, threadVars, Numbers, Seqno
  <1>19. ASSUME NEW p \in Threads, timeline_fence_release(p)
        PROVE  Numbers'
    <2>1. ref' \in [Timelines -> Int] /\ value' \in [Timelines -> Seqno]
      BY <1>19, PutNumbers DEF timeline_fence_release
    <2>2. seq' \in [Threads -> Seqno]
      BY <1>19, ZeroSeqno DEF timeline_fence_release, threadVars, Numbers
    <2>3. QED
      BY <2>1, <2>2 DEF Numbers
  <1>20. ASSUME NEW p \in Threads, DestroyScan(p)
        PROVE  Numbers'
    BY <1>20
       DEF DestroyScan, tlVars, threadVars, Numbers, Seqno
  <1>21. ASSUME NEW p \in Threads, DestroyScanEnd(p)
        PROVE  Numbers'
    BY <1>21
       DEF DestroyScanEnd, tlVars, threadVars, Numbers, Seqno
  <1>22. ASSUME NEW p \in Threads, DestroyLock(p)
        PROVE  Numbers'
    BY <1>22
       DEF DestroyLock, tlVars, threadVars, Numbers, Seqno
  <1>23. ASSUME NEW p \in Threads, DestroyFence(p)
        PROVE  Numbers'
    BY <1>23
       DEF DestroyFence, tlVars, threadVars, Numbers, Seqno
  <1>24. ASSUME NEW p \in Threads, kgsl_timeline_alloc(p)
        PROVE  Numbers'
    BY <1>24, TimelineAssumption
       DEF kgsl_timeline_alloc, FreeTimelines, At, tlVars, threadVars,
       Numbers, Seqno
  <1>25. ASSUME NEW p \in Threads, kgsl_ioctl_timeline_signal(p)
        PROVE  Numbers'
    BY <1>25
       DEF kgsl_ioctl_timeline_signal, kgsl_timeline_by_id, tlVars,
       threadVars, Numbers, Seqno
  <1>26. ASSUME NEW p \in Threads, FenceLookup(p)
        PROVE  Numbers'
    BY <1>26
       DEF FenceLookup, kgsl_timeline_by_id, tlVars, threadVars, Numbers,
       Seqno
  <1>27. ASSUME NEW p \in Threads, WaitError(p)
        PROVE  Numbers'
    BY <1>27
       DEF WaitError, tlVars, threadVars, Numbers, Seqno
  <1>28. ASSUME NEW p \in Threads, WaitTimeout(p)
        PROVE  Numbers'
    BY <1>28
       DEF WaitTimeout, tlVars, threadVars, Numbers, Seqno
  <1>29. ASSUME NEW p \in Threads, CloseFd(p)
        PROVE  Numbers'
    BY <1>29
       DEF CloseFd, tlVars, threadVars, Numbers, Seqno
  <1>30. ASSUME NEW p \in Threads, kgsl_ioctl_timeline_query(p)
        PROVE  Numbers'
    BY <1>30
       DEF kgsl_ioctl_timeline_query, kgsl_timeline_by_id, tlVars,
       threadVars, Numbers, Seqno
  <1>31. ASSUME NEW p \in Threads, kgsl_ioctl_timeline_destroy(p)
        PROVE  Numbers'
    BY <1>31
       DEF kgsl_ioctl_timeline_destroy, tlVars, threadVars, Numbers, Seqno
  <1>32. ASSUME NEW f \in Fences, Poll(f)
        PROVE  Numbers'
    BY <1>32
       DEF Poll, tlVars, threadVars, Numbers, Seqno
  <1>33. CASE UNCHANGED vars
    BY <1>33
       DEF vars, tlVars, threadVars, Numbers, Seqno
  <1>34. QED
    BY <1>1, <1>2, <1>3, <1>4, <1>5, <1>6, <1>7, <1>8, <1>9, <1>10, <1>11,
    <1>12, <1>13, <1>14, <1>15, <1>16, <1>17, <1>18, <1>19, <1>20, <1>21,
    <1>22, <1>23, <1>24, <1>25, <1>26, <1>27, <1>28, <1>29, <1>30, <1>31,
    <1>32, <1>33
       DEF Next, Step, Choose

\* No step of any thread moves a timeline back.
LEMMA ForwardStep ==
    ASSUME Numbers, [Next]_vars
    PROVE  Forward
  <1>1. ASSUME NEW p \in Threads, kgsl_ioctl_timeline_create(p)
        PROVE  Forward
    BY <1>1
       DEF kgsl_ioctl_timeline_create, tlVars, threadVars, Numbers, Seqno,
       Forward
  <1>2. ASSUME NEW p \in Threads, SignalLock(p)
        PROVE  Forward
    BY <1>2
       DEF SignalLock, At, tlVars, threadVars, Numbers, Seqno, Forward
  <1>3. ASSUME NEW p \in Threads, ScanLock(p)
        PROVE  Forward
    BY <1>3
       DEF ScanLock, tlVars, threadVars, Numbers, Seqno, Forward
  <1>4. ASSUME NEW p \in Threads, SignalScan(p)
        PROVE  Forward
    BY <1>4
       DEF SignalScan, tlVars, threadVars, Numbers, Seqno, Forward
  <1>5. ASSUME NEW p \in Threads, SignalScanEnd(p)
        PROVE  Forward
    BY <1>5
       DEF SignalScanEnd, tlVars, threadVars, Numbers, Seqno, Forward
  <1>6. ASSUME NEW p \in Threads, SignalFence(p)
        PROVE  Forward
    BY <1>6
       DEF SignalFence, tlVars, threadVars, Numbers, Seqno, Forward
  <1>7. ASSUME NEW p \in Threads, SignalUnlock(p)
        PROVE  Forward
    BY <1>7
       DEF SignalUnlock, tlVars, threadVars, Numbers, Seqno, Forward
  <1>8. ASSUME NEW p \in Threads, PutTimeline(p)
        PROVE  Forward
    BY <1>8
       DEF PutTimeline, kgsl_timeline_put, tlVars, threadVars, Numbers,
       Seqno, Forward
  <1>9. ASSUME NEW p \in Threads, kgsl_timeline_fence_alloc(p)
        PROVE  Forward
    BY <1>9
       DEF kgsl_timeline_fence_alloc, tlVars, threadVars, Numbers, Seqno,
       Forward
  <1>10. ASSUME NEW p \in Threads, FenceAllocFails(p)
        PROVE  Forward
    BY <1>10
       DEF FenceAllocFails, kgsl_timeline_put, tlVars, threadVars, Numbers,
       Seqno, Forward
  <1>11. ASSUME NEW p \in Threads, FenceLock(p)
        PROVE  Forward
    BY <1>11
       DEF FenceLock, tlVars, threadVars, Numbers, Seqno, Forward
  <1>12. ASSUME NEW p \in Threads, kgsl_timeline_add_fence(p)
        PROVE  Forward
    BY <1>12
       DEF kgsl_timeline_add_fence, tlVars, threadVars, Numbers, Seqno,
       Forward
  <1>13. ASSUME NEW p \in Threads, WaitCollect(p)
        PROVE  Forward
    BY <1>13
       DEF WaitCollect, kgsl_timeline_put, tlVars, threadVars, Numbers,
       Seqno, Forward
  <1>14. ASSUME NEW p \in Threads, WaitStart(p)
        PROVE  Forward
    BY <1>14
       DEF WaitStart, tlVars, threadVars, Numbers, Seqno, Forward
  <1>15. ASSUME NEW p \in Threads, WaitReturn(p)
        PROVE  Forward
    BY <1>15
       DEF WaitReturn, tlVars, threadVars, Numbers, Seqno, Forward
  <1>16. ASSUME NEW p \in Threads, WaitPut(p)
        PROVE  Forward
    BY <1>16
       DEF WaitPut, tlVars, threadVars, Numbers, Seqno, Forward
  <1>17. ASSUME NEW p \in Threads, FenceGetInstall(p)
        PROVE  Forward
    BY <1>17
       DEF FenceGetInstall, tlVars, threadVars, Numbers, Seqno, Forward
  <1>18. ASSUME NEW p \in Threads, kgsl_ioctl_timeline_fence_get(p)
        PROVE  Forward
    BY <1>18
       DEF kgsl_ioctl_timeline_fence_get, tlVars, threadVars, Numbers,
       Seqno, Forward
  <1>19. ASSUME NEW p \in Threads, timeline_fence_release(p)
        PROVE  Forward
    BY <1>19
       DEF timeline_fence_release, kgsl_timeline_put, tlVars, threadVars,
       Numbers, Seqno, Forward
  <1>20. ASSUME NEW p \in Threads, DestroyScan(p)
        PROVE  Forward
    BY <1>20
       DEF DestroyScan, tlVars, threadVars, Numbers, Seqno, Forward
  <1>21. ASSUME NEW p \in Threads, DestroyScanEnd(p)
        PROVE  Forward
    BY <1>21
       DEF DestroyScanEnd, tlVars, threadVars, Numbers, Seqno, Forward
  <1>22. ASSUME NEW p \in Threads, DestroyLock(p)
        PROVE  Forward
    BY <1>22
       DEF DestroyLock, tlVars, threadVars, Numbers, Seqno, Forward
  <1>23. ASSUME NEW p \in Threads, DestroyFence(p)
        PROVE  Forward
    BY <1>23
       DEF DestroyFence, tlVars, threadVars, Numbers, Seqno, Forward
  <1>24. ASSUME NEW p \in Threads, kgsl_timeline_alloc(p)
        PROVE  Forward
    BY <1>24, TimelineAssumption
       DEF kgsl_timeline_alloc, FreeTimelines, At, tlVars, threadVars,
       Numbers, Seqno, Forward
  <1>25. ASSUME NEW p \in Threads, kgsl_ioctl_timeline_signal(p)
        PROVE  Forward
    BY <1>25
       DEF kgsl_ioctl_timeline_signal, kgsl_timeline_by_id, tlVars,
       threadVars, Numbers, Seqno, Forward
  <1>26. ASSUME NEW p \in Threads, FenceLookup(p)
        PROVE  Forward
    BY <1>26
       DEF FenceLookup, kgsl_timeline_by_id, tlVars, threadVars, Numbers,
       Seqno, Forward
  <1>27. ASSUME NEW p \in Threads, WaitError(p)
        PROVE  Forward
    BY <1>27
       DEF WaitError, tlVars, threadVars, Numbers, Seqno, Forward
  <1>28. ASSUME NEW p \in Threads, WaitTimeout(p)
        PROVE  Forward
    BY <1>28
       DEF WaitTimeout, tlVars, threadVars, Numbers, Seqno, Forward
  <1>29. ASSUME NEW p \in Threads, CloseFd(p)
        PROVE  Forward
    BY <1>29
       DEF CloseFd, tlVars, threadVars, Numbers, Seqno, Forward
  <1>30. ASSUME NEW p \in Threads, kgsl_ioctl_timeline_query(p)
        PROVE  Forward
    BY <1>30
       DEF kgsl_ioctl_timeline_query, kgsl_timeline_by_id, tlVars,
       threadVars, Numbers, Seqno, Forward
  <1>31. ASSUME NEW p \in Threads, kgsl_ioctl_timeline_destroy(p)
        PROVE  Forward
    BY <1>31
       DEF kgsl_ioctl_timeline_destroy, tlVars, threadVars, Numbers, Seqno,
       Forward
  <1>32. ASSUME NEW f \in Fences, Poll(f)
        PROVE  Forward
    BY <1>32
       DEF Poll, tlVars, threadVars, Numbers, Seqno, Forward
  <1>33. CASE UNCHANGED vars
    BY <1>33
       DEF vars, tlVars, threadVars, Numbers, Seqno, Forward
  <1>34. QED
    BY <1>1, <1>2, <1>3, <1>4, <1>5, <1>6, <1>7, <1>8, <1>9, <1>10, <1>11,
    <1>12, <1>13, <1>14, <1>15, <1>16, <1>17, <1>18, <1>19, <1>20, <1>21,
    <1>22, <1>23, <1>24, <1>25, <1>26, <1>27, <1>28, <1>29, <1>30, <1>31,
    <1>32, <1>33
       DEF Next, Step, Choose

\* The value of a living timeline never decreases, however many signals race
\* (kgsl_timeline_signal, kgsl_timeline.c:258).
THEOREM ValueMonotonic == Spec => ValueNeverDecreases
  <1>1. Init => Numbers
    BY TimelineAssumption DEF Init, Numbers, Seqno
  <1>2. Numbers /\ [Next]_vars => Numbers'
    BY NumbersStep
  <1>3. Numbers /\ [Next]_vars => [Forward]_vars
    BY ForwardStep
  <1>4. QED
    BY <1>1, <1>2, <1>3, PTL DEF Spec, ValueNeverDecreases, Forward

-----------------------------------------------------------------------------
(***************************************************************************)
(* The fences: the parts of the invariant.                                 *)
(***************************************************************************)
\* No fence is on a list twice.
Distinct(s) == \A i, j \in 1 .. Len(s) : s[i] = s[j] => i = j

\* Where a thread is inside timeline->lock, and inside fence_lock.
LockPCs == {"s_scan_lock", "s_scan", "s_signal", "f_add", "d_signal"}
ScanPCs == {"s_scan", "d_scan"}

\* Where a thread has no timeline, has the fence it allocates, has fences on
\* its list temp, in its array, or a release that it may run.
FreePCs  == {"idle", "w_next", "w_wait", "w_put"}
AllocPCs == {"f_lock", "f_add", "f_done", "g_put"}
TempPCs  == {"s_scan", "s_signal", "d_lock", "d_signal"}
GotPCs   == {"f_alloc", "f_lock", "f_add", "f_done", "w_next", "w_wait", "w_put"}
RelPCs   == {"s_signal", "d_signal", "w_put", "put", "idle"}
\* Where a thread destroys a timeline.
DestroyPCs == {"d_scan_lock", "d_scan", "d_lock", "d_signal"}

\* The locals a thread has in use at each point of its ioctl.
Control ==
    \A p \in Threads :
        /\ tl[p] # None <=> pc[p] \notin FreePCs
        /\ cur[p] # None <=> pc[p] \in AllocPCs
        /\ temp[p] # <<>> => pc[p] \in TempPCs
        /\ got[p] # <<>> => pc[p] \in GotPCs /\ op[p] \in {"any", "all"}
        /\ rel[p] # None => pc[p] \in RelPCs
        /\ pc[p] = "g_put" => op[p] = "get"

\* Each lock is held by the thread that is inside its section.
Locks ==
    \A t \in Timelines, p \in Threads :
        /\ lock[t] = p <=> tl[p] = t /\ pc[p] \in LockPCs
        /\ fence_lock[t] = p <=> tl[p] = t /\ pc[p] \in ScanPCs

\* The lists hold fences of their timeline, each at most once.
ListSets ==
    /\ \A t \in Timelines :
        /\ Distinct(fences[t])
        /\ \A f \in Range(fences[t]) : ftl[f] = t
    /\ \A p \in Threads :
        /\ Distinct(temp[p]) /\ Distinct(got[p])
        /\ \A f \in Range(temp[p]) : ftl[f] = tl[p] /\ f \notin Range(fences[tl[p]])

\* A scan stays inside its list.
ScanInside ==
    \A p \in Threads :
        pc[p] \in ScanPCs => idx[p] \in 1 .. Len(fences[tl[p]]) + 1

\* The lists are sound and the scans stay inside them.
Lists == ListSets /\ ScanInside

\* The fence that a thread allocates belongs to its timeline and, until it is
\* added, is on no list.
Allocs ==
    \A p \in Threads : cur[p] # None =>
        /\ ftl[cur[p]] = tl[p]
        /\ pc[p] \in {"f_lock", "f_add"} =>
            /\ cur[p] \notin Range(fences[tl[p]])
            /\ \A q \in Threads : cur[p] \notin Range(temp[q])
        /\ pc[p] \in {"f_lock", "f_add", "f_done"} => 
            /\ cur[p] \notin fd
            /\ \A q \in Threads : cur[p] \notin Range(got[q])
            /\ \A q \in Threads : cur[q] = cur[p] => q = p

\* A fence in use is not free memory; a count of 0 is one release.
Releases ==
    /\ \A f \in Fences : fref[f] > 0 => ftl[f] # None
    /\ \A p \in Threads : rel[p] # None => ftl[rel[p]] # None /\ fref[rel[p]] = 0
    /\ \A p, q \in Threads : rel[p] # None /\ rel[p] = rel[q] => p = q
    /\ \A f \in Fences : ftl[f] # None /\ fref[f] = 0 => \E p \in Threads : rel[p] = f

\* The ids: besides IdNamesOneTimeline, a timeline that is not committed yet
\* is known only to its creator, and one that is being destroyed has no id.
IdsKept ==
    /\ IdNamesOneTimeline
    /\ \A p \in Threads : pc[p] = "commit" =>
        /\ tid[tl[p]] \in Ids
        /\ \A q \in Threads : tl[q] = tl[p] => q = p
        /\ \A f \in Fences : ftl[f] # tl[p]
    /\ \A p, q \in Threads :
        pc[p] = "commit" /\ pc[q] = "commit" /\ tid[tl[p]] = tid[tl[q]] => p = q
    /\ \A p \in Threads : pc[p] \in DestroyPCs => \A id \in Ids : idr[id] # tl[p]

\* What signal has taken off the list is reached.
Reached ==
    /\ NoEarlySignal
    /\ \A f \in Fences : ftl[f] # None /\ err[f] => sig[f]
    /\ \A p \in Threads : pc[p] \in {"s_scan", "s_signal"} =>
        \A f \in Range(temp[p]) : timeline_fence_signaled(f)

\* A fence that has not signaled is on its way to the list, listed or taken
\* off it to be signaled, and is listed only when it is still to come.
Covered ==
    /\ NoLostSignal
    /\ \A f \in Fences : ftl[f] # None /\ fref[f] > 0 /\ ~sig[f] =>
        \/ f \in Range(fences[ftl[f]])
        \/ \E p \in Threads : f \in Range(temp[p])
        \/ \E p \in Threads : cur[p] = f /\ pc[p] \in {"f_lock", "f_add"}
    /\ \A p \in Threads : pc[p] = "f_add" => ~timeline_fence_signaled(cur[p])

\* What the counts mean: everything somebody refers to is in use, and the only
\* user of a timeline is alone.
Users ==
    /\ \A p \in Threads : cur[p] # None => fref[cur[p]] > 0
    /\ \A p \in Threads : \A f \in Range(got[p]) \cup ScanRefs(p) : fref[f] > 0
    /\ \A f \in fd : fref[f] > 0
    /\ \A p \in Threads : tl[p] # None => ref[tl[p]] > 0
    /\ \A f \in Fences : ftl[f] # None => ref[ftl[f]] > 0
    /\ \A id \in Ids : idr[id] \in Timelines => ref[idr[id]] > 0
    /\ \A p \in Threads : tl[p] # None /\ ref[tl[p]] = 1 =>
        /\ \A q \in Threads : tl[q] = tl[p] => q = p
        /\ \A f \in Fences : ftl[f] # tl[p]
        /\ \A id \in Ids : idr[id] # tl[p]
    /\ \A f \in Fences : ftl[f] # None /\ ref[ftl[f]] = 1 =>
        /\ \A q \in Threads : tl[q] # ftl[f]
        /\ \A g \in Fences : ftl[g] = ftl[f] => g = f
        /\ \A id \in Ids : idr[id] # ftl[f]

\* new is old with f added to, or taken off, the list k.
With(old, new, S, k, f) ==
    /\ new \in [S -> Seq(Fences)]
    /\ \A j \in S :
        /\ Distinct(new[j])
        /\ Range(new[j]) = IF j = k THEN Range(old[j]) \cup {f} ELSE Range(old[j])

\* The same with one element less.
Without(old, new, S, k, f) ==
    /\ new \in [S -> Seq(Fences)]
    /\ \A j \in S :
        /\ Distinct(new[j])
        /\ Range(new[j]) = IF j = k THEN Range(old[j]) \ {f} ELSE Range(old[j])

-----------------------------------------------------------------------------

\* The list without its element i.
LEMMA RemoveAtIs ==
    ASSUME NEW S, NEW s \in Seq(S), NEW i \in 1 .. Len(s)
    PROVE  /\ RemoveAt(s, i) \in Seq(S)
           /\ Len(RemoveAt(s, i)) = Len(s) - 1
           /\ \A k \in 1 .. Len(s) - 1 :
                RemoveAt(s, i)[k] = IF k < i THEN s[k] ELSE s[k + 1]
  <1> DEFINE a == SubSeq(s, 1, i - 1)
             b == SubSeq(s, i + 1, Len(s))
  <1>1. a \in Seq(S) /\ Len(a) = i - 1 /\ \A k \in 1 .. i - 1 : a[k] = s[k]
    BY SubSeqProperties
  <1>2. /\ b \in Seq(S) /\ Len(b) = Len(s) - i
        /\ \A k \in 1 .. Len(s) - i : b[k] = s[i + k]
    BY SubSeqProperties
  <1>3. RemoveAt(s, i) = a \o b
    BY DEF RemoveAt
  <1> HIDE DEF a, b
  <1>4. /\ a \o b \in Seq(S) /\ Len(a \o b) = Len(a) + Len(b)
        /\ \A k \in 1 .. Len(a) + Len(b) :
             (a \o b)[k] = IF k <= Len(a) THEN a[k] ELSE b[k - Len(a)]
    BY <1>1, <1>2, ConcatProperties
  <1>5. Len(s) \in Nat
    OBVIOUS
  <1>6. ASSUME NEW k \in 1 .. Len(s) - 1
        PROVE  (a \o b)[k] = IF k < i THEN s[k] ELSE s[k + 1]
    <2>1. CASE k < i
      BY <1>1, <1>2, <1>4, <1>5, <2>1
    <2>2. CASE ~(k < i)
      <3>1. k - (i - 1) \in 1 .. Len(s) - i /\ i + (k - (i - 1)) = k + 1
        BY <1>5, <2>2
      <3>2. b[k - (i - 1)] = s[k + 1]
        BY <1>2, <3>1
      <3>3. (a \o b)[k] = b[k - (i - 1)]
        BY <1>1, <1>2, <1>4, <1>5, <2>2
      <3>4. QED
        BY <2>2, <3>2, <3>3
    <2>3. QED
      BY <2>1, <2>2
  <1>7. QED
    BY <1>1, <1>2, <1>3, <1>4, <1>5, <1>6

\* The list with f inserted at position i.
LEMMA InsertAtIs ==
    ASSUME NEW S, NEW s \in Seq(S), NEW i \in 1 .. Len(s) + 1, NEW f \in S
    PROVE  /\ InsertAt(s, i, f) \in Seq(S)
           /\ Len(InsertAt(s, i, f)) = Len(s) + 1
           /\ \A k \in 1 .. Len(s) + 1 :
                InsertAt(s, i, f)[k] = IF k < i THEN s[k] ELSE IF k = i THEN f ELSE s[k - 1]
  <1> DEFINE a == SubSeq(s, 1, i - 1)
             b == SubSeq(s, i, Len(s))
             c == a \o <<f>>
  <1>1. a \in Seq(S) /\ Len(a) = i - 1 /\ \A k \in 1 .. i - 1 : a[k] = s[k]
    BY SubSeqProperties
  <1>2. /\ b \in Seq(S) /\ Len(b) = Len(s) - i + 1
        /\ \A k \in 1 .. Len(s) - i + 1 : b[k] = s[i + k - 1]
    BY SubSeqProperties
  <1>3. InsertAt(s, i, f) = c \o b
    BY DEF InsertAt
  <1> HIDE DEF a, b
  <1>4. /\ c \in Seq(S) /\ Len(c) = i
        /\ \A k \in 1 .. i : c[k] = IF k < i THEN s[k] ELSE f
    <2>1. <<f>> \in Seq(S) /\ Len(<<f>>) = 1 /\ <<f>>[1] = f
      OBVIOUS
    <2>2. /\ c \in Seq(S) /\ Len(c) = Len(a) + 1
          /\ \A k \in 1 .. Len(a) + 1 :
               c[k] = IF k <= Len(a) THEN a[k] ELSE <<f>>[k - Len(a)]
      BY <1>1, <2>1, ConcatProperties
    <2>3. QED
      BY <1>1, <2>1, <2>2
  <1> HIDE DEF c
  <1>5. Len(s) \in Nat
    OBVIOUS
  <1>6. /\ c \o b \in Seq(S) /\ Len(c \o b) = Len(s) + 1
        /\ \A k \in 1 .. Len(s) + 1 :
             (c \o b)[k] = IF k <= i THEN c[k] ELSE b[k - i]
    <2>1. /\ c \o b \in Seq(S) /\ Len(c \o b) = Len(c) + Len(b)
          /\ \A k \in 1 .. Len(c) + Len(b) :
               (c \o b)[k] = IF k <= Len(c) THEN c[k] ELSE b[k - Len(c)]
      BY <1>2, <1>4, ConcatProperties
    <2>2. Len(c) + Len(b) = Len(s) + 1 /\ Len(c) = i
      BY <1>2, <1>4, <1>5
    <2>3. QED
      BY <2>1, <2>2
  <1>7. ASSUME NEW k \in 1 .. Len(s) + 1
        PROVE  (c \o b)[k] = IF k < i THEN s[k] ELSE IF k = i THEN f ELSE s[k - 1]
    <2>1. CASE k <= i
      BY <1>4, <1>6, <2>1
    <2>2. CASE ~(k <= i)
      <3>1. k - i \in 1 .. Len(s) - i + 1 /\ i + (k - i) - 1 = k - 1
        BY <1>5, <2>2
      <3>2. b[k - i] = s[k - 1]
        BY <1>2, <3>1
      <3>3. QED
        BY <1>6, <2>2, <3>2
    <2>3. QED
      BY <2>1, <2>2
  <1>8. QED
    BY <1>3, <1>6, <1>7

\* The elements of a list.
LEMMA RangeIs ==
    ASSUME NEW S, NEW s \in Seq(S)
    PROVE  /\ \A x : x \in Range(s) <=> \E i \in 1 .. Len(s) : s[i] = x
           /\ Range(s) \subseteq S
           /\ Len(s) \in Nat
  BY DEF Range

\* Taking an element out of a list without repetitions.
LEMMA RangeRemove ==
    ASSUME NEW S, NEW s \in Seq(S), NEW i \in 1 .. Len(s), Distinct(s)
    PROVE  /\ RemoveAt(s, i) \in Seq(S) /\ Distinct(RemoveAt(s, i))
           /\ Range(RemoveAt(s, i)) = Range(s) \ {s[i]}
  <1> DEFINE r == RemoveAt(s, i)
  <1>1. /\ r \in Seq(S) /\ Len(r) = Len(s) - 1 /\ Len(s) \in Nat
        /\ \A k \in 1 .. Len(s) - 1 : r[k] = IF k < i THEN s[k] ELSE s[k + 1]
    BY RemoveAtIs
  <1> HIDE DEF r
  <1>2. Distinct(r)
    BY <1>1 DEF Distinct
  <1>3. \A x : x \in Range(r) <=> \E k \in 1 .. Len(r) : r[k] = x
    BY <1>1, RangeIs
  <1>4. \A x : x \in Range(s) <=> \E k \in 1 .. Len(s) : s[k] = x
    BY RangeIs
  <1>5. ASSUME NEW k \in 1 .. Len(r)
        PROVE  \E m \in 1 .. Len(s) : r[k] = s[m] /\ m # i
    <2>1. CASE k < i
      <3>1. k \in 1 .. Len(s) /\ r[k] = s[k] /\ k # i
        BY <1>1, <2>1
      <3>2. QED
        BY <3>1
    <2>2. CASE ~(k < i)
      <3>1. k + 1 \in 1 .. Len(s) /\ r[k] = s[k + 1] /\ k + 1 # i
        BY <1>1, <2>2
      <3>2. QED
        BY <3>1
    <2>3. QED
      BY <2>1, <2>2
  <1>6. ASSUME NEW k \in 1 .. Len(s), k # i
        PROVE  \E m \in 1 .. Len(r) : r[m] = s[k]
    <2>1. CASE k < i
      BY <1>1, <2>1
    <2>2. CASE k > i
      <3>1. k - 1 \in 1 .. Len(r) /\ r[k - 1] = s[k]
        BY <1>1, <2>2
      <3>2. QED
        BY <3>1
    <2>3. QED
      BY <1>6, <2>1, <2>2
  <1>7. Range(r) = Range(s) \ {s[i]}
    <2>1. ASSUME NEW x \in Range(r)
          PROVE  x \in Range(s) /\ x # s[i]
      BY <1>3, <1>4, <1>5, <2>1 DEF Distinct
    <2>2. ASSUME NEW x \in Range(s), x # s[i]
          PROVE  x \in Range(r)
      BY <1>3, <1>4, <1>6, <2>2
    <2>3. QED
      BY <2>1, <2>2
  <1>8. QED
    BY <1>1, <1>2, <1>7 DEF r

\* Adding an element keeps a list without repetitions so if it is not there.
LEMMA RangeInsert ==
    ASSUME NEW S, NEW s \in Seq(S), NEW i \in 1 .. Len(s) + 1, NEW f \in S,
           Distinct(s), f \notin Range(s)
    PROVE  /\ InsertAt(s, i, f) \in Seq(S) /\ Distinct(InsertAt(s, i, f))
           /\ Range(InsertAt(s, i, f)) = Range(s) \cup {f}
  <1> DEFINE r == InsertAt(s, i, f)
  <1>1. /\ r \in Seq(S) /\ Len(r) = Len(s) + 1 /\ Len(s) \in Nat
        /\ \A k \in 1 .. Len(s) + 1 :
             r[k] = IF k < i THEN s[k] ELSE IF k = i THEN f ELSE s[k - 1]
    BY InsertAtIs
  <1> HIDE DEF r
  <1>2. \A x : x \in Range(r) <=> \E k \in 1 .. Len(r) : r[k] = x
    BY <1>1, RangeIs
  <1>3. \A x : x \in Range(s) <=> \E k \in 1 .. Len(s) : s[k] = x
    BY RangeIs
  <1>4. \A k \in 1 .. Len(s) : s[k] # f
    BY <1>3
  <1>5. ASSUME NEW k \in 1 .. Len(r), k # i
        PROVE  \E m \in 1 .. Len(s) : r[k] = s[m] /\ m = IF k < i THEN k ELSE k - 1
    <2>1. CASE k < i
      BY <1>1, <2>1
    <2>2. CASE k > i
      <3>1. k - 1 \in 1 .. Len(s) /\ r[k] = s[k - 1]
        BY <1>1, <2>2
      <3>2. QED
        BY <2>2, <3>1
    <2>3. QED
      BY <1>5, <2>1, <2>2
  <1>6. i \in 1 .. Len(r) /\ r[i] = f
    BY <1>1
  <1>7. Distinct(r)
    <2> SUFFICES ASSUME NEW k \in 1 .. Len(r), NEW m \in 1 .. Len(r), r[k] = r[m]
                 PROVE  k = m
      BY DEF Distinct
    <2>1. CASE k = i \/ m = i
      BY <1>4, <1>5, <1>6, <2>1
    <2>2. CASE k # i /\ m # i
      <3>1. PICK x \in 1 .. Len(s) : r[k] = s[x] /\ x = IF k < i THEN k ELSE k - 1
        BY <1>5, <2>2
      <3>2. PICK y \in 1 .. Len(s) : r[m] = s[y] /\ y = IF m < i THEN m ELSE m - 1
        BY <1>5, <2>2
      <3>3. x = y
        BY <3>1, <3>2 DEF Distinct
      <3>4. QED
        BY <1>1, <2>2, <3>1, <3>2, <3>3
    <2>3. QED
      BY <2>1, <2>2
  <1>8. ASSUME NEW k \in 1 .. Len(s)
        PROVE  \E m \in 1 .. Len(r) : r[m] = s[k]
    <2>1. CASE k < i
      BY <1>1, <2>1
    <2>2. CASE k >= i
      <3>1. k + 1 \in 1 .. Len(r) /\ r[k + 1] = s[k]
        BY <1>1, <2>2
      <3>2. QED
        BY <3>1
    <2>3. QED
      BY <1>8, <2>1, <2>2
  <1>9. Range(r) = Range(s) \cup {f}
    <2>1. ASSUME NEW x \in Range(r)
          PROVE  x \in Range(s) \cup {f}
      BY <1>2, <1>3, <1>5, <1>6, <2>1
    <2>2. ASSUME NEW x \in Range(s) \cup {f}
          PROVE  x \in Range(r)
      BY <1>2, <1>3, <1>6, <1>8, <2>2
    <2>3. QED
      BY <2>1, <2>2
  <1>10. QED
    BY <1>1, <1>7, <1>9 DEF r

\* list_del_init takes the fence off the list, if it is there.
LEMMA RangeUnlink ==
    ASSUME NEW S, NEW s \in Seq(S), NEW f, Distinct(s)
    PROVE  /\ Unlink(s, f) \in Seq(S) /\ Distinct(Unlink(s, f))
           /\ Range(Unlink(s, f)) = Range(s) \ {f}
  <1>1. CASE \E i \in 1 .. Len(s) : s[i] = f
    <2> DEFINE c == CHOOSE i \in 1 .. Len(s) : s[i] = f
    <2>1. c \in 1 .. Len(s) /\ s[c] = f
      BY <1>1
    <2>2. Unlink(s, f) = RemoveAt(s, c)
      BY <1>1 DEF Unlink
    <2> HIDE DEF c
    <2>3. QED
      BY <2>1, <2>2, RangeRemove
  <1>2. CASE ~\E i \in 1 .. Len(s) : s[i] = f
    <2>1. Unlink(s, f) = s
      BY <1>2 DEF Unlink
    <2>2. f \notin Range(s)
      BY <1>2, RangeIs
    <2>3. QED
      BY <2>1, <2>2
  <1>3. QED
    BY <1>1, <1>2

\* Appending to the array of a wait.
LEMMA RangeAppend ==
    ASSUME NEW S, NEW s \in Seq(S), NEW f \in S, Distinct(s), f \notin Range(s)
    PROVE  /\ Append(s, f) \in Seq(S) /\ Distinct(Append(s, f))
           /\ Range(Append(s, f)) = Range(s) \cup {f}
  <1> DEFINE r == Append(s, f)
  <1>1. /\ r \in Seq(S) /\ Len(r) = Len(s) + 1 /\ Len(s) \in Nat
        /\ \A k \in 1 .. Len(s) : r[k] = s[k]
        /\ r[Len(s) + 1] = f
    OBVIOUS
  <1> HIDE DEF r
  <1>2. \A x : x \in Range(r) <=> \E k \in 1 .. Len(r) : r[k] = x
    BY <1>1, RangeIs
  <1>3. \A x : x \in Range(s) <=> \E k \in 1 .. Len(s) : s[k] = x
    BY RangeIs
  <1>4. \A k \in 1 .. Len(s) : s[k] # f
    BY <1>3
  <1>5. Distinct(r)
    BY <1>1, <1>4 DEF Distinct
  <1>6. 1 .. Len(r) = (1 .. Len(s)) \cup {Len(s) + 1}
    BY <1>1
  <1>7. Range(r) = Range(s) \cup {f}
    <2>1. ASSUME NEW x \in Range(r)
          PROVE  x \in Range(s) \cup {f}
      BY <1>1, <1>2, <1>3, <1>6, <2>1
    <2>2. ASSUME NEW x \in Range(s) \cup {f}
          PROVE  x \in Range(r)
      BY <1>1, <1>2, <1>3, <1>6, <2>2
    <2>3. QED
      BY <2>1, <2>2
  <1>8. QED
    BY <1>1, <1>5, <1>7 DEF r

\* list_move to the front of the list temp.
LEMMA RangePush ==
    ASSUME NEW S, NEW s \in Seq(S), NEW f \in S, Distinct(s), f \notin Range(s)
    PROVE  /\ <<f>> \o s \in Seq(S) /\ Distinct(<<f>> \o s)
           /\ Range(<<f>> \o s) = Range(s) \cup {f}
  <1> DEFINE r == <<f>> \o s
  <1>1. /\ r \in Seq(S) /\ Len(r) = Len(s) + 1 /\ Len(s) \in Nat
        /\ r[1] = f /\ \A k \in 2 .. Len(s) + 1 : r[k] = s[k - 1]
    OBVIOUS
  <1> HIDE DEF r
  <1>2. \A x : x \in Range(r) <=> \E k \in 1 .. Len(r) : r[k] = x
    BY <1>1, RangeIs
  <1>3. \A x : x \in Range(s) <=> \E k \in 1 .. Len(s) : s[k] = x
    BY RangeIs
  <1>4. \A k \in 1 .. Len(s) : s[k] # f
    BY <1>3
  <1>5. Distinct(r)
    BY <1>1, <1>4 DEF Distinct
  <1>6. ASSUME NEW k \in 1 .. Len(s)
        PROVE  k + 1 \in 1 .. Len(r) /\ r[k + 1] = s[k]
    BY <1>1
  <1>7. ASSUME NEW k \in 1 .. Len(r), k # 1
        PROVE  k - 1 \in 1 .. Len(s) /\ r[k] = s[k - 1]
    BY <1>1, <1>7
  <1>8. 1 \in 1 .. Len(r)
    BY <1>1
  <1>9. Range(r) = Range(s) \cup {f}
    <2>1. ASSUME NEW x \in Range(r)
          PROVE  x \in Range(s) \cup {f}
      BY <1>1, <1>2, <1>3, <1>7, <2>1
    <2>2. ASSUME NEW x \in Range(s) \cup {f}
          PROVE  x \in Range(r)
      BY <1>1, <1>2, <1>3, <1>6, <1>8, <2>2
    <2>3. QED
      BY <2>1, <2>2
  <1>10. QED
    BY <1>1, <1>5, <1>9 DEF r

\* Taking the first element off a list.
LEMMA RangePop ==
    ASSUME NEW S, NEW s \in Seq(S), s # <<>>, Distinct(s)
    PROVE  /\ Tail(s) \in Seq(S) /\ Distinct(Tail(s))
           /\ Head(s) \in S /\ Head(s) \in Range(s)
           /\ Range(Tail(s)) = Range(s) \ {Head(s)}
  <1> DEFINE r == Tail(s)
  <1>1. /\ r \in Seq(S) /\ Len(r) = Len(s) - 1 /\ Len(s) \in Nat \ {0}
        /\ Head(s) = s[1] /\ \A k \in 1 .. Len(s) - 1 : r[k] = s[k + 1]
    OBVIOUS
  <1> HIDE DEF r
  <1>2. \A x : x \in Range(r) <=> \E k \in 1 .. Len(r) : r[k] = x
    BY <1>1, RangeIs
  <1>3. \A x : x \in Range(s) <=> \E k \in 1 .. Len(s) : s[k] = x
    BY RangeIs
  <1>4. Distinct(r)
    BY <1>1 DEF Distinct
  <1>5. ASSUME NEW k \in 1 .. Len(r)
        PROVE  k + 1 \in 1 .. Len(s) /\ r[k] = s[k + 1] /\ k + 1 # 1
    BY <1>1
  <1>6. ASSUME NEW k \in 1 .. Len(s), k # 1
        PROVE  k - 1 \in 1 .. Len(r) /\ r[k - 1] = s[k]
    BY <1>1, <1>6
  <1>7. 1 \in 1 .. Len(s)
    BY <1>1
  <1>8. Range(r) = Range(s) \ {s[1]}
    <2>1. ASSUME NEW x \in Range(r)
          PROVE  x \in Range(s) /\ x # s[1]
      BY <1>2, <1>3, <1>5, <1>7, <2>1 DEF Distinct
    <2>2. ASSUME NEW x \in Range(s), x # s[1]
          PROVE  x \in Range(r)
      BY <1>2, <1>3, <1>6, <2>2
    <2>3. QED
      BY <2>1, <2>2
  <1>9. s[1] \in S /\ s[1] \in Range(s)
    BY <1>3, <1>7, RangeIs
  <1>10. QED
    BY <1>1, <1>4, <1>8, <1>9 DEF r
\* A finite set with a member has a positive size, and with two members at
\* least two.
LEMMA SizeAtLeast ==
    ASSUME NEW S, IsFiniteSet(S), NEW x \in S
    PROVE  /\ Cardinality(S) \in Nat /\ Cardinality(S) > 0
           /\ \A y \in S : y # x => Cardinality(S) > 1
  <1>1. Cardinality(S) \in Nat
    BY FS_CardinalityType
  <1>2. /\ IsFiniteSet(S \ {x}) /\ Cardinality(S \ {x}) = Cardinality(S) - 1
    BY FS_RemoveElement
  <1>3. Cardinality(S \ {x}) \in Nat
    BY <1>2, FS_CardinalityType
  <1>4. ASSUME NEW y \in S, y # x
        PROVE  Cardinality(S) > 1
    <2>1. y \in S \ {x}
      BY <1>4
    <2>2. Cardinality(S \ {x}) # 0
      BY <1>2, <2>1, FS_EmptySet
    <2>3. QED
      BY <1>1, <1>2, <1>3, <2>2
  <1>5. QED
    BY <1>1, <1>2, <1>3, <1>4

\* The users of a timeline are finitely many.
LEMMA TimelineUsersFinite ==
    ASSUME NEW t
    PROVE  /\ IsFiniteSet(IdrRefs(t)) /\ Cardinality(IdrRefs(t)) \in Nat
           /\ IsFiniteSet(ThreadRefs(t)) /\ Cardinality(ThreadRefs(t)) \in Nat
           /\ IsFiniteSet(FenceRefs(t)) /\ Cardinality(FenceRefs(t)) \in Nat
  <1>1. /\ IdrRefs(t) \subseteq Ids /\ ThreadRefs(t) \subseteq Threads
        /\ FenceRefs(t) \subseteq Fences
    BY DEF IdrRefs, ThreadRefs, FenceRefs
  <1>2. /\ IsFiniteSet(IdrRefs(t)) /\ IsFiniteSet(ThreadRefs(t))
        /\ IsFiniteSet(FenceRefs(t))
    BY <1>1, TimelineAssumption, FS_Subset
  <1>3. QED
    BY <1>2, FS_CardinalityType

\* The threads that allocate f, that wait for it, and that have pinned it.
CurUsers(f)  == {p \in Threads : cur[p] = f}
GotUsers(f)  == {p \in Threads : f \in Range(got[p])}
ScanUsers(f) == {p \in Threads : f \in ScanRefs(p)}

\* The users of a fence are finitely many threads.
LEMMA FenceUsersFinite ==
    ASSUME NEW f
    PROVE  /\ IsFiniteSet(CurUsers(f)) /\ Cardinality(CurUsers(f)) \in Nat
           /\ IsFiniteSet(GotUsers(f)) /\ Cardinality(GotUsers(f)) \in Nat
           /\ IsFiniteSet(ScanUsers(f)) /\ Cardinality(ScanUsers(f)) \in Nat
  <1>1. /\ CurUsers(f) \subseteq Threads /\ GotUsers(f) \subseteq Threads
        /\ ScanUsers(f) \subseteq Threads
    BY DEF CurUsers, GotUsers, ScanUsers
  <1>2. /\ IsFiniteSet(CurUsers(f)) /\ IsFiniteSet(GotUsers(f))
        /\ IsFiniteSet(ScanUsers(f))
    BY <1>1, TimelineAssumption, FS_Subset
  <1>3. QED
    BY <1>2, FS_CardinalityType

\* The references a scan holds are on fences.
LEMMA ScanRefsType ==
    ASSUME TypeOK, Control, Lists, NEW p \in Threads
    PROVE  ScanRefs(p) \subseteq Fences
  <1>1. Range(temp[p]) \subseteq Fences
    BY RangeIs DEF TypeOK
  <1>2. ASSUME pc[p] = "d_scan", NEW i \in 1 .. idx[p] - 1
        PROVE  fences[tl[p]][i] \in Fences
    <2>1. tl[p] \in Timelines
      BY <1>2 DEF TypeOK, Control, FreePCs
    <2>2. /\ fences[tl[p]] \in Seq(Fences) /\ Len(fences[tl[p]]) \in Nat
          /\ idx[p] \in 1 .. Len(fences[tl[p]]) + 1
      BY <1>2, <2>1 DEF TypeOK, Lists, ListSets, ScanInside, ScanPCs
    <2>3. i \in 1 .. Len(fences[tl[p]])
      BY <2>2
    <2>4. QED
      BY <2>2, <2>3
  <1>3. QED
    BY <1>1, <1>2 DEF ScanRefs

\* Exact counts give Users.
LEMMA CountsGiveUsers ==
    ASSUME TypeOK, Control, Lists, TimelineRefCount, FenceRefCount
    PROVE  Users
  <1>1. ASSUME NEW f \in Fences
        PROVE  /\ (f \in fd \/ CurUsers(f) # {} \/ GotUsers(f) # {} \/ ScanUsers(f) # {})
                    => fref[f] > 0
    <2>1. fref[f] = Cardinality(CurUsers(f)) + Cardinality(GotUsers(f))
                    + Cardinality(ScanUsers(f)) + (IF f \in fd THEN 1 ELSE 0)
      BY DEF FenceRefCount, CurUsers, GotUsers, ScanUsers
    <2>2. /\ CurUsers(f) # {} => Cardinality(CurUsers(f)) > 0
          /\ GotUsers(f) # {} => Cardinality(GotUsers(f)) > 0
          /\ ScanUsers(f) # {} => Cardinality(ScanUsers(f)) > 0
      BY FenceUsersFinite, SizeAtLeast
    <2>3. QED
      BY <2>1, <2>2, FenceUsersFinite
  <1>2. \A p \in Threads : cur[p] # None => fref[cur[p]] > 0
    <2>1. ASSUME NEW p \in Threads, cur[p] # None
          PROVE  fref[cur[p]] > 0
      <3>1. cur[p] \in Fences /\ p \in CurUsers(cur[p])
        BY <2>1 DEF TypeOK, CurUsers
      <3>2. QED
        BY <1>1, <3>1
    <2>2. QED
      BY <2>1
  <1>3. \A p \in Threads : \A f \in Range(got[p]) \cup ScanRefs(p) : fref[f] > 0
    <2>1. ASSUME NEW p \in Threads, NEW f \in Range(got[p]) \cup ScanRefs(p)
          PROVE  fref[f] > 0
      <3>1. f \in Fences
        BY ScanRefsType, RangeIs DEF TypeOK
      <3>2. p \in GotUsers(f) \/ p \in ScanUsers(f)
        BY DEF GotUsers, ScanUsers
      <3>3. QED
        BY <1>1, <3>1, <3>2
    <2>2. QED
      BY <2>1
  <1>4. \A f \in fd : fref[f] > 0
    BY <1>1 DEF TypeOK
  <1>5. ASSUME NEW t \in Timelines
        PROVE  /\ ref[t] = Cardinality(IdrRefs(t)) + Cardinality(ThreadRefs(t))
                           + Cardinality(FenceRefs(t))
               /\ \A p \in ThreadRefs(t) : Cardinality(ThreadRefs(t)) > 0
               /\ \A id \in IdrRefs(t) : Cardinality(IdrRefs(t)) > 0
               /\ \A f \in FenceRefs(t) : Cardinality(FenceRefs(t)) > 0
               /\ \A p, q \in ThreadRefs(t) : p # q => Cardinality(ThreadRefs(t)) > 1
               /\ \A f, g \in FenceRefs(t) : f # g => Cardinality(FenceRefs(t)) > 1
    BY TimelineUsersFinite, SizeAtLeast DEF TimelineRefCount
  <1>6. ASSUME NEW p \in Threads, tl[p] # None
        PROVE  /\ ref[tl[p]] > 0
               /\ ref[tl[p]] = 1 =>
                    /\ \A q \in Threads : tl[q] = tl[p] => q = p
                    /\ \A f \in Fences : ftl[f] # tl[p]
                    /\ \A id \in Ids : idr[id] # tl[p]
    <2>1. tl[p] \in Timelines /\ p \in ThreadRefs(tl[p])
      BY <1>6 DEF TypeOK, ThreadRefs
    <2>2. ASSUME NEW q \in Threads, tl[q] = tl[p], q # p
          PROVE  ref[tl[p]] > 1
      <3>1. q \in ThreadRefs(tl[p])
        BY <2>2 DEF ThreadRefs
      <3>2. QED
        BY <1>5, <2>1, <2>2, <3>1, TimelineUsersFinite
    <2>3. ASSUME NEW f \in Fences, ftl[f] = tl[p]
          PROVE  ref[tl[p]] > 1
      <3>1. f \in FenceRefs(tl[p])
        BY <2>3 DEF FenceRefs
      <3>2. QED
        BY <1>5, <2>1, <3>1, TimelineUsersFinite
    <2>4. ASSUME NEW id \in Ids, idr[id] = tl[p]
          PROVE  ref[tl[p]] > 1
      <3>1. id \in IdrRefs(tl[p])
        BY <2>4 DEF IdrRefs
      <3>2. QED
        BY <1>5, <2>1, <3>1, TimelineUsersFinite
    <2>5. ref[tl[p]] > 0
      BY <1>5, <2>1, TimelineUsersFinite
    <2>6. QED
      BY <2>2, <2>3, <2>4, <2>5
  <1>7. ASSUME NEW f \in Fences, ftl[f] # None
        PROVE  /\ ref[ftl[f]] > 0
               /\ ref[ftl[f]] = 1 =>
                    /\ \A q \in Threads : tl[q] # ftl[f]
                    /\ \A g \in Fences : ftl[g] = ftl[f] => g = f
                    /\ \A id \in Ids : idr[id] # ftl[f]
    <2>1. ftl[f] \in Timelines /\ f \in FenceRefs(ftl[f])
      BY <1>7 DEF TypeOK, FenceRefs
    <2>2. ASSUME NEW q \in Threads, tl[q] = ftl[f]
          PROVE  ref[ftl[f]] > 1
      <3>1. q \in ThreadRefs(ftl[f])
        BY <2>2 DEF ThreadRefs
      <3>2. QED
        BY <1>5, <2>1, <3>1, TimelineUsersFinite
    <2>3. ASSUME NEW g \in Fences, ftl[g] = ftl[f], g # f
          PROVE  ref[ftl[f]] > 1
      <3>1. g \in FenceRefs(ftl[f])
        BY <2>3 DEF FenceRefs
      <3>2. QED
        BY <1>5, <2>1, <2>3, <3>1, TimelineUsersFinite
    <2>4. ASSUME NEW id \in Ids, idr[id] = ftl[f]
          PROVE  ref[ftl[f]] > 1
      <3>1. id \in IdrRefs(ftl[f])
        BY <2>4 DEF IdrRefs
      <3>2. QED
        BY <1>5, <2>1, <3>1, TimelineUsersFinite
    <2>5. ref[ftl[f]] > 0
      BY <1>5, <2>1, TimelineUsersFinite
    <2>6. QED
      BY <2>2, <2>3, <2>4, <2>5
  <1>8. ASSUME NEW id \in Ids, idr[id] \in Timelines
        PROVE  ref[idr[id]] > 0
    <2>1. id \in IdrRefs(idr[id])
      BY DEF IdrRefs
    <2>2. QED
      BY <1>5, <1>8, <2>1, TimelineUsersFinite
  <1>9. QED
    BY <1>2, <1>3, <1>4, <1>6, <1>7, <1>8 DEF Users

\* Replacing one list by one with f added, or taken off.
LEMMA ReplaceWith ==
    ASSUME NEW S, NEW old \in [S -> Seq(Fences)], \A j \in S : Distinct(old[j]),
           NEW k \in S, NEW f, NEW r \in Seq(Fences), Distinct(r),
           Range(r) = Range(old[k]) \cup {f}
    PROVE  With(old, [old EXCEPT ![k] = r], S, k, f)
  BY DEF With

\* A list that loses f; the others stay.
LEMMA ReplaceWithout ==
    ASSUME NEW S, NEW old \in [S -> Seq(Fences)], \A j \in S : Distinct(old[j]),
           NEW k \in S, NEW f, NEW r \in Seq(Fences), Distinct(r),
           Range(r) = Range(old[k]) \ {f}
    PROVE  Without(old, [old EXCEPT ![k] = r], S, k, f)
  BY DEF Without

\* The list of a timeline that a thread scans.
LEMMA ScannedList ==
    ASSUME TypeOK, Control, Lists, NEW p \in Threads, pc[p] \in ScanPCs,
           idx[p] <= Len(fences[tl[p]])
    PROVE  /\ tl[p] \in Timelines
           /\ fences[tl[p]] \in Seq(Fences) /\ Distinct(fences[tl[p]])
           /\ idx[p] \in 1 .. Len(fences[tl[p]])
           /\ fences[tl[p]][idx[p]] \in Fences
           /\ fences[tl[p]][idx[p]] \in Range(fences[tl[p]])
           /\ ftl[fences[tl[p]][idx[p]]] = tl[p]
  <1>1. tl[p] \in Timelines
    BY DEF TypeOK, Control, FreePCs, ScanPCs
  <1>2. /\ fences[tl[p]] \in Seq(Fences) /\ Distinct(fences[tl[p]])
        /\ idx[p] \in 1 .. Len(fences[tl[p]])
    BY <1>1 DEF TypeOK, Lists, ListSets, ScanInside
  <1>3. fences[tl[p]][idx[p]] \in Range(fences[tl[p]])
    BY <1>2, RangeIs
  <1>4. QED
    BY <1>1, <1>2, <1>3, RangeIs DEF Lists, ListSets, ScanInside

\* SignalScan moves the fence from the list to temp, or passes it.
LEMMA SignalScanShape ==
    ASSUME TypeOK, Control, Lists, NEW p \in Threads, SignalScan(p)
    PROVE  /\ tl[p] \in Timelines /\ idx[p] \in 1 .. Len(fences[tl[p]])
           /\ fences[tl[p]][idx[p]] \in Fences
           /\ fences[tl[p]][idx[p]] \in Range(fences[tl[p]])
           /\ ftl[fences[tl[p]][idx[p]]] = tl[p]
           /\ \/ /\ timeline_fence_signaled(fences[tl[p]][idx[p]])
                 /\ fref[fences[tl[p]][idx[p]]] > 0
                 /\ Without(fences, fences', Timelines, tl[p], fences[tl[p]][idx[p]])
                 /\ Len(fences'[tl[p]]) = Len(fences[tl[p]]) - 1
                 /\ With(temp, temp', Threads, p, fences[tl[p]][idx[p]])
                 /\ fref' = [fref EXCEPT ![fences[tl[p]][idx[p]]] = @ + 1]
                 /\ idx' = idx
              \/ /\ ~(/\ timeline_fence_signaled(fences[tl[p]][idx[p]])
                      /\ fref[fences[tl[p]][idx[p]]] > 0)
                 /\ idx' = [idx EXCEPT ![p] = @ + 1]
                 /\ UNCHANGED <<fences, temp, fref>>
  <1> DEFINE t == tl[p]
             f == fences[t][idx[p]]
  <1>1. pc[p] \in ScanPCs /\ idx[p] <= Len(fences[t])
    BY DEF SignalScan, At, ScanPCs
  <1>2. /\ t \in Timelines /\ fences[t] \in Seq(Fences) /\ Distinct(fences[t])
        /\ idx[p] \in 1 .. Len(fences[t]) /\ f \in Fences
        /\ f \in Range(fences[t]) /\ ftl[f] = t
    BY <1>1, ScannedList
  <1>3. CASE timeline_fence_signaled(f) /\ fref[f] > 0
    <2>1. /\ fences' = [fences EXCEPT ![t] = RemoveAt(fences[t], idx[p])]
          /\ temp' = [temp EXCEPT ![p] = <<f>> \o temp[p]]
          /\ fref' = [fref EXCEPT ![f] = @ + 1] /\ idx' = idx
      BY <1>3 DEF SignalScan
    <2>2. /\ RemoveAt(fences[t], idx[p]) \in Seq(Fences)
          /\ Distinct(RemoveAt(fences[t], idx[p]))
          /\ Range(RemoveAt(fences[t], idx[p])) = Range(fences[t]) \ {f}
      BY <1>2, RangeRemove
    <2>3. Len(RemoveAt(fences[t], idx[p])) = Len(fences[t]) - 1
      BY <1>2, RemoveAtIs
    <2>4. fences \in [Timelines -> Seq(Fences)] /\ \A u \in Timelines : Distinct(fences[u])
      BY DEF TypeOK, Lists, ListSets, ScanInside
    <2>5. Without(fences, fences', Timelines, t, f)
      BY <1>2, <2>1, <2>2, <2>4, ReplaceWithout
    <2>6. temp \in [Threads -> Seq(Fences)] /\ \A q \in Threads : Distinct(temp[q])
      BY DEF TypeOK, Lists, ListSets, ScanInside
    <2>7. f \notin Range(temp[p])
      BY <1>2 DEF Lists, ListSets, ScanInside
    <2>8. /\ <<f>> \o temp[p] \in Seq(Fences) /\ Distinct(<<f>> \o temp[p])
          /\ Range(<<f>> \o temp[p]) = Range(temp[p]) \cup {f}
      BY <1>2, <2>6, <2>7, RangePush
    <2>9. With(temp, temp', Threads, p, f)
      BY <2>1, <2>6, <2>8, ReplaceWith
    <2>10. Len(fences'[t]) = Len(fences[t]) - 1
      BY <1>2, <2>1, <2>3, <2>4
    <2>11. QED
      BY <1>2, <1>3, <2>1, <2>5, <2>9, <2>10
  <1>4. CASE ~(timeline_fence_signaled(f) /\ fref[f] > 0)
    BY <1>2, <1>4 DEF SignalScan
  <1>5. QED
    BY <1>3, <1>4

\* DestroyScan pins the fence, or takes a dead one off the list.
LEMMA DestroyScanShape ==
    ASSUME TypeOK, Control, Lists, NEW p \in Threads, DestroyScan(p)
    PROVE  /\ tl[p] \in Timelines /\ idx[p] \in 1 .. Len(fences[tl[p]])
           /\ fences[tl[p]][idx[p]] \in Fences
           /\ fences[tl[p]][idx[p]] \in Range(fences[tl[p]])
           /\ ftl[fences[tl[p]][idx[p]]] = tl[p]
           /\ \/ /\ fref[fences[tl[p]][idx[p]]] > 0
                 /\ fref' = [fref EXCEPT ![fences[tl[p]][idx[p]]] = @ + 1]
                 /\ idx' = [idx EXCEPT ![p] = @ + 1]
                 /\ UNCHANGED fences
              \/ /\ fref[fences[tl[p]][idx[p]]] = 0
                 /\ Without(fences, fences', Timelines, tl[p], fences[tl[p]][idx[p]])
                 /\ Len(fences'[tl[p]]) = Len(fences[tl[p]]) - 1
                 /\ UNCHANGED <<fref, idx>>
  <1> DEFINE t == tl[p]
             f == fences[t][idx[p]]
  <1>1. pc[p] \in ScanPCs /\ idx[p] <= Len(fences[t])
    BY DEF DestroyScan, At, ScanPCs
  <1>2. /\ t \in Timelines /\ fences[t] \in Seq(Fences) /\ Distinct(fences[t])
        /\ idx[p] \in 1 .. Len(fences[t]) /\ f \in Fences
        /\ f \in Range(fences[t]) /\ ftl[f] = t
    BY <1>1, ScannedList
  <1>3. CASE fref[f] = 0
    <2>1. /\ fences' = [fences EXCEPT ![t] = RemoveAt(fences[t], idx[p])]
          /\ UNCHANGED <<fref, idx>>
      BY <1>3 DEF DestroyScan
    <2>2. /\ RemoveAt(fences[t], idx[p]) \in Seq(Fences)
          /\ Distinct(RemoveAt(fences[t], idx[p]))
          /\ Range(RemoveAt(fences[t], idx[p])) = Range(fences[t]) \ {f}
      BY <1>2, RangeRemove
    <2>3. Len(RemoveAt(fences[t], idx[p])) = Len(fences[t]) - 1
      BY <1>2, RemoveAtIs
    <2>4. fences \in [Timelines -> Seq(Fences)] /\ \A u \in Timelines : Distinct(fences[u])
      BY DEF TypeOK, Lists, ListSets, ScanInside
    <2>5. Without(fences, fences', Timelines, t, f)
      BY <1>2, <2>1, <2>2, <2>4, ReplaceWithout
    <2>6. Len(fences'[t]) = Len(fences[t]) - 1
      BY <1>2, <2>1, <2>3, <2>4
    <2>7. QED
      BY <1>2, <1>3, <2>1, <2>5, <2>6
  <1>4. CASE fref[f] # 0
    BY <1>2, <1>4 DEF DestroyScan
  <1>5. QED
    BY <1>3, <1>4

\* DestroyScanEnd: temp takes over the whole list.
LEMMA DestroyScanEndShape ==
    ASSUME TypeOK, Control, Lists, NEW p \in Threads, DestroyScanEnd(p)
    PROVE  /\ tl[p] \in Timelines /\ temp[p] = <<>> /\ Range(temp[p]) = {}
           /\ idx[p] = Len(fences[tl[p]]) + 1 /\ Len(fences[tl[p]]) \in Nat
           /\ fences' \in [Timelines -> Seq(Fences)]
           /\ temp' \in [Threads -> Seq(Fences)]
           /\ \A u \in Timelines :
                /\ Distinct(fences'[u])
                /\ Range(fences'[u]) = IF u = tl[p] THEN {} ELSE Range(fences[u])
           /\ \A q \in Threads :
                /\ Distinct(temp'[q])
                /\ Range(temp'[q]) = IF q = p THEN Range(fences[tl[p]]) ELSE Range(temp[q])
  <1>1. /\ tl[p] \in Timelines /\ temp[p] = <<>> /\ pc[p] \in ScanPCs
        /\ idx[p] > Len(fences[tl[p]])
    BY DEF DestroyScanEnd, At, TypeOK, Control, FreePCs, TempPCs, ScanPCs
  <1>2. /\ fences \in [Timelines -> Seq(Fences)] /\ temp \in [Threads -> Seq(Fences)]
        /\ \A u \in Timelines : Distinct(fences[u])
        /\ \A q \in Threads : Distinct(temp[q])
        /\ idx[p] \in 1 .. Len(fences[tl[p]]) + 1 /\ Len(fences[tl[p]]) \in Nat
    BY <1>1 DEF TypeOK, Lists, ListSets, ScanInside
  <1>3. /\ temp' = [temp EXCEPT ![p] = fences[tl[p]]]
        /\ fences' = [fences EXCEPT ![tl[p]] = <<>>]
    BY DEF DestroyScanEnd
  <1>4. <<>> \in Seq(Fences) /\ Distinct(<<>>) /\ Range(<<>>) = {}
    <2>1. <<>> \in Seq(Fences) /\ Len(<<>>) = 0
      OBVIOUS
    <2>2. \A x : x \in Range(<<>>) <=> \E i \in 1 .. Len(<<>>) : <<>>[i] = x
      BY <2>1, RangeIs
    <2>3. 1 .. 0 = {}
      OBVIOUS
    <2>4. Range(<<>>) = {}
      BY <2>1, <2>2, <2>3
    <2>5. Distinct(<<>>)
      BY <2>1, <2>3 DEF Distinct
    <2>6. QED
      BY <2>1, <2>4, <2>5
  <1> DEFINE e == <<>>
  <1>5. e \in Seq(Fences) /\ Distinct(e) /\ Range(e) = {}
    BY <1>4
  <1>6. fences' = [fences EXCEPT ![tl[p]] = e] /\ Range(temp[p]) = {}
    BY <1>1, <1>3, <1>4
  <1> HIDE DEF e
  <1>7. /\ fences' \in [Timelines -> Seq(Fences)]
        /\ \A u \in Timelines :
             /\ Distinct(fences'[u])
             /\ Range(fences'[u]) = IF u = tl[p] THEN {} ELSE Range(fences[u])
    BY <1>1, <1>2, <1>5, <1>6
  <1>8. fences[tl[p]] \in Seq(Fences) /\ Distinct(fences[tl[p]])
    BY <1>1, <1>2
  <1>9. /\ temp' \in [Threads -> Seq(Fences)]
        /\ \A q \in Threads :
             /\ Distinct(temp'[q])
             /\ Range(temp'[q]) = IF q = p THEN Range(fences[tl[p]]) ELSE Range(temp[q])
    BY <1>2, <1>3, <1>8
  <1>10. idx[p] = Len(fences[tl[p]]) + 1
    BY <1>1, <1>2
  <1>11. QED
    BY <1>1, <1>2, <1>6, <1>7, <1>9, <1>10

\* kgsl_timeline_add_fence puts the new fence on the list.
LEMMA AddShape ==
    ASSUME TypeOK, Control, Lists, Allocs, NEW p \in Threads, kgsl_timeline_add_fence(p)
    PROVE  /\ tl[p] \in Timelines /\ cur[p] \in Fences /\ ftl[cur[p]] = tl[p]
           /\ cur[p] \notin Range(fences[tl[p]])
           /\ With(fences, fences', Timelines, tl[p], cur[p])
           /\ Len(fences'[tl[p]]) = Len(fences[tl[p]]) + 1
  <1>1. /\ tl[p] \in Timelines /\ cur[p] \in Fences /\ ftl[cur[p]] = tl[p]
        /\ cur[p] \notin Range(fences[tl[p]])
    <2>1. pc[p] = "f_add"
      BY DEF kgsl_timeline_add_fence, At
    <2>2. tl[p] \in Timelines /\ cur[p] \in Fences /\ cur[p] # None
      BY <2>1, TimelineAssumption DEF TypeOK, Control, FreePCs, AllocPCs
    <2>3. QED
      BY <2>1, <2>2 DEF Allocs
  <1>2. fences \in [Timelines -> Seq(Fences)] /\ \A u \in Timelines : Distinct(fences[u])
    BY DEF TypeOK, Lists, ListSets, ScanInside
  <1>3. PICK k \in 1 .. Len(fences[tl[p]]) + 1 :
            fences' = [fences EXCEPT ![tl[p]] = InsertAt(fences[tl[p]], k, cur[p])]
    BY DEF kgsl_timeline_add_fence
  <1>4. fences[tl[p]] \in Seq(Fences) /\ Distinct(fences[tl[p]])
    BY <1>1, <1>2
  <1>5. /\ InsertAt(fences[tl[p]], k, cur[p]) \in Seq(Fences)
        /\ Distinct(InsertAt(fences[tl[p]], k, cur[p]))
        /\ Range(InsertAt(fences[tl[p]], k, cur[p])) = Range(fences[tl[p]]) \cup {cur[p]}
    BY <1>1, <1>4, RangeInsert
  <1>6. Len(InsertAt(fences[tl[p]], k, cur[p])) = Len(fences[tl[p]]) + 1
    BY <1>1, <1>4, InsertAtIs
  <1>7. With(fences, fences', Timelines, tl[p], cur[p])
    BY <1>1, <1>2, <1>3, <1>5, ReplaceWith
  <1>8. QED
    BY <1>1, <1>2, <1>3, <1>6, <1>7

\* timeline_fence_release takes the fence off its list.
LEMMA ReleaseShape ==
    ASSUME TypeOK, Lists, Releases, NEW p \in Threads, timeline_fence_release(p)
    PROVE  /\ rel[p] \in Fences /\ ftl[rel[p]] \in Timelines /\ fref[rel[p]] = 0
           /\ Without(fences, fences', Timelines, ftl[rel[p]], rel[p])
           /\ \A u \in Timelines : u # ftl[rel[p]] => fences'[u] = fences[u]
  <1>1. rel[p] \in Fences /\ ftl[rel[p]] \in Timelines /\ fref[rel[p]] = 0
    BY DEF timeline_fence_release, TypeOK, Releases
  <1>2. fences \in [Timelines -> Seq(Fences)] /\ \A u \in Timelines : Distinct(fences[u])
    BY DEF TypeOK, Lists, ListSets, ScanInside
  <1>3. fences' = [fences EXCEPT ![ftl[rel[p]]] = Unlink(fences[ftl[rel[p]]], rel[p])]
    BY DEF timeline_fence_release
  <1>4. fences[ftl[rel[p]]] \in Seq(Fences) /\ Distinct(fences[ftl[rel[p]]])
    BY <1>1, <1>2
  <1>5. /\ Unlink(fences[ftl[rel[p]]], rel[p]) \in Seq(Fences)
        /\ Distinct(Unlink(fences[ftl[rel[p]]], rel[p]))
        /\ Range(Unlink(fences[ftl[rel[p]]], rel[p])) = Range(fences[ftl[rel[p]]]) \ {rel[p]}
    BY <1>4, RangeUnlink
  <1>6. Without(fences, fences', Timelines, ftl[rel[p]], rel[p])
    BY <1>1, <1>2, <1>3, <1>5, ReplaceWithout
  <1>7. QED
    BY <1>1, <1>2, <1>3, <1>6

\* The next fence to signal is taken off temp.
LEMMA PopShape ==
    ASSUME TypeOK, Lists, NEW p \in Threads, temp[p] # <<>>,
           temp' = [temp EXCEPT ![p] = Tail(@)]
    PROVE  /\ Head(temp[p]) \in Fences /\ Head(temp[p]) \in Range(temp[p])
           /\ Without(temp, temp', Threads, p, Head(temp[p]))
  <1>1. temp \in [Threads -> Seq(Fences)] /\ \A q \in Threads : Distinct(temp[q])
    BY DEF TypeOK, Lists, ListSets, ScanInside
  <1>2. /\ Tail(temp[p]) \in Seq(Fences) /\ Distinct(Tail(temp[p]))
        /\ Head(temp[p]) \in Fences /\ Head(temp[p]) \in Range(temp[p])
        /\ Range(Tail(temp[p])) = Range(temp[p]) \ {Head(temp[p])}
    BY <1>1, RangePop
  <1>3. QED
    BY <1>1, <1>2, ReplaceWithout

\* A wait stores the fence it has allocated.
LEMMA CollectShape ==
    ASSUME TypeOK, Control, Lists, Allocs, NEW p \in Threads, WaitCollect(p)
    PROVE  /\ cur[p] \in Fences /\ cur[p] \notin Range(got[p])
           /\ With(got, got', Threads, p, cur[p])
  <1>1. cur[p] \in Fences /\ cur[p] \notin Range(got[p])
    BY TimelineAssumption DEF WaitCollect, At, TypeOK, Control, Allocs, AllocPCs
  <1>2. got \in [Threads -> Seq(Fences)] /\ \A q \in Threads : Distinct(got[q])
    BY DEF TypeOK, Lists, ListSets, ScanInside
  <1>3. /\ Append(got[p], cur[p]) \in Seq(Fences) /\ Distinct(Append(got[p], cur[p]))
        /\ Range(Append(got[p], cur[p])) = Range(got[p]) \cup {cur[p]}
    BY <1>1, <1>2, RangeAppend
  <1>4. got' = [got EXCEPT ![p] = Append(got[p], cur[p])]
    BY DEF WaitCollect
  <1>5. QED
    BY <1>1, <1>2, <1>3, <1>4, ReplaceWith

\* A wait puts the next fence of its array, or ends.
LEMMA WaitPutShape ==
    ASSUME TypeOK, Lists, NEW p \in Threads, WaitPut(p)
    PROVE  \/ /\ Head(got[p]) \in Fences /\ Head(got[p]) \in Range(got[p])
              /\ Without(got, got', Threads, p, Head(got[p]))
              /\ dma_fence_put(p, Head(got[p]))
              /\ got[p] # <<>>
              /\ UNCHANGED <<pc, op, seq>>
           \/ /\ got[p] = <<>> /\ UNCHANGED <<fref, rel, got>>
              /\ Goto(p, "idle")
              /\ op' = [op EXCEPT ![p] = "none"]
              /\ seq' = [seq EXCEPT ![p] = 0]
  <1>1. got \in [Threads -> Seq(Fences)] /\ \A q \in Threads : Distinct(got[q])
    BY DEF TypeOK, Lists, ListSets, ScanInside
  <1>2. CASE got[p] # <<>>
    <2>1. /\ Tail(got[p]) \in Seq(Fences) /\ Distinct(Tail(got[p]))
          /\ Head(got[p]) \in Fences /\ Head(got[p]) \in Range(got[p])
          /\ Range(Tail(got[p])) = Range(got[p]) \ {Head(got[p])}
      BY <1>1, <1>2, RangePop
    <2>2. /\ got' = [got EXCEPT ![p] = Tail(got[p])]
          /\ dma_fence_put(p, Head(got[p])) /\ UNCHANGED <<pc, op, seq>>
      BY <1>2 DEF WaitPut
    <2>3. Without(got, got', Threads, p, Head(got[p]))
      BY <1>1, <2>1, <2>2, ReplaceWithout
    <2>4. QED
      BY <1>2, <2>1, <2>2, <2>3
  <1>3. CASE got[p] = <<>>
    BY <1>3 DEF WaitPut
  <1>4. QED
    BY <1>2, <1>3

\* The memory of a free timeline holds no fence and no lock.
LEMMA FreeIsClean ==
    ASSUME TypeOK, Locks, Lists, Users, NEW t \in FreeTimelines
    PROVE  /\ t \in Timelines /\ ref[t] = 0 /\ fences[t] = <<>>
           /\ lock[t] = None /\ fence_lock[t] = None
           /\ \A p \in Threads : tl[p] # t
           /\ \A f \in Fences : ftl[f] # t
           /\ \A id \in Ids : idr[id] # t
  <1>1. t \in Timelines /\ ref[t] = 0 /\ t # None
    BY TimelineAssumption DEF FreeTimelines
  <1>2. /\ \A p \in Threads : tl[p] # t
        /\ \A f \in Fences : ftl[f] # t
        /\ \A id \in Ids : idr[id] # t
    BY <1>1 DEF Users
  <1>3. lock[t] = None /\ fence_lock[t] = None
    BY <1>1, <1>2 DEF TypeOK, Locks
  <1>4. fences[t] = <<>>
    <2>1. fences[t] \in Seq(Fences)
      BY <1>1 DEF TypeOK
    <2>2. \A i \in 1 .. Len(fences[t]) : fences[t][i] \in Range(fences[t])
      BY <2>1, RangeIs
    <2>3. \A i \in 1 .. Len(fences[t]) : fences[t][i] \in Fences
      BY <2>1
    <2>4. \A i \in 1 .. Len(fences[t]) : ftl[fences[t][i]] = t
      BY <1>1, <2>2 DEF Lists, ListSets, ScanInside
    <2>5. Len(fences[t]) = 0
      BY <1>2, <2>1, <2>3, <2>4
    <2>6. QED
      BY <2>1, <2>5
  <1>5. QED
    BY <1>1, <1>2, <1>3, <1>4

\* kgsl_timeline_alloc initialises lists and locks that are empty.
LEMMA AllocShape ==
    ASSUME TypeOK, Locks, Lists, Users, NEW p \in Threads, kgsl_timeline_alloc(p)
    PROVE  UNCHANGED <<fences, lock, fence_lock>>
  <1>1. PICK t \in FreeTimelines :
            /\ fences' = [fences EXCEPT ![t] = <<>>]
            /\ lock' = [lock EXCEPT ![t] = None]
            /\ fence_lock' = [fence_lock EXCEPT ![t] = None]
    BY DEF kgsl_timeline_alloc
  <1>2. t \in Timelines /\ fences[t] = <<>> /\ lock[t] = None /\ fence_lock[t] = None
    BY FreeIsClean
  <1>3. QED
    BY <1>1, <1>2 DEF TypeOK

\* kgsl_timeline_put keeps the types when there is a reference to put.
LEMMA PutType ==
    ASSUME TypeOK, NEW t \in Timelines, ref[t] > 0, kgsl_timeline_put(t)
    PROVE  /\ ref' \in [Timelines -> Nat] /\ value' \in [Timelines -> Seqno]
           /\ owner' \in [Timelines -> DevPrivs \cup {None}]
           /\ tid' \in [Timelines -> Ids \cup {None}]
  <1>1. ref[t] - 1 \in Nat
    BY DEF TypeOK
  <1>2. QED
    BY <1>1, ZeroSeqno DEF TypeOK, kgsl_timeline_put

\* So does dma_fence_put.
LEMMA FencePutType ==
    ASSUME TypeOK, NEW p \in Threads, NEW f \in Fences, fref[f] > 0, dma_fence_put(p, f)
    PROVE  /\ fref' \in [Fences -> Nat] /\ rel' \in [Threads -> Fences \cup {None}]
  <1>1. fref[f] - 1 \in Nat
    BY DEF TypeOK
  <1>2. QED
    BY <1>1 DEF TypeOK, dma_fence_put

\* The timeline of a thread inside an ioctl, and the fences it handles.
LEMMA ThreadsTimeline ==
    ASSUME TypeOK, Control, Users, NEW p \in Threads
    PROVE  /\ pc[p] \notin FreePCs => tl[p] \in Timelines /\ ref[tl[p]] > 0
           /\ pc[p] \in AllocPCs => cur[p] \in Fences /\ fref[cur[p]] > 0
           /\ rel[p] # None => rel[p] \in Fences
  BY DEF TypeOK, Control, Users

\* Every step keeps the types.
LEMMA TypeStep ==
    ASSUME TypeOK, Control, Locks, Lists, Allocs, Releases, Users, [Next]_vars
    PROVE  TypeOK'
  <1>1. ASSUME NEW p \in Threads, kgsl_ioctl_timeline_create(p)
        PROVE  TypeOK'
    BY <1>1, TimelineAssumption
       DEF kgsl_ioctl_timeline_create, At, Goto, devVars, tlVars, fenceVars,
           threadVars, TypeOK, PCs
  <1>2. ASSUME NEW p \in Threads, SignalLock(p)
        PROVE  TypeOK'
    <2>1. tl[p] \in Timelines
      BY <1>2, ThreadsTimeline DEF SignalLock, At, FreePCs
    <2>2. /\ lock' \in [Timelines -> Threads \cup {None}]
          /\ value' \in [Timelines -> Seqno] /\ pc' \in [Threads -> PCs]
      <3>1. lock' = lock \/ lock' = [lock EXCEPT ![tl[p]] = p]
        BY <1>2 DEF SignalLock
      <3>2. value' = value \/ value' = [value EXCEPT ![tl[p]] = seq[p]]
        BY <1>2 DEF SignalLock
      <3>3. pc' = [pc EXCEPT ![p] = "put"] \/ pc' = [pc EXCEPT ![p] = "s_scan_lock"]
        BY <1>2 DEF SignalLock, Goto
      <3>4. value' \in [Timelines -> Seqno]
        <4>1. seq[p] \in Seqno /\ value \in [Timelines -> Seqno]
          BY DEF TypeOK
        <4>2. QED
          BY <3>2, <4>1
      <3>5. lock' \in [Timelines -> Threads \cup {None}]
        BY <3>1 DEF TypeOK
      <3>6. pc' \in [Threads -> PCs]
        BY <3>3 DEF TypeOK, PCs
      <3>7. QED
        BY <3>4, <3>5, <3>6
    <2>3. QED
      BY <1>2, <2>2 DEF SignalLock, devVars, fenceVars, TypeOK
  <1>3. ASSUME NEW p \in Threads, ScanLock(p)
        PROVE  TypeOK'
    BY <1>3, TimelineAssumption
       DEF ScanLock, At, Goto, devVars, tlVars, fenceVars, threadVars, TypeOK,
           PCs
  <1>4. ASSUME NEW p \in Threads, SignalScan(p)
        PROVE  TypeOK'
    <2>1. /\ fences' \in [Timelines -> Seq(Fences)] /\ temp' \in [Threads -> Seq(Fences)]
          /\ fref' \in [Fences -> Nat] /\ idx' \in [Threads -> Nat]
      <3> DEFINE g == fences[tl[p]][idx[p]]
      <3>1. g \in Fences
        BY <1>4, SignalScanShape
      <3>2. CASE timeline_fence_signaled(g) /\ fref[g] > 0
        <4>1. /\ Without(fences, fences', Timelines, tl[p], g)
              /\ With(temp, temp', Threads, p, g)
              /\ fref' = [fref EXCEPT ![g] = @ + 1] /\ idx' = idx
          BY <1>4, <3>2, SignalScanShape
        <4>2. fref[g] + 1 \in Nat
          BY <3>1 DEF TypeOK
        <4>3. QED
          BY <4>1, <4>2 DEF With, Without, TypeOK
      <3>3. CASE ~(timeline_fence_signaled(g) /\ fref[g] > 0)
        <4>1. idx' = [idx EXCEPT ![p] = @ + 1] /\ UNCHANGED <<fences, temp, fref>>
          BY <1>4, <3>3, SignalScanShape
        <4>2. idx[p] + 1 \in Nat
          BY DEF TypeOK
        <4>3. QED
          BY <4>1, <4>2 DEF TypeOK
      <3>4. QED
        BY <3>2, <3>3
    <2>2. QED
      BY <1>4, <2>1 DEF SignalScan, devVars, TypeOK
  <1>5. ASSUME NEW p \in Threads, SignalScanEnd(p)
        PROVE  TypeOK'
    BY <1>5, TimelineAssumption
       DEF SignalScanEnd, At, Goto, devVars, tlVars, fenceVars, threadVars,
           TypeOK, PCs
  <1>6. ASSUME NEW p \in Threads, SignalFence(p)
        PROVE  TypeOK'
    <2>1. /\ Head(temp[p]) \in Fences /\ Head(temp[p]) \in Range(temp[p])
          /\ temp' \in [Threads -> Seq(Fences)]
      BY <1>6, PopShape DEF SignalFence, Without
    <2>2. fref[Head(temp[p])] > 0
      BY <2>1 DEF Users, ScanRefs
    <2>3. /\ fref' \in [Fences -> Nat] /\ rel' \in [Threads -> Fences \cup {None}]
      BY <1>6, <2>1, <2>2, FencePutType DEF SignalFence
    <2>4. QED
      BY <1>6, <2>1, <2>3 DEF SignalFence, devVars, tlVars, TypeOK
  <1>7. ASSUME NEW p \in Threads, SignalUnlock(p)
        PROVE  TypeOK'
    BY <1>7, TimelineAssumption
       DEF SignalUnlock, At, Goto, devVars, tlVars, fenceVars, threadVars,
           TypeOK, PCs
  <1>8. ASSUME NEW p \in Threads, PutTimeline(p)
        PROVE  TypeOK'
    <2>1. tl[p] \in Timelines /\ ref[tl[p]] > 0
      BY <1>8, ThreadsTimeline DEF PutTimeline, At, FreePCs
    <2>2. /\ ref' \in [Timelines -> Nat] /\ value' \in [Timelines -> Seqno]
          /\ owner' \in [Timelines -> DevPrivs \cup {None}]
          /\ tid' \in [Timelines -> Ids \cup {None}]
      BY <1>8, <2>1, PutType DEF PutTimeline
    <2>3. QED
      BY <1>8, <2>2, ZeroSeqno
         DEF PutTimeline, Goto, devVars, fenceVars, TypeOK, PCs
  <1>9. ASSUME NEW p \in Threads, kgsl_timeline_fence_alloc(p)
        PROVE  TypeOK'
    <2>1. tl[p] \in Timelines /\ ref[tl[p]] > 0
      BY <1>9, ThreadsTimeline DEF kgsl_timeline_fence_alloc, At, FreePCs
    <2>2. PICK g \in Fences :
            /\ ftl' = [ftl EXCEPT ![g] = tl[p]]
            /\ fseq' = [fseq EXCEPT ![g] = seq[p]]
            /\ fref' = [fref EXCEPT ![g] = 1]
            /\ sig' = [sig EXCEPT ![g] = FALSE]
            /\ err' = [err EXCEPT ![g] = FALSE]
            /\ cur' = [cur EXCEPT ![p] = g]
      BY <1>9 DEF kgsl_timeline_fence_alloc, FreeFences
    <2>3. ref[tl[p]] + 1 \in Nat
      BY <2>1 DEF TypeOK
    <2>4. ref' \in [Timelines -> Nat] /\ pc' \in [Threads -> PCs]
      BY <1>9, <2>3 DEF kgsl_timeline_fence_alloc, Goto, TypeOK, PCs
    <2>5. /\ ftl' \in [Fences -> Timelines \cup {None}] /\ fseq' \in [Fences -> Seqno]
          /\ fref' \in [Fences -> Nat] /\ sig' \in [Fences -> BOOLEAN]
          /\ err' \in [Fences -> BOOLEAN] /\ cur' \in [Threads -> Fences \cup {None}]
      BY <2>1, <2>2 DEF TypeOK
    <2>6. QED
      BY <1>9, <2>4, <2>5 DEF kgsl_timeline_fence_alloc, devVars, TypeOK
  <1>10. ASSUME NEW p \in Threads, FenceAllocFails(p)
        PROVE  TypeOK'
    <2>1. tl[p] \in Timelines /\ ref[tl[p]] > 0
      BY <1>10, ThreadsTimeline DEF FenceAllocFails, At, FreePCs
    <2>2. /\ ref' \in [Timelines -> Nat] /\ value' \in [Timelines -> Seqno]
          /\ owner' \in [Timelines -> DevPrivs \cup {None}]
          /\ tid' \in [Timelines -> Ids \cup {None}]
      <3>1. CASE kgsl_timeline_put(tl[p])
        BY <2>1, <3>1, PutType
      <3>2. CASE UNCHANGED <<ref, value, owner, tid>>
        BY <3>2 DEF TypeOK
      <3>3. QED
        BY <1>10, <3>1, <3>2 DEF FenceAllocFails
    <2>3. QED
      BY <1>10, <2>2 DEF FenceAllocFails, Goto, devVars, fenceVars, TypeOK, PCs
  <1>11. ASSUME NEW p \in Threads, FenceLock(p)
        PROVE  TypeOK'
    <2>1. tl[p] \in Timelines /\ cur[p] \in Fences
      BY <1>11, ThreadsTimeline DEF FenceLock, At, FreePCs, AllocPCs
    <2>2. /\ lock' \in [Timelines -> Threads \cup {None}]
          /\ sig' \in [Fences -> BOOLEAN] /\ pc' \in [Threads -> PCs]
      <3>1. lock' = lock \/ lock' = [lock EXCEPT ![tl[p]] = p]
        BY <1>11 DEF FenceLock
      <3>2. sig' = sig \/ sig' = [sig EXCEPT ![cur[p]] = TRUE]
        BY <1>11 DEF FenceLock
      <3>3. pc' = [pc EXCEPT ![p] = "f_done"] \/ pc' = [pc EXCEPT ![p] = "f_add"]
        BY <1>11 DEF FenceLock, Goto
      <3>4. QED
        BY <3>1, <3>2, <3>3 DEF TypeOK, PCs
    <2>3. QED
      BY <1>11, <2>2 DEF FenceLock, devVars, TypeOK
  <1>12. ASSUME NEW p \in Threads, kgsl_timeline_add_fence(p)
        PROVE  TypeOK'
    <2>1. fences' \in [Timelines -> Seq(Fences)]
      BY <1>12, AddShape DEF With
    <2>2. QED
      BY <1>12, <2>1
         DEF kgsl_timeline_add_fence, Goto, devVars, fenceVars, TypeOK, PCs
  <1>13. ASSUME NEW p \in Threads, WaitCollect(p)
        PROVE  TypeOK'
    <2>1. tl[p] \in Timelines /\ ref[tl[p]] > 0
      BY <1>13, ThreadsTimeline DEF WaitCollect, At, FreePCs
    <2>2. /\ ref' \in [Timelines -> Nat] /\ value' \in [Timelines -> Seqno]
          /\ owner' \in [Timelines -> DevPrivs \cup {None}]
          /\ tid' \in [Timelines -> Ids \cup {None}]
      BY <1>13, <2>1, PutType DEF WaitCollect
    <2>3. got' \in [Threads -> Seq(Fences)]
      BY <1>13, CollectShape DEF With
    <2>4. QED
      BY <1>13, <2>2, <2>3
         DEF WaitCollect, Goto, devVars, fenceVars, TypeOK, PCs
  <1>14. ASSUME NEW p \in Threads, WaitStart(p)
        PROVE  TypeOK'
    BY <1>14, TimelineAssumption
       DEF WaitStart, At, Goto, devVars, tlVars, fenceVars, threadVars,
           TypeOK, PCs
  <1>15. ASSUME NEW p \in Threads, WaitReturn(p)
        PROVE  TypeOK'
    BY <1>15, TimelineAssumption
       DEF WaitReturn, At, Goto, devVars, tlVars, fenceVars, threadVars,
           TypeOK, PCs
  <1>16. ASSUME NEW p \in Threads, WaitPut(p)
        PROVE  TypeOK'
    <2>1. CASE got[p] # <<>>
      <3>1. /\ Head(got[p]) \in Fences /\ Head(got[p]) \in Range(got[p])
            /\ got' \in [Threads -> Seq(Fences)] /\ dma_fence_put(p, Head(got[p]))
            /\ UNCHANGED <<pc, op, seq>>
        BY <1>16, <2>1, WaitPutShape DEF Without
      <3>2. fref[Head(got[p])] > 0
        BY <3>1 DEF Users
      <3>3. /\ fref' \in [Fences -> Nat] /\ rel' \in [Threads -> Fences \cup {None}]
        BY <3>1, <3>2, FencePutType
      <3>4. QED
        BY <1>16, <3>1, <3>3 DEF WaitPut, devVars, tlVars, TypeOK
    <2>2. CASE got[p] = <<>>
      BY <1>16, <2>2, ZeroSeqno DEF WaitPut, Goto, devVars, tlVars, TypeOK, PCs
    <2>3. QED
      BY <2>1, <2>2
  <1>17. ASSUME NEW p \in Threads, FenceGetInstall(p)
        PROVE  TypeOK'
    <2>1. cur[p] \in Fences
      BY <1>17, ThreadsTimeline DEF FenceGetInstall, At, AllocPCs
    <2>2. fref[cur[p]] + 1 \in Nat
      BY <2>1 DEF TypeOK
    <2>3. fref' \in [Fences -> Nat] /\ fd' \subseteq Fences /\ pc' \in [Threads -> PCs]
      BY <1>17, <2>1, <2>2 DEF FenceGetInstall, Goto, TypeOK, PCs
    <2>4. QED
      BY <1>17, <2>3 DEF FenceGetInstall, devVars, tlVars, TypeOK
  <1>18. ASSUME NEW p \in Threads, kgsl_ioctl_timeline_fence_get(p)
        PROVE  TypeOK'
    <2>1. cur[p] \in Fences /\ fref[cur[p]] > 0
      BY <1>18, ThreadsTimeline DEF kgsl_ioctl_timeline_fence_get, At, AllocPCs
    <2>2. /\ fref' \in [Fences -> Nat] /\ rel' \in [Threads -> Fences \cup {None}]
      BY <1>18, <2>1, FencePutType DEF kgsl_ioctl_timeline_fence_get
    <2>3. QED
      BY <1>18, <2>2
         DEF kgsl_ioctl_timeline_fence_get, Goto, devVars, tlVars, TypeOK, PCs
  <1>19. ASSUME NEW p \in Threads, timeline_fence_release(p)
        PROVE  TypeOK'
    <2>1. /\ rel[p] \in Fences /\ ftl[rel[p]] \in Timelines /\ ftl[rel[p]] # None
          /\ fences' \in [Timelines -> Seq(Fences)]
      BY <1>19, ReleaseShape, TimelineAssumption DEF Without
    <2>2. ref[ftl[rel[p]]] > 0
      BY <2>1 DEF Users
    <2>3. /\ ref' \in [Timelines -> Nat] /\ value' \in [Timelines -> Seqno]
          /\ owner' \in [Timelines -> DevPrivs \cup {None}]
          /\ tid' \in [Timelines -> Ids \cup {None}]
      BY <1>19, <2>1, <2>2, PutType DEF timeline_fence_release
    <2>4. QED
      BY <1>19, <2>1, <2>3, ZeroSeqno
         DEF timeline_fence_release, devVars, TypeOK
  <1>20. ASSUME NEW p \in Threads, DestroyScan(p)
        PROVE  TypeOK'
    <2>1. /\ fences' \in [Timelines -> Seq(Fences)]
          /\ fref' \in [Fences -> Nat] /\ idx' \in [Threads -> Nat]
      <3> DEFINE g == fences[tl[p]][idx[p]]
      <3>1. g \in Fences
        BY <1>20, DestroyScanShape
      <3>2. CASE fref[g] = 0
        <4>1. Without(fences, fences', Timelines, tl[p], g) /\ UNCHANGED <<fref, idx>>
          BY <1>20, <3>2, DestroyScanShape
        <4>2. QED
          BY <4>1 DEF Without, TypeOK
      <3>3. CASE fref[g] # 0
        <4>1. /\ fref' = [fref EXCEPT ![g] = @ + 1]
              /\ idx' = [idx EXCEPT ![p] = @ + 1] /\ UNCHANGED fences
          BY <1>20, <3>3, DestroyScanShape
        <4>2. fref[g] + 1 \in Nat /\ idx[p] + 1 \in Nat
          BY <3>1 DEF TypeOK
        <4>3. QED
          BY <4>1, <4>2 DEF TypeOK
      <3>4. QED
        BY <3>2, <3>3
    <2>2. QED
      BY <1>20, <2>1 DEF DestroyScan, devVars, TypeOK
  <1>21. ASSUME NEW p \in Threads, DestroyScanEnd(p)
        PROVE  TypeOK'
    <2>1. /\ fences' \in [Timelines -> Seq(Fences)] /\ temp' \in [Threads -> Seq(Fences)]
      BY <1>21, DestroyScanEndShape
    <2>2. QED
      BY <1>21, <2>1 DEF DestroyScanEnd, Goto, devVars, fenceVars, TypeOK, PCs
  <1>22. ASSUME NEW p \in Threads, DestroyLock(p)
        PROVE  TypeOK'
    BY <1>22, TimelineAssumption
       DEF DestroyLock, At, Goto, devVars, tlVars, fenceVars, threadVars,
           TypeOK, PCs
  <1>23. ASSUME NEW p \in Threads, DestroyFence(p)
        PROVE  TypeOK'
    <2>1. /\ Head(temp[p]) \in Fences /\ Head(temp[p]) \in Range(temp[p])
          /\ temp' \in [Threads -> Seq(Fences)]
      BY <1>23, PopShape DEF DestroyFence, Without
    <2>2. fref[Head(temp[p])] > 0
      BY <2>1 DEF Users, ScanRefs
    <2>3. /\ fref' \in [Fences -> Nat] /\ rel' \in [Threads -> Fences \cup {None}]
      BY <1>23, <2>1, <2>2, FencePutType DEF DestroyFence
    <2>4. QED
      BY <1>23, <2>1, <2>3 DEF DestroyFence, devVars, tlVars, TypeOK
  <1>24. ASSUME NEW p \in Threads, kgsl_timeline_alloc(p)
        PROVE  TypeOK'
    <2>1. /\ idr' \in [Ids -> Timelines \cup {None, Reserved}]
          /\ ref' \in [Timelines -> Nat] /\ value' \in [Timelines -> Seqno]
          /\ owner' \in [Timelines -> DevPrivs \cup {None}]
          /\ tid' \in [Timelines -> Ids \cup {None}]
          /\ tl' \in [Threads -> Timelines \cup {None}] /\ pc' \in [Threads -> PCs]
      <3>1. PICK t \in Timelines, id \in Ids, n \in Seqno :
              /\ idr' = [idr EXCEPT ![id] = Reserved]
              /\ ref' = [ref EXCEPT ![t] = 1]
              /\ value' = [value EXCEPT ![t] = n]
              /\ owner' = [owner EXCEPT ![t] = DevOf[p]]
              /\ tid' = [tid EXCEPT ![t] = id]
              /\ tl' = [tl EXCEPT ![p] = t]
        BY <1>24 DEF kgsl_timeline_alloc, FreeTimelines
      <3>2. pc' = [pc EXCEPT ![p] = "commit"]
        BY <1>24 DEF kgsl_timeline_alloc, Goto
      <3>3. DevOf[p] \in DevPrivs
        BY TimelineAssumption
      <3>4. QED
        BY <3>1, <3>2, <3>3 DEF TypeOK, PCs
    <2>2. UNCHANGED <<fences, lock, fence_lock>>
      BY <1>24, AllocShape
    <2>3. QED
      BY <1>24, <2>1, <2>2 DEF kgsl_timeline_alloc, fenceVars, TypeOK
  <1>25. ASSUME NEW p \in Threads, kgsl_ioctl_timeline_signal(p)
        PROVE  TypeOK'
    BY <1>25, TimelineAssumption
       DEF kgsl_ioctl_timeline_signal, At, Goto, kgsl_timeline_by_id, devVars,
           tlVars, fenceVars, threadVars, TypeOK, PCs
  <1>26. ASSUME NEW p \in Threads, FenceLookup(p)
        PROVE  TypeOK'
    <2>1. PICK id \in Ids, n \in Seqno :
            kgsl_timeline_by_id(p, id) /\ seq' = [seq EXCEPT ![p] = n]
      BY <1>26 DEF FenceLookup
    <2>2. ref[idr[id]] + 1 \in Nat
      BY <2>1 DEF kgsl_timeline_by_id, TypeOK
    <2>3. /\ ref' \in [Timelines -> Nat] /\ tl' \in [Threads -> Timelines \cup {None}]
          /\ seq' \in [Threads -> Seqno]
      BY <2>1, <2>2 DEF kgsl_timeline_by_id, TypeOK
    <2>a. op' \in [Threads -> {"none", "any", "all", "get"}]
      <3>1. op \in [Threads -> {"none", "any", "all", "get"}]
        BY DEF TypeOK
      <3>2. op' = op \/ \E o \in {"any", "all", "get"} : op' = [op EXCEPT ![p] = o]
        BY <1>26 DEF FenceLookup
      <3> QED BY <3>1, <3>2
    <2>b. pc' \in [Threads -> PCs]
      <3>1. pc \in [Threads -> PCs] /\ "f_alloc" \in PCs
        BY DEF TypeOK, PCs
      <3>2. pc' = [pc EXCEPT ![p] = "f_alloc"]
        BY <1>26 DEF FenceLookup, Goto
      <3> QED BY <3>1, <3>2
    <2>4. op' \in [Threads -> {"none", "any", "all", "get"}] /\ pc' \in [Threads -> PCs]
      BY <2>a, <2>b
    <2>5. QED
      BY <1>26, <2>3, <2>4 DEF FenceLookup, devVars, fenceVars, TypeOK
  <1>27. ASSUME NEW p \in Threads, WaitError(p)
        PROVE  TypeOK'
    BY <1>27, TimelineAssumption
       DEF WaitError, At, Goto, devVars, tlVars, fenceVars, threadVars,
           TypeOK, PCs
  <1>28. ASSUME NEW p \in Threads, WaitTimeout(p)
        PROVE  TypeOK'
    BY <1>28, TimelineAssumption
       DEF WaitTimeout, At, Goto, devVars, tlVars, fenceVars, threadVars,
           TypeOK, PCs
  <1>29. ASSUME NEW p \in Threads, CloseFd(p)
        PROVE  TypeOK'
    <2>1. PICK f \in fd : fd' = fd \ {f} /\ dma_fence_put(p, f)
      BY <1>29 DEF CloseFd
    <2>2. f \in Fences /\ fref[f] > 0
      BY DEF TypeOK, Users
    <2>3. /\ fref' \in [Fences -> Nat] /\ rel' \in [Threads -> Fences \cup {None}]
      BY <2>1, <2>2, FencePutType
    <2>4. QED
      BY <1>29, <2>1, <2>3 DEF CloseFd, devVars, tlVars, TypeOK
  <1>30. ASSUME NEW p \in Threads, kgsl_ioctl_timeline_query(p)
        PROVE  TypeOK'
    BY <1>30, TimelineAssumption
       DEF kgsl_ioctl_timeline_query, At, Goto, kgsl_timeline_by_id, devVars,
           tlVars, fenceVars, threadVars, TypeOK, PCs
  <1>31. ASSUME NEW p \in Threads, kgsl_ioctl_timeline_destroy(p)
        PROVE  TypeOK'
    BY <1>31, TimelineAssumption
       DEF kgsl_ioctl_timeline_destroy, At, Goto, devVars, tlVars, fenceVars,
           threadVars, TypeOK, PCs
  <1>32. ASSUME NEW f \in Fences, Poll(f)
        PROVE  TypeOK'
    BY <1>32, TimelineAssumption
       DEF Poll, At, Goto, devVars, tlVars, fenceVars, threadVars, TypeOK, PCs
  <1>33. CASE UNCHANGED vars
    BY <1>33, TimelineAssumption
       DEF vars, devVars, tlVars, fenceVars, threadVars, TypeOK, PCs
  <1>34. QED
    BY <1>1, <1>2, <1>3, <1>4, <1>5, <1>6, <1>7, <1>8, <1>9, <1>10, <1>11,
       <1>12, <1>13, <1>14, <1>15, <1>16, <1>17, <1>18, <1>19, <1>20, <1>21,
       <1>22, <1>23, <1>24, <1>25, <1>26, <1>27, <1>28, <1>29, <1>30, <1>31,
       <1>32, <1>33
       DEF Next, Step, Choose

\* Every step keeps the locals of the threads in order.
LEMMA ControlStep ==
    ASSUME TypeOK, Control, Locks, Lists, Allocs, Releases, Users, [Next]_vars
    PROVE  Control'
  <1>1. ASSUME NEW p \in Threads, kgsl_ioctl_timeline_create(p)
        PROVE  Control'
    BY <1>1, TimelineAssumption
       DEF kgsl_ioctl_timeline_create, At, Goto, devVars, tlVars, fenceVars,
           threadVars, Control, FreePCs, AllocPCs, TempPCs, GotPCs, RelPCs,
           TypeOK
  <1>2. ASSUME NEW p \in Threads, SignalLock(p)
        PROVE  Control'
    <2>1. UNCHANGED <<op, tl, cur, temp, got, rel>> /\ pc[p] = "s_lock" /\ rel[p] = None
      BY <1>2 DEF SignalLock, At
    <2>2. pc' = [pc EXCEPT ![p] = "put"] \/ pc' = [pc EXCEPT ![p] = "s_scan_lock"]
      BY <1>2 DEF SignalLock, Goto
    <2>3. QED
      BY <2>1, <2>2
         DEF Control, FreePCs, AllocPCs, TempPCs, GotPCs, RelPCs, TypeOK
  <1>3. ASSUME NEW p \in Threads, ScanLock(p)
        PROVE  Control'
    BY <1>3, TimelineAssumption
       DEF ScanLock, At, Goto, devVars, tlVars, fenceVars, threadVars,
           Control, FreePCs, AllocPCs, TempPCs, GotPCs, RelPCs, TypeOK
  <1>4. ASSUME NEW p \in Threads, SignalScan(p)
        PROVE  Control'
    BY <1>4, TimelineAssumption
       DEF SignalScan, At, Goto, devVars, tlVars, fenceVars, threadVars,
           Control, FreePCs, AllocPCs, TempPCs, GotPCs, RelPCs, TypeOK
  <1>5. ASSUME NEW p \in Threads, SignalScanEnd(p)
        PROVE  Control'
    BY <1>5, TimelineAssumption
       DEF SignalScanEnd, At, Goto, devVars, tlVars, fenceVars, threadVars,
           Control, FreePCs, AllocPCs, TempPCs, GotPCs, RelPCs, TypeOK
  <1>6. ASSUME NEW p \in Threads, SignalFence(p)
        PROVE  Control'
    BY <1>6, TimelineAssumption
       DEF SignalFence, At, Goto, dma_fence_put, devVars, tlVars, fenceVars,
           threadVars, Control, FreePCs, AllocPCs, TempPCs, GotPCs, RelPCs,
           TypeOK
  <1>7. ASSUME NEW p \in Threads, SignalUnlock(p)
        PROVE  Control'
    BY <1>7, TimelineAssumption
       DEF SignalUnlock, At, Goto, devVars, tlVars, fenceVars, threadVars,
           Control, FreePCs, AllocPCs, TempPCs, GotPCs, RelPCs, TypeOK
  <1>8. ASSUME NEW p \in Threads, PutTimeline(p)
        PROVE  Control'
    BY <1>8, TimelineAssumption
       DEF PutTimeline, At, Goto, kgsl_timeline_put, devVars, tlVars,
           fenceVars, threadVars, Control, FreePCs, AllocPCs, TempPCs, GotPCs,
           RelPCs, TypeOK
  <1>9. ASSUME NEW p \in Threads, kgsl_timeline_fence_alloc(p)
        PROVE  Control'
    BY <1>9, TimelineAssumption
       DEF kgsl_timeline_fence_alloc, At, Goto, FreeFences, devVars, tlVars,
           fenceVars, threadVars, Control, FreePCs, AllocPCs, TempPCs, GotPCs,
           RelPCs, TypeOK
  <1>10. ASSUME NEW p \in Threads, FenceAllocFails(p)
        PROVE  Control'
    <2>1. UNCHANGED <<op, cur, temp, got, rel>> /\ pc[p] = "f_alloc" /\ rel[p] = None
      BY <1>10 DEF FenceAllocFails, At
    <2>2. \/ op[p] = "get" /\ pc' = [pc EXCEPT ![p] = "put"] /\ tl' = tl
          \/ pc' = [pc EXCEPT ![p] = "w_put"] /\ tl' = [tl EXCEPT ![p] = None]
      BY <1>10 DEF FenceAllocFails, Goto
    <2>3. pc \in [Threads -> PCs] /\ tl \in [Threads -> Timelines \cup {None}]
      BY DEF TypeOK
    <2> SUFFICES ASSUME NEW q \in Threads
                 PROVE  /\ tl'[q] # None <=> pc'[q] \notin FreePCs
                        /\ cur[q] # None <=> pc'[q] \in AllocPCs
                        /\ temp[q] # <<>> => pc'[q] \in TempPCs
                        /\ got[q] # <<>> => pc'[q] \in GotPCs /\ op[q] \in {"any", "all"}
                        /\ rel[q] # None => pc'[q] \in RelPCs
                        /\ pc'[q] = "g_put" => op[q] = "get"
      BY <2>1 DEF Control
    <2>4. CASE q # p
      BY <2>2, <2>3, <2>4 DEF Control
    <2>5. CASE q = p
      <3>1. /\ tl[p] # None /\ cur[p] = None /\ temp[p] = <<>>
            /\ got[p] # <<>> => op[p] \in {"any", "all"}
        BY <2>1 DEF Control, FreePCs, AllocPCs, TempPCs
      <3>2. \/ op[p] = "get" /\ pc'[p] = "put" /\ tl'[p] = tl[p]
            \/ pc'[p] = "w_put" /\ tl'[p] = None
        BY <2>2, <2>3
      <3> QED BY <2>1, <2>5, <3>1, <3>2 DEF FreePCs, AllocPCs, TempPCs, GotPCs, RelPCs
    <2> QED BY <2>4, <2>5
  <1>11. ASSUME NEW p \in Threads, FenceLock(p)
        PROVE  Control'
    BY <1>11, TimelineAssumption
       DEF FenceLock, At, Goto, devVars, tlVars, fenceVars, threadVars,
           Control, FreePCs, AllocPCs, TempPCs, GotPCs, RelPCs, TypeOK
  <1>12. ASSUME NEW p \in Threads, kgsl_timeline_add_fence(p)
        PROVE  Control'
    BY <1>12, TimelineAssumption
       DEF kgsl_timeline_add_fence, At, Goto, devVars, tlVars, fenceVars,
           threadVars, Control, FreePCs, AllocPCs, TempPCs, GotPCs, RelPCs,
           TypeOK
  <1>13. ASSUME NEW p \in Threads, WaitCollect(p)
        PROVE  Control'
    BY <1>13, TimelineAssumption
       DEF WaitCollect, At, Goto, kgsl_timeline_put, devVars, tlVars,
           fenceVars, threadVars, Control, FreePCs, AllocPCs, TempPCs, GotPCs,
           RelPCs, TypeOK
  <1>14. ASSUME NEW p \in Threads, WaitStart(p)
        PROVE  Control'
    BY <1>14, TimelineAssumption
       DEF WaitStart, At, Goto, devVars, tlVars, fenceVars, threadVars,
           Control, FreePCs, AllocPCs, TempPCs, GotPCs, RelPCs, TypeOK
  <1>15. ASSUME NEW p \in Threads, WaitReturn(p)
        PROVE  Control'
    BY <1>15, TimelineAssumption
       DEF WaitReturn, At, Goto, devVars, tlVars, fenceVars, threadVars,
           Control, FreePCs, AllocPCs, TempPCs, GotPCs, RelPCs, TypeOK
  <1>16. ASSUME NEW p \in Threads, WaitPut(p)
        PROVE  Control'
    <2>1. CASE got[p] # <<>>
      <3>1. /\ UNCHANGED <<pc, op, tl, cur, temp>> /\ pc[p] = "w_put" /\ rel[p] = None
            /\ \A q \in Threads : q # p => rel'[q] = rel[q] /\ got'[q] = got[q]
        BY <1>16, <2>1 DEF WaitPut, At, dma_fence_put, TypeOK
      <3>2. QED
        BY <2>1, <3>1 DEF Control, FreePCs, AllocPCs, TempPCs, GotPCs, RelPCs
    <2>2. CASE got[p] = <<>>
      <3>1. /\ UNCHANGED <<tl, cur, temp, got, rel>> /\ pc[p] = "w_put" /\ rel[p] = None
            /\ op' = [op EXCEPT ![p] = "none"] /\ pc' = [pc EXCEPT ![p] = "idle"]
        BY <1>16, <2>2 DEF WaitPut, At, Goto
      <3>2. QED
        BY <2>2, <3>1
           DEF Control, FreePCs, AllocPCs, TempPCs, GotPCs, RelPCs, TypeOK
    <2>3. QED
      BY <2>1, <2>2
  <1>17. ASSUME NEW p \in Threads, FenceGetInstall(p)
        PROVE  Control'
    BY <1>17, TimelineAssumption
       DEF FenceGetInstall, At, Goto, devVars, tlVars, fenceVars, threadVars,
           Control, FreePCs, AllocPCs, TempPCs, GotPCs, RelPCs, TypeOK
  <1>18. ASSUME NEW p \in Threads, kgsl_ioctl_timeline_fence_get(p)
        PROVE  Control'
    BY <1>18, TimelineAssumption
       DEF kgsl_ioctl_timeline_fence_get, At, Goto, dma_fence_put, devVars,
           tlVars, fenceVars, threadVars, Control, FreePCs, AllocPCs, TempPCs,
           GotPCs, RelPCs, TypeOK
  <1>19. ASSUME NEW p \in Threads, timeline_fence_release(p)
        PROVE  Control'
    BY <1>19, TimelineAssumption
       DEF timeline_fence_release, At, Goto, kgsl_timeline_put, devVars,
           tlVars, fenceVars, threadVars, Control, FreePCs, AllocPCs, TempPCs,
           GotPCs, RelPCs, TypeOK
  <1>20. ASSUME NEW p \in Threads, DestroyScan(p)
        PROVE  Control'
    BY <1>20, TimelineAssumption
       DEF DestroyScan, At, Goto, devVars, tlVars, fenceVars, threadVars,
           Control, FreePCs, AllocPCs, TempPCs, GotPCs, RelPCs, TypeOK
  <1>21. ASSUME NEW p \in Threads, DestroyScanEnd(p)
        PROVE  Control'
    BY <1>21, TimelineAssumption
       DEF DestroyScanEnd, At, Goto, devVars, tlVars, fenceVars, threadVars,
           Control, FreePCs, AllocPCs, TempPCs, GotPCs, RelPCs, TypeOK
  <1>22. ASSUME NEW p \in Threads, DestroyLock(p)
        PROVE  Control'
    BY <1>22, TimelineAssumption
       DEF DestroyLock, At, Goto, devVars, tlVars, fenceVars, threadVars,
           Control, FreePCs, AllocPCs, TempPCs, GotPCs, RelPCs, TypeOK
  <1>23. ASSUME NEW p \in Threads, DestroyFence(p)
        PROVE  Control'
    BY <1>23, TimelineAssumption
       DEF DestroyFence, At, Goto, dma_fence_put, devVars, tlVars, fenceVars,
           threadVars, Control, FreePCs, AllocPCs, TempPCs, GotPCs, RelPCs,
           TypeOK
  <1>24. ASSUME NEW p \in Threads, kgsl_timeline_alloc(p)
        PROVE  Control'
    BY <1>24, TimelineAssumption
       DEF kgsl_timeline_alloc, At, Goto, FreeTimelines, devVars, tlVars,
           fenceVars, threadVars, Control, FreePCs, AllocPCs, TempPCs, GotPCs,
           RelPCs, TypeOK
  <1>25. ASSUME NEW p \in Threads, kgsl_ioctl_timeline_signal(p)
        PROVE  Control'
    <2>1. PICK t \in Timelines : tl' = [tl EXCEPT ![p] = t]
      BY <1>25 DEF kgsl_ioctl_timeline_signal, kgsl_timeline_by_id
    <2>2. /\ pc' = [pc EXCEPT ![p] = "s_lock"] /\ rel[p] = None /\ pc[p] = "idle"
          /\ UNCHANGED <<op, cur, temp, got, rel>>
      BY <1>25 DEF kgsl_ioctl_timeline_signal, Goto, At
    <2>3. QED
      BY <2>1, <2>2, TimelineAssumption
         DEF Control, FreePCs, AllocPCs, TempPCs, GotPCs, RelPCs, TypeOK
  <1>26. ASSUME NEW p \in Threads, FenceLookup(p)
        PROVE  Control'
    <2>1. PICK t \in Timelines : tl' = [tl EXCEPT ![p] = t]
      BY <1>26 DEF FenceLookup, kgsl_timeline_by_id
    <2>2. /\ pc' = [pc EXCEPT ![p] = "f_alloc"] /\ rel[p] = None
          /\ UNCHANGED <<cur, temp, got, rel>>
      BY <1>26 DEF FenceLookup, Goto, At
    <2>3. \/ /\ pc[p] = "idle"
             /\ \E o \in {"any", "all", "get"} : op' = [op EXCEPT ![p] = o]
          \/ pc[p] = "w_next" /\ op' = op
      BY <1>26 DEF FenceLookup, At
    <2>4. ASSUME NEW q \in Threads, q # p
          PROVE  /\ pc'[q] = pc[q] /\ tl'[q] = tl[q] /\ op'[q] = op[q] /\ cur'[q] = cur[q]
                 /\ temp'[q] = temp[q] /\ got'[q] = got[q] /\ rel'[q] = rel[q]
      BY <2>1, <2>2, <2>3, <2>4 DEF TypeOK
    <2>5. /\ pc'[p] = "f_alloc" /\ tl'[p] # None /\ cur'[p] = None /\ temp'[p] = <<>>
          /\ rel'[p] = None
          /\ got'[p] # <<>> => op'[p] \in {"any", "all"}
      BY <2>1, <2>2, <2>3, TimelineAssumption
         DEF Control, FreePCs, AllocPCs, TempPCs, GotPCs, TypeOK
    <2>6. QED
      BY <2>4, <2>5 DEF Control, FreePCs, AllocPCs, TempPCs, GotPCs, RelPCs
  <1>27. ASSUME NEW p \in Threads, WaitError(p)
        PROVE  Control'
    BY <1>27, TimelineAssumption
       DEF WaitError, At, Goto, devVars, tlVars, fenceVars, threadVars,
           Control, FreePCs, AllocPCs, TempPCs, GotPCs, RelPCs, TypeOK
  <1>28. ASSUME NEW p \in Threads, WaitTimeout(p)
        PROVE  Control'
    BY <1>28, TimelineAssumption
       DEF WaitTimeout, At, Goto, devVars, tlVars, fenceVars, threadVars,
           Control, FreePCs, AllocPCs, TempPCs, GotPCs, RelPCs, TypeOK
  <1>29. ASSUME NEW p \in Threads, CloseFd(p)
        PROVE  Control'
    BY <1>29, TimelineAssumption
       DEF CloseFd, At, Goto, dma_fence_put, devVars, tlVars, fenceVars,
           threadVars, Control, FreePCs, AllocPCs, TempPCs, GotPCs, RelPCs,
           TypeOK
  <1>30. ASSUME NEW p \in Threads, kgsl_ioctl_timeline_query(p)
        PROVE  Control'
    BY <1>30, TimelineAssumption
       DEF kgsl_ioctl_timeline_query, At, Goto, kgsl_timeline_by_id, devVars,
           tlVars, fenceVars, threadVars, Control, FreePCs, AllocPCs, TempPCs,
           GotPCs, RelPCs, TypeOK
  <1>31. ASSUME NEW p \in Threads, kgsl_ioctl_timeline_destroy(p)
        PROVE  Control'
    BY <1>31, TimelineAssumption
       DEF kgsl_ioctl_timeline_destroy, At, Goto, devVars, tlVars, fenceVars,
           threadVars, Control, FreePCs, AllocPCs, TempPCs, GotPCs, RelPCs,
           TypeOK
  <1>32. ASSUME NEW f \in Fences, Poll(f)
        PROVE  Control'
    BY <1>32, TimelineAssumption
       DEF Poll, At, Goto, devVars, tlVars, fenceVars, threadVars, Control,
           FreePCs, AllocPCs, TempPCs, GotPCs, RelPCs, TypeOK
  <1>33. CASE UNCHANGED vars
    BY <1>33, TimelineAssumption
       DEF vars, devVars, tlVars, fenceVars, threadVars, Control, FreePCs,
           AllocPCs, TempPCs, GotPCs, RelPCs, TypeOK
  <1>34. QED
    BY <1>1, <1>2, <1>3, <1>4, <1>5, <1>6, <1>7, <1>8, <1>9, <1>10, <1>11,
       <1>12, <1>13, <1>14, <1>15, <1>16, <1>17, <1>18, <1>19, <1>20, <1>21,
       <1>22, <1>23, <1>24, <1>25, <1>26, <1>27, <1>28, <1>29, <1>30, <1>31,
       <1>32, <1>33
       DEF Next, Step, Choose

\* Every step keeps each lock with the thread inside its section.
LEMMA LocksStep ==
    ASSUME TypeOK, Control, Locks, Lists, Allocs, Releases, Users, [Next]_vars
    PROVE  Locks'
  <1>1. ASSUME NEW p \in Threads, kgsl_ioctl_timeline_create(p)
        PROVE  Locks'
    BY <1>1, TimelineAssumption
       DEF kgsl_ioctl_timeline_create, At, Goto, devVars, tlVars, fenceVars,
           threadVars, Control, Locks, LockPCs, ScanPCs, FreePCs, TypeOK
  <1>2. ASSUME NEW p \in Threads, SignalLock(p)
        PROVE  Locks'
    BY <1>2, TimelineAssumption
       DEF SignalLock, At, Goto, devVars, tlVars, fenceVars, threadVars,
           Control, Locks, LockPCs, ScanPCs, FreePCs, TypeOK
  <1>3. ASSUME NEW p \in Threads, ScanLock(p)
        PROVE  Locks'
    BY <1>3, TimelineAssumption
       DEF ScanLock, At, Goto, devVars, tlVars, fenceVars, threadVars,
           Control, Locks, LockPCs, ScanPCs, FreePCs, TypeOK
  <1>4. ASSUME NEW p \in Threads, SignalScan(p)
        PROVE  Locks'
    BY <1>4, TimelineAssumption
       DEF SignalScan, At, Goto, devVars, tlVars, fenceVars, threadVars,
           Control, Locks, LockPCs, ScanPCs, FreePCs, TypeOK
  <1>5. ASSUME NEW p \in Threads, SignalScanEnd(p)
        PROVE  Locks'
    BY <1>5, TimelineAssumption
       DEF SignalScanEnd, At, Goto, devVars, tlVars, fenceVars, threadVars,
           Control, Locks, LockPCs, ScanPCs, FreePCs, TypeOK
  <1>6. ASSUME NEW p \in Threads, SignalFence(p)
        PROVE  Locks'
    BY <1>6, TimelineAssumption
       DEF SignalFence, At, Goto, dma_fence_put, devVars, tlVars, fenceVars,
           threadVars, Control, Locks, LockPCs, ScanPCs, FreePCs, TypeOK
  <1>7. ASSUME NEW p \in Threads, SignalUnlock(p)
        PROVE  Locks'
    BY <1>7, TimelineAssumption
       DEF SignalUnlock, At, Goto, devVars, tlVars, fenceVars, threadVars,
           Control, Locks, LockPCs, ScanPCs, FreePCs, TypeOK
  <1>8. ASSUME NEW p \in Threads, PutTimeline(p)
        PROVE  Locks'
    BY <1>8, TimelineAssumption
       DEF PutTimeline, At, Goto, kgsl_timeline_put, devVars, tlVars,
           fenceVars, threadVars, Control, Locks, LockPCs, ScanPCs, FreePCs,
           TypeOK
  <1>9. ASSUME NEW p \in Threads, kgsl_timeline_fence_alloc(p)
        PROVE  Locks'
    BY <1>9, TimelineAssumption
       DEF kgsl_timeline_fence_alloc, At, Goto, FreeFences, devVars, tlVars,
           fenceVars, threadVars, Control, Locks, LockPCs, ScanPCs, FreePCs,
           TypeOK
  <1>10. ASSUME NEW p \in Threads, FenceAllocFails(p)
        PROVE  Locks'
    BY <1>10, TimelineAssumption
       DEF FenceAllocFails, At, Goto, kgsl_timeline_put, devVars, tlVars,
           fenceVars, threadVars, Control, Locks, LockPCs, ScanPCs, FreePCs,
           TypeOK
  <1>11. ASSUME NEW p \in Threads, FenceLock(p)
        PROVE  Locks'
    BY <1>11, TimelineAssumption
       DEF FenceLock, At, Goto, devVars, tlVars, fenceVars, threadVars,
           Control, Locks, LockPCs, ScanPCs, FreePCs, TypeOK
  <1>12. ASSUME NEW p \in Threads, kgsl_timeline_add_fence(p)
        PROVE  Locks'
    BY <1>12, TimelineAssumption
       DEF kgsl_timeline_add_fence, At, Goto, devVars, tlVars, fenceVars,
           threadVars, Control, Locks, LockPCs, ScanPCs, FreePCs, TypeOK
  <1>13. ASSUME NEW p \in Threads, WaitCollect(p)
        PROVE  Locks'
    BY <1>13, TimelineAssumption
       DEF WaitCollect, At, Goto, kgsl_timeline_put, devVars, tlVars,
           fenceVars, threadVars, Control, Locks, LockPCs, ScanPCs, FreePCs,
           TypeOK
  <1>14. ASSUME NEW p \in Threads, WaitStart(p)
        PROVE  Locks'
    BY <1>14, TimelineAssumption
       DEF WaitStart, At, Goto, devVars, tlVars, fenceVars, threadVars,
           Control, Locks, LockPCs, ScanPCs, FreePCs, TypeOK
  <1>15. ASSUME NEW p \in Threads, WaitReturn(p)
        PROVE  Locks'
    BY <1>15, TimelineAssumption
       DEF WaitReturn, At, Goto, devVars, tlVars, fenceVars, threadVars,
           Control, Locks, LockPCs, ScanPCs, FreePCs, TypeOK
  <1>16. ASSUME NEW p \in Threads, WaitPut(p)
        PROVE  Locks'
    BY <1>16, TimelineAssumption
       DEF WaitPut, At, Goto, dma_fence_put, devVars, tlVars, fenceVars,
           threadVars, Control, Locks, LockPCs, ScanPCs, FreePCs, TypeOK
  <1>17. ASSUME NEW p \in Threads, FenceGetInstall(p)
        PROVE  Locks'
    BY <1>17, TimelineAssumption
       DEF FenceGetInstall, At, Goto, devVars, tlVars, fenceVars, threadVars,
           Control, Locks, LockPCs, ScanPCs, FreePCs, TypeOK
  <1>18. ASSUME NEW p \in Threads, kgsl_ioctl_timeline_fence_get(p)
        PROVE  Locks'
    BY <1>18, TimelineAssumption
       DEF kgsl_ioctl_timeline_fence_get, At, Goto, dma_fence_put, devVars,
           tlVars, fenceVars, threadVars, Control, Locks, LockPCs, ScanPCs,
           FreePCs, TypeOK
  <1>19. ASSUME NEW p \in Threads, timeline_fence_release(p)
        PROVE  Locks'
    BY <1>19, TimelineAssumption
       DEF timeline_fence_release, At, Goto, kgsl_timeline_put, devVars,
           tlVars, fenceVars, threadVars, Control, Locks, LockPCs, ScanPCs,
           FreePCs, TypeOK
  <1>20. ASSUME NEW p \in Threads, DestroyScan(p)
        PROVE  Locks'
    BY <1>20, TimelineAssumption
       DEF DestroyScan, At, Goto, devVars, tlVars, fenceVars, threadVars,
           Control, Locks, LockPCs, ScanPCs, FreePCs, TypeOK
  <1>21. ASSUME NEW p \in Threads, DestroyScanEnd(p)
        PROVE  Locks'
    BY <1>21, TimelineAssumption
       DEF DestroyScanEnd, At, Goto, devVars, tlVars, fenceVars, threadVars,
           Control, Locks, LockPCs, ScanPCs, FreePCs, TypeOK
  <1>22. ASSUME NEW p \in Threads, DestroyLock(p)
        PROVE  Locks'
    BY <1>22, TimelineAssumption
       DEF DestroyLock, At, Goto, devVars, tlVars, fenceVars, threadVars,
           Control, Locks, LockPCs, ScanPCs, FreePCs, TypeOK
  <1>23. ASSUME NEW p \in Threads, DestroyFence(p)
        PROVE  Locks'
    BY <1>23, TimelineAssumption
       DEF DestroyFence, At, Goto, dma_fence_put, devVars, tlVars, fenceVars,
           threadVars, Control, Locks, LockPCs, ScanPCs, FreePCs, TypeOK
  <1>24. ASSUME NEW p \in Threads, kgsl_timeline_alloc(p)
        PROVE  Locks'
    <2>1. UNCHANGED <<fences, lock, fence_lock>>
      BY <1>24, AllocShape
    <2>2. PICK t \in FreeTimelines : tl' = [tl EXCEPT ![p] = t]
      BY <1>24 DEF kgsl_timeline_alloc
    <2>3. pc[p] = "idle" /\ pc' = [pc EXCEPT ![p] = "commit"]
      BY <1>24 DEF kgsl_timeline_alloc, At, Goto
    <2>4. QED
      BY <2>1, <2>2, <2>3, TimelineAssumption
         DEF Control, Locks, LockPCs, ScanPCs, FreePCs, TypeOK, FreeTimelines
  <1>25. ASSUME NEW p \in Threads, kgsl_ioctl_timeline_signal(p)
        PROVE  Locks'
    BY <1>25, TimelineAssumption
       DEF kgsl_ioctl_timeline_signal, At, Goto, kgsl_timeline_by_id, devVars,
           tlVars, fenceVars, threadVars, Control, Locks, LockPCs, ScanPCs,
           FreePCs, TypeOK
  <1>26. ASSUME NEW p \in Threads, FenceLookup(p)
        PROVE  Locks'
    BY <1>26, TimelineAssumption
       DEF FenceLookup, At, Goto, kgsl_timeline_by_id, devVars, tlVars,
           fenceVars, threadVars, Control, Locks, LockPCs, ScanPCs, FreePCs,
           TypeOK
  <1>27. ASSUME NEW p \in Threads, WaitError(p)
        PROVE  Locks'
    BY <1>27, TimelineAssumption
       DEF WaitError, At, Goto, devVars, tlVars, fenceVars, threadVars,
           Control, Locks, LockPCs, ScanPCs, FreePCs, TypeOK
  <1>28. ASSUME NEW p \in Threads, WaitTimeout(p)
        PROVE  Locks'
    BY <1>28, TimelineAssumption
       DEF WaitTimeout, At, Goto, devVars, tlVars, fenceVars, threadVars,
           Control, Locks, LockPCs, ScanPCs, FreePCs, TypeOK
  <1>29. ASSUME NEW p \in Threads, CloseFd(p)
        PROVE  Locks'
    BY <1>29, TimelineAssumption
       DEF CloseFd, At, Goto, dma_fence_put, devVars, tlVars, fenceVars,
           threadVars, Control, Locks, LockPCs, ScanPCs, FreePCs, TypeOK
  <1>30. ASSUME NEW p \in Threads, kgsl_ioctl_timeline_query(p)
        PROVE  Locks'
    BY <1>30, TimelineAssumption
       DEF kgsl_ioctl_timeline_query, At, Goto, kgsl_timeline_by_id, devVars,
           tlVars, fenceVars, threadVars, Control, Locks, LockPCs, ScanPCs,
           FreePCs, TypeOK
  <1>31. ASSUME NEW p \in Threads, kgsl_ioctl_timeline_destroy(p)
        PROVE  Locks'
    BY <1>31, TimelineAssumption
       DEF kgsl_ioctl_timeline_destroy, At, Goto, devVars, tlVars, fenceVars,
           threadVars, Control, Locks, LockPCs, ScanPCs, FreePCs, TypeOK
  <1>32. ASSUME NEW f \in Fences, Poll(f)
        PROVE  Locks'
    BY <1>32, TimelineAssumption
       DEF Poll, At, Goto, devVars, tlVars, fenceVars, threadVars, Control,
           Locks, LockPCs, ScanPCs, FreePCs, TypeOK
  <1>33. CASE UNCHANGED vars
    BY <1>33, TimelineAssumption
       DEF vars, devVars, tlVars, fenceVars, threadVars, Control, Locks,
           LockPCs, ScanPCs, FreePCs, TypeOK
  <1>34. QED
    BY <1>1, <1>2, <1>3, <1>4, <1>5, <1>6, <1>7, <1>8, <1>9, <1>10, <1>11,
       <1>12, <1>13, <1>14, <1>15, <1>16, <1>17, <1>18, <1>19, <1>20, <1>21,
       <1>22, <1>23, <1>24, <1>25, <1>26, <1>27, <1>28, <1>29, <1>30, <1>31,
       <1>32, <1>33
       DEF Next, Step, Choose

\* A thread has fences on temp and in its array only where it uses them.
Empties ==
    \A p \in Threads :
        /\ pc[p] \notin TempPCs => Range(temp[p]) = {}
        /\ pc[p] \notin GotPCs => Range(got[p]) = {}

\* The empty list has no elements.
LEMMA EmptyRange == Range(<<>>) = {}
  <1>1. <<>> \in Seq(Fences) /\ Len(<<>>) = 0 /\ 1 .. 0 = {}
    OBVIOUS
  <1>2. \A x : x \in Range(<<>>) <=> \E i \in 1 .. Len(<<>>) : <<>>[i] = x
    BY <1>1, RangeIs
  <1>3. QED
    BY <1>1, <1>2

\* Outside these points the lists temp and got are empty.
LEMMA ControlGivesEmpties ==
    ASSUME Control
    PROVE  Empties
  BY EmptyRange DEF Control, Empties

\* Every list holds fences.
LEMMA ListsOfFences ==
    ASSUME TypeOK
    PROVE  /\ \A t \in Timelines : Range(fences[t]) \subseteq Fences /\ Len(fences[t]) \in Nat
           /\ \A p \in Threads : Range(temp[p]) \subseteq Fences /\ Range(got[p]) \subseteq Fences
  <1>1. ASSUME NEW t \in Timelines
        PROVE  Range(fences[t]) \subseteq Fences /\ Len(fences[t]) \in Nat
    <2>1. fences[t] \in Seq(Fences)
      BY DEF TypeOK
    <2>2. QED
      BY <2>1, RangeIs
  <1>2. ASSUME NEW p \in Threads
        PROVE  Range(temp[p]) \subseteq Fences /\ Range(got[p]) \subseteq Fences
    <2>1. temp[p] \in Seq(Fences) /\ got[p] \in Seq(Fences)
      BY DEF TypeOK
    <2>2. QED
      BY <2>1, RangeIs
  <1>3. QED
    BY <1>1, <1>2

\* A thread without temp may change its timeline.
LEMMA ListSetsTl ==
    ASSUME Lists, Empties, NEW p \in Threads, pc[p] \notin TempPCs,
           UNCHANGED <<ftl, fences, temp, got>>,
           \A q \in Threads : q # p => tl'[q] = tl[q]
    PROVE  ListSets'
  <1>1. ASSUME NEW q \in Threads, NEW h \in Range(temp[q])
        PROVE  ftl[h] = tl'[q] /\ h \notin Range(fences[tl'[q]])
    <2>1. q # p
      BY <1>1 DEF Empties
    <2>2. QED
      BY <2>1 DEF Lists, ListSets
  <1>2. QED
    BY <1>1 DEF Lists, ListSets

\* Every step keeps the lists free of repetitions and of fences of other
\* timelines.
LEMMA ListSetsStep ==
    ASSUME TypeOK, Control, Locks, Lists, Allocs, Releases, Users, Empties,
           [Next]_vars
    PROVE  ListSets'
  <1>1. ASSUME NEW p \in Threads, kgsl_ioctl_timeline_create(p)
        PROVE  ListSets'
    <2>1. /\ pc[p] \notin TempPCs /\ UNCHANGED <<ftl, fences, temp, got>>
          /\ \A q \in Threads : q # p => tl'[q] = tl[q]
      BY <1>1
         DEF kgsl_ioctl_timeline_create, At, fenceVars, tlVars, TempPCs,
             TypeOK
    <2>2. QED
      BY <2>1, ListSetsTl
  <1>2. ASSUME NEW p \in Threads, SignalLock(p)
        PROVE  ListSets'
    BY <1>2, TimelineAssumption
       DEF SignalLock, At, Goto, devVars, tlVars, fenceVars, threadVars,
           Lists, ListSets, Control, FreePCs, TempPCs, Empties, TypeOK
  <1>3. ASSUME NEW p \in Threads, ScanLock(p)
        PROVE  ListSets'
    BY <1>3, TimelineAssumption
       DEF ScanLock, At, Goto, devVars, tlVars, fenceVars, threadVars, Lists,
           ListSets, Control, FreePCs, TempPCs, Empties, TypeOK
  <1>4. ASSUME NEW p \in Threads, SignalScan(p)
        PROVE  ListSets'
    <2> DEFINE g == fences[tl[p]][idx[p]]
    <2>1. tl[p] \in Timelines /\ g \in Fences /\ g \in Range(fences[tl[p]]) /\ ftl[g] = tl[p]
      BY <1>4, SignalScanShape
    <2>2. UNCHANGED <<ftl, tl, got>>
      BY <1>4 DEF SignalScan
    <2>3. CASE timeline_fence_signaled(g) /\ fref[g] > 0
      <3>1. /\ Without(fences, fences', Timelines, tl[p], g)
            /\ With(temp, temp', Threads, p, g)
        BY <1>4, <2>3, SignalScanShape
      <3> HIDE DEF g
      <3>2. \A q \in Threads : Range(temp'[q]) # {} => tl[q] \in Timelines
        BY <2>1, <3>1 DEF With, Empties, TempPCs, FreePCs, Control, TypeOK
      <3>3. ASSUME NEW u \in Timelines
            PROVE  Distinct(fences'[u]) /\ \A h \in Range(fences'[u]) : ftl'[h] = u
        BY <2>2, <3>1 DEF Without, Lists, ListSets
      <3>4. ASSUME NEW q \in Threads
            PROVE  /\ Distinct(temp'[q]) /\ Distinct(got'[q])
                   /\ \A h \in Range(temp'[q]) : ftl'[h] = tl'[q] /\ h \notin Range(fences'[tl'[q]])
        <4>1. Distinct(temp'[q]) /\ Distinct(got'[q])
          BY <2>2, <3>1 DEF With, Lists, ListSets
        <4>2. ASSUME NEW h \in Range(temp'[q])
              PROVE  ftl[h] = tl[q] /\ h \notin Range(fences'[tl[q]])
          <5>1. CASE h \in Range(temp[q])
            BY <3>1, <3>2, <5>1 DEF Without, Lists, ListSets
          <5>2. CASE h = g /\ q = p
            BY <2>1, <3>1, <5>2 DEF Without
          <5>3. QED
            BY <3>1, <5>1, <5>2 DEF With
        <4>3. QED
          BY <2>2, <4>1, <4>2
      <3>5. QED
        BY <3>3, <3>4 DEF ListSets
    <2>4. CASE ~(timeline_fence_signaled(g) /\ fref[g] > 0)
      <3>1. UNCHANGED <<fences, temp>>
        BY <1>4, <2>4, SignalScanShape
      <3>2. QED
        BY <2>2, <3>1 DEF Lists, ListSets
    <2>5. QED
      BY <2>3, <2>4
  <1>5. ASSUME NEW p \in Threads, SignalScanEnd(p)
        PROVE  ListSets'
    BY <1>5, TimelineAssumption
       DEF SignalScanEnd, At, Goto, devVars, tlVars, fenceVars, threadVars,
           Lists, ListSets, Control, FreePCs, TempPCs, Empties, TypeOK
  <1>6. ASSUME NEW p \in Threads, SignalFence(p)
        PROVE  ListSets'
    <2>1. UNCHANGED <<ftl, fences, got, tl>> /\ Without(temp, temp', Threads, p, Head(temp[p]))
      BY <1>6, PopShape DEF SignalFence, tlVars
    <2>2. QED
      BY <2>1 DEF Without, Lists, ListSets
  <1>7. ASSUME NEW p \in Threads, SignalUnlock(p)
        PROVE  ListSets'
    BY <1>7, TimelineAssumption
       DEF SignalUnlock, At, Goto, devVars, tlVars, fenceVars, threadVars,
           Lists, ListSets, Control, FreePCs, TempPCs, Empties, TypeOK
  <1>8. ASSUME NEW p \in Threads, PutTimeline(p)
        PROVE  ListSets'
    <2>1. /\ pc[p] \notin TempPCs /\ UNCHANGED <<ftl, fences, temp, got>>
          /\ \A q \in Threads : q # p => tl'[q] = tl[q]
      BY <1>8 DEF PutTimeline, At, fenceVars, TempPCs, TypeOK
    <2>2. QED
      BY <2>1, ListSetsTl
  <1>9. ASSUME NEW p \in Threads, kgsl_timeline_fence_alloc(p)
        PROVE  ListSets'
    <2>1. PICK g \in Fences : ftl[g] = None /\ ftl' = [ftl EXCEPT ![g] = tl[p]]
      BY <1>9 DEF kgsl_timeline_fence_alloc, FreeFences
    <2>2. UNCHANGED <<fences, temp, got, tl>>
      BY <1>9 DEF kgsl_timeline_fence_alloc
    <2>3. \A u \in Timelines : g \notin Range(fences[u])
      BY <2>1, TimelineAssumption DEF Lists, ListSets
    <2>4. \A q \in Threads : g \notin Range(temp[q])
      BY <2>1, TimelineAssumption
         DEF Lists, ListSets, Empties, TempPCs, FreePCs, Control
    <2>5. QED
      BY <2>1, <2>2, <2>3, <2>4, ListsOfFences DEF Lists, ListSets, TypeOK
  <1>10. ASSUME NEW p \in Threads, FenceAllocFails(p)
        PROVE  ListSets'
    <2>1. /\ pc[p] \notin TempPCs /\ UNCHANGED <<ftl, fences, temp, got>>
          /\ \A q \in Threads : q # p => tl'[q] = tl[q]
      BY <1>10 DEF FenceAllocFails, At, fenceVars, TempPCs, TypeOK
    <2>2. QED
      BY <2>1, ListSetsTl
  <1>11. ASSUME NEW p \in Threads, FenceLock(p)
        PROVE  ListSets'
    BY <1>11, TimelineAssumption
       DEF FenceLock, At, Goto, devVars, tlVars, fenceVars, threadVars, Lists,
           ListSets, Control, FreePCs, TempPCs, Empties, TypeOK
  <1>12. ASSUME NEW p \in Threads, kgsl_timeline_add_fence(p)
        PROVE  ListSets'
    <2>1. UNCHANGED <<ftl, tl, got, temp>>
      BY <1>12 DEF kgsl_timeline_add_fence, fenceVars
    <2>2. \A q \in Threads : cur[p] \notin Range(temp[q])
      BY <1>12 DEF kgsl_timeline_add_fence, At, Allocs, Control, AllocPCs
    <2>3. \A q \in Threads : Range(temp[q]) # {} => tl[q] \in Timelines
      BY DEF Empties, TempPCs, FreePCs, Control, TypeOK
    <2>4. /\ tl[p] \in Timelines /\ ftl[cur[p]] = tl[p]
          /\ With(fences, fences', Timelines, tl[p], cur[p])
      BY <1>12, AddShape
    <2>5. ASSUME NEW u \in Timelines
          PROVE  Distinct(fences'[u]) /\ \A h \in Range(fences'[u]) : ftl'[h] = u
      BY <2>1, <2>4 DEF With, Lists, ListSets
    <2>6. ASSUME NEW q \in Threads, NEW h \in Range(temp[q])
          PROVE  ftl[h] = tl[q] /\ h \notin Range(fences'[tl[q]])
      <3>1. h # cur[p] /\ tl[q] \in Timelines
        BY <2>2, <2>3
      <3>2. ftl[h] = tl[q] /\ h \notin Range(fences[tl[q]])
        BY DEF Lists, ListSets
      <3>3. h \notin Range(fences'[tl[q]])
        BY <2>4, <3>1, <3>2 DEF With
      <3>4. QED
        BY <3>2, <3>3
    <2>7. QED
      BY <2>1, <2>5, <2>6 DEF Lists, ListSets
  <1>13. ASSUME NEW p \in Threads, WaitCollect(p)
        PROVE  ListSets'
    <2>1. UNCHANGED <<ftl, fences, temp>> /\ tl' = [tl EXCEPT ![p] = None] /\ pc[p] = "f_done"
      BY <1>13 DEF WaitCollect, At, fenceVars
    <2>2. With(got, got', Threads, p, cur[p])
      BY <1>13, CollectShape
    <2>3. QED
      BY <2>1, <2>2 DEF With, Lists, ListSets, Empties, TempPCs, TypeOK
  <1>14. ASSUME NEW p \in Threads, WaitStart(p)
        PROVE  ListSets'
    BY <1>14, TimelineAssumption
       DEF WaitStart, At, Goto, devVars, tlVars, fenceVars, threadVars, Lists,
           ListSets, Control, FreePCs, TempPCs, Empties, TypeOK
  <1>15. ASSUME NEW p \in Threads, WaitReturn(p)
        PROVE  ListSets'
    BY <1>15, TimelineAssumption
       DEF WaitReturn, At, Goto, devVars, tlVars, fenceVars, threadVars,
           Lists, ListSets, Control, FreePCs, TempPCs, Empties, TypeOK
  <1>16. ASSUME NEW p \in Threads, WaitPut(p)
        PROVE  ListSets'
    <2>1. UNCHANGED <<ftl, fences, temp, tl>>
      BY <1>16 DEF WaitPut, tlVars
    <2>2. \A q \in Threads : Distinct(got'[q])
      BY <1>16, WaitPutShape DEF Without, Lists, ListSets
    <2>3. QED
      BY <2>1, <2>2 DEF Lists, ListSets
  <1>17. ASSUME NEW p \in Threads, FenceGetInstall(p)
        PROVE  ListSets'
    BY <1>17, TimelineAssumption
       DEF FenceGetInstall, At, Goto, devVars, tlVars, fenceVars, threadVars,
           Lists, ListSets, Control, FreePCs, TempPCs, Empties, TypeOK
  <1>18. ASSUME NEW p \in Threads, kgsl_ioctl_timeline_fence_get(p)
        PROVE  ListSets'
    BY <1>18, TimelineAssumption
       DEF kgsl_ioctl_timeline_fence_get, At, Goto, dma_fence_put, devVars,
           tlVars, fenceVars, threadVars, Lists, ListSets, Control, FreePCs,
           TempPCs, Empties, TypeOK
  <1>19. ASSUME NEW p \in Threads, timeline_fence_release(p)
        PROVE  ListSets'
    <2>1. UNCHANGED <<tl, got, temp>> /\ ftl' = [ftl EXCEPT ![rel[p]] = None]
      BY <1>19 DEF timeline_fence_release
    <2>2. /\ rel[p] \in Fences /\ ftl[rel[p]] \in Timelines /\ fref[rel[p]] = 0
          /\ Without(fences, fences', Timelines, ftl[rel[p]], rel[p])
      BY <1>19, ReleaseShape
    <2>3. \A q \in Threads : rel[p] \notin Range(temp[q])
      BY <2>2 DEF Users, ScanRefs
    <2>4. \A q \in Threads : Range(temp[q]) # {} => tl[q] \in Timelines
      BY DEF Empties, TempPCs, FreePCs, Control, TypeOK
    <2>5. ASSUME NEW u \in Timelines
          PROVE  Distinct(fences'[u]) /\ \A h \in Range(fences'[u]) : ftl'[h] = u
      <3>1. Range(fences'[u]) \subseteq Fences /\ rel[p] \notin Range(fences'[u])
        BY <2>2, ListsOfFences DEF Without, Lists, ListSets
      <3>2. QED
        BY <2>1, <2>2, <3>1 DEF Without, Lists, ListSets, TypeOK
    <2>6. ASSUME NEW q \in Threads
          PROVE  /\ Distinct(temp'[q]) /\ Distinct(got'[q])
                 /\ \A h \in Range(temp'[q]) : ftl'[h] = tl'[q] /\ h \notin Range(fences'[tl'[q]])
      <3>1. Range(temp[q]) \subseteq Fences
        BY ListsOfFences
      <3>2. ASSUME NEW h \in Range(temp[q])
            PROVE  ftl'[h] = tl[q] /\ h \notin Range(fences'[tl[q]])
        <4>1. h \in Fences /\ h # rel[p] /\ tl[q] \in Timelines
          BY <2>3, <2>4, <3>1
        <4>2. ftl[h] = tl[q] /\ h \notin Range(fences[tl[q]])
          BY DEF Lists, ListSets
        <4>3. h \notin Range(fences'[tl[q]])
          BY <2>2, <4>1, <4>2 DEF Without
        <4>4. QED
          BY <2>1, <4>1, <4>2, <4>3 DEF TypeOK
      <3>3. QED
        BY <2>1, <3>2 DEF Lists, ListSets
    <2>7. QED
      BY <2>5, <2>6 DEF ListSets
  <1>20. ASSUME NEW p \in Threads, DestroyScan(p)
        PROVE  ListSets'
    <2> DEFINE g == fences[tl[p]][idx[p]]
    <2>1. tl[p] \in Timelines /\ g \in Fences
      BY <1>20, DestroyScanShape
    <2>2. UNCHANGED <<ftl, tl, got, temp>>
      BY <1>20 DEF DestroyScan
    <2>3. UNCHANGED fences \/ Without(fences, fences', Timelines, tl[p], g)
      BY <1>20, DestroyScanShape
    <2> HIDE DEF g
    <2>4. \A q \in Threads : Range(temp[q]) # {} => tl[q] \in Timelines
      BY DEF Empties, TempPCs, FreePCs, Control, TypeOK
    <2>5. QED
      BY <2>1, <2>2, <2>3, <2>4 DEF Without, Lists, ListSets
  <1>21. ASSUME NEW p \in Threads, DestroyScanEnd(p)
        PROVE  ListSets'
    <2>1. UNCHANGED <<ftl, tl, got>>
      BY <1>21 DEF DestroyScanEnd, fenceVars
    <2>2. \A q \in Threads : Range(temp[q]) # {} => tl[q] \in Timelines
      BY DEF Empties, TempPCs, FreePCs, Control, TypeOK
    <2>3. ASSUME NEW u \in Timelines
          PROVE  Distinct(fences'[u]) /\ \A h \in Range(fences'[u]) : ftl'[h] = u
      BY <1>21, <2>1, DestroyScanEndShape DEF Lists, ListSets
    <2>4. ASSUME NEW q \in Threads, NEW h \in Range(temp'[q])
          PROVE  ftl[h] = tl[q] /\ h \notin Range(fences'[tl[q]])
      <3>1. CASE q = p
        <4>1. tl[p] \in Timelines /\ h \in Range(fences[tl[p]]) /\ Range(fences'[tl[p]]) = {}
          BY <1>21, <2>4, <3>1, DestroyScanEndShape
        <4>2. QED
          BY <3>1, <4>1 DEF Lists, ListSets
      <3>2. CASE q # p
        <4>1. h \in Range(temp[q])
          BY <1>21, <2>4, <3>2, DestroyScanEndShape
        <4>2. tl[q] \in Timelines /\ ftl[h] = tl[q] /\ h \notin Range(fences[tl[q]])
          BY <2>2, <4>1 DEF Lists, ListSets
        <4>3. h \notin Range(fences'[tl[q]])
          BY <1>21, <4>2, DestroyScanEndShape
        <4>4. QED
          BY <4>2, <4>3
      <3>3. QED
        BY <3>1, <3>2
    <2>5. \A q \in Threads : Distinct(temp'[q])
      BY <1>21, DestroyScanEndShape
    <2>6. QED
      BY <2>1, <2>3, <2>4, <2>5 DEF Lists, ListSets
  <1>22. ASSUME NEW p \in Threads, DestroyLock(p)
        PROVE  ListSets'
    BY <1>22, TimelineAssumption
       DEF DestroyLock, At, Goto, devVars, tlVars, fenceVars, threadVars,
           Lists, ListSets, Control, FreePCs, TempPCs, Empties, TypeOK
  <1>23. ASSUME NEW p \in Threads, DestroyFence(p)
        PROVE  ListSets'
    <2>1. UNCHANGED <<ftl, fences, got, tl>> /\ Without(temp, temp', Threads, p, Head(temp[p]))
      BY <1>23, PopShape DEF DestroyFence, tlVars
    <2>2. QED
      BY <2>1 DEF Without, Lists, ListSets
  <1>24. ASSUME NEW p \in Threads, kgsl_timeline_alloc(p)
        PROVE  ListSets'
    <2>1. UNCHANGED <<fences, lock, fence_lock>>
      BY <1>24, AllocShape
    <2>2. PICK t \in Timelines : tl' = [tl EXCEPT ![p] = t]
      BY <1>24 DEF kgsl_timeline_alloc, FreeTimelines
    <2>3. pc[p] = "idle" /\ UNCHANGED <<ftl, temp, got>>
      BY <1>24 DEF kgsl_timeline_alloc, At, fenceVars
    <2>4. QED
      BY <2>1, <2>2, <2>3 DEF Lists, ListSets, Empties, TempPCs, TypeOK
  <1>25. ASSUME NEW p \in Threads, kgsl_ioctl_timeline_signal(p)
        PROVE  ListSets'
    <2>1. /\ pc[p] \notin TempPCs /\ UNCHANGED <<ftl, fences, temp, got>>
          /\ \A q \in Threads : q # p => tl'[q] = tl[q]
      BY <1>25
         DEF kgsl_ioctl_timeline_signal, At, fenceVars, kgsl_timeline_by_id,
             TempPCs, TypeOK
    <2>2. QED
      BY <2>1, ListSetsTl
  <1>26. ASSUME NEW p \in Threads, FenceLookup(p)
        PROVE  ListSets'
    <2>1. /\ pc[p] \notin TempPCs /\ UNCHANGED <<ftl, fences, temp, got>>
          /\ \A q \in Threads : q # p => tl'[q] = tl[q]
      BY <1>26
         DEF FenceLookup, At, fenceVars, kgsl_timeline_by_id, TempPCs, TypeOK
    <2>2. QED
      BY <2>1, ListSetsTl
  <1>27. ASSUME NEW p \in Threads, WaitError(p)
        PROVE  ListSets'
    BY <1>27, TimelineAssumption
       DEF WaitError, At, Goto, devVars, tlVars, fenceVars, threadVars, Lists,
           ListSets, Control, FreePCs, TempPCs, Empties, TypeOK
  <1>28. ASSUME NEW p \in Threads, WaitTimeout(p)
        PROVE  ListSets'
    BY <1>28, TimelineAssumption
       DEF WaitTimeout, At, Goto, devVars, tlVars, fenceVars, threadVars,
           Lists, ListSets, Control, FreePCs, TempPCs, Empties, TypeOK
  <1>29. ASSUME NEW p \in Threads, CloseFd(p)
        PROVE  ListSets'
    BY <1>29, TimelineAssumption
       DEF CloseFd, At, Goto, dma_fence_put, devVars, tlVars, fenceVars,
           threadVars, Lists, ListSets, Control, FreePCs, TempPCs, Empties,
           TypeOK
  <1>30. ASSUME NEW p \in Threads, kgsl_ioctl_timeline_query(p)
        PROVE  ListSets'
    <2>1. /\ pc[p] \notin TempPCs /\ UNCHANGED <<ftl, fences, temp, got>>
          /\ \A q \in Threads : q # p => tl'[q] = tl[q]
      BY <1>30
         DEF kgsl_ioctl_timeline_query, At, fenceVars, kgsl_timeline_by_id,
             TempPCs, TypeOK
    <2>2. QED
      BY <2>1, ListSetsTl
  <1>31. ASSUME NEW p \in Threads, kgsl_ioctl_timeline_destroy(p)
        PROVE  ListSets'
    <2>1. /\ pc[p] \notin TempPCs /\ UNCHANGED <<ftl, fences, temp, got>>
          /\ \A q \in Threads : q # p => tl'[q] = tl[q]
      BY <1>31
         DEF kgsl_ioctl_timeline_destroy, At, fenceVars, tlVars, TempPCs,
             TypeOK
    <2>2. QED
      BY <2>1, ListSetsTl
  <1>32. ASSUME NEW f \in Fences, Poll(f)
        PROVE  ListSets'
    BY <1>32, TimelineAssumption
       DEF Poll, At, Goto, devVars, tlVars, fenceVars, threadVars, Lists,
           ListSets, Control, FreePCs, TempPCs, Empties, TypeOK
  <1>33. CASE UNCHANGED vars
    BY <1>33, TimelineAssumption
       DEF vars, devVars, tlVars, fenceVars, threadVars, Lists, ListSets,
           Control, FreePCs, TempPCs, Empties, TypeOK
  <1>34. QED
    BY <1>1, <1>2, <1>3, <1>4, <1>5, <1>6, <1>7, <1>8, <1>9, <1>10, <1>11,
       <1>12, <1>13, <1>14, <1>15, <1>16, <1>17, <1>18, <1>19, <1>20, <1>21,
       <1>22, <1>23, <1>24, <1>25, <1>26, <1>27, <1>28, <1>29, <1>30, <1>31,
       <1>32, <1>33
       DEF Next, Step, Choose

\* A step that changes neither the lists nor what the threads scan keeps the
\* scans inside their lists.
LEMMA ScanInsideKept ==
    ASSUME Lists, UNCHANGED <<fences, idx>>,
           \A q \in Threads : pc'[q] \in ScanPCs => pc[q] \in ScanPCs /\ tl'[q] = tl[q]
    PROVE  ScanInside'
  BY DEF Lists, ScanInside

\* Every step keeps the scans inside their lists: the fence lock keeps the
\* others off.
LEMMA ScanInsideStep ==
    ASSUME TypeOK, Control, Locks, Lists, Allocs, Releases, Users, Empties,
           [Next]_vars
    PROVE  ScanInside'
  <1>1. ASSUME NEW p \in Threads, kgsl_ioctl_timeline_create(p)
        PROVE  ScanInside'
    <2>1. /\ UNCHANGED <<fences, idx>>
          /\ \A q \in Threads : pc'[q] \in ScanPCs => pc[q] \in ScanPCs /\ tl'[q] = tl[q]
      BY <1>1
         DEF kgsl_ioctl_timeline_create, At, Goto, tlVars, threadVars,
             ScanPCs, TypeOK
    <2>2. QED
      BY <2>1, ScanInsideKept
  <1>2. ASSUME NEW p \in Threads, SignalLock(p)
        PROVE  ScanInside'
    <2>1. /\ UNCHANGED <<fences, idx>>
          /\ \A q \in Threads : pc'[q] \in ScanPCs => pc[q] \in ScanPCs /\ tl'[q] = tl[q]
      BY <1>2 DEF SignalLock, At, Goto, tlVars, threadVars, ScanPCs, TypeOK
    <2>2. QED
      BY <2>1, ScanInsideKept
  <1>3. ASSUME NEW p \in Threads, ScanLock(p)
        PROVE  ScanInside'
    <2>1. /\ tl[p] \in Timelines /\ Len(fences[tl[p]]) \in Nat
      BY <1>3, ThreadsTimeline, ListsOfFences DEF ScanLock, At, FreePCs
    <2>2. /\ UNCHANGED <<fences, tl>> /\ idx' = [idx EXCEPT ![p] = 1]
          /\ \A q \in Threads : q # p => pc'[q] = pc[q]
      BY <1>3 DEF ScanLock, Goto, TypeOK
    <2>3. QED
      BY <2>1, <2>2 DEF Lists, ScanInside, TypeOK
  <1>4. ASSUME NEW p \in Threads, SignalScan(p)
        PROVE  ScanInside'
    <2>1. /\ UNCHANGED <<tl, pc>> /\ pc[p] = "s_scan"
      BY <1>4 DEF SignalScan, At
    <2>2. /\ tl[p] \in Timelines /\ idx[p] \in 1 .. Len(fences[tl[p]])
          /\ Len(fences[tl[p]]) \in Nat
      BY <1>4, SignalScanShape, ListsOfFences
    <2>3. \/ Len(fences'[tl[p]]) = Len(fences[tl[p]]) - 1 /\ idx' = idx
          \/ fences' = fences /\ idx' = [idx EXCEPT ![p] = @ + 1]
      BY <1>4, SignalScanShape
    <2>4. idx'[p] \in 1 .. Len(fences'[tl[p]]) + 1
      BY <2>2, <2>3 DEF TypeOK
    <2>5. ASSUME NEW q \in Threads, q # p, pc[q] \in ScanPCs
          PROVE  fences'[tl[q]] = fences[tl[q]] /\ idx'[q] = idx[q]
      <3>1. tl[q] \in Timelines
        BY <2>5, ThreadsTimeline DEF ScanPCs, FreePCs
      <3>2. tl[q] # tl[p]
        BY <2>1, <2>2, <2>5, <3>1 DEF Locks, ScanPCs
      <3>3. QED
        BY <1>4, <3>1, <3>2 DEF SignalScan, TypeOK
    <2>6. QED
      BY <2>1, <2>4, <2>5 DEF Lists, ScanInside
  <1>5. ASSUME NEW p \in Threads, SignalScanEnd(p)
        PROVE  ScanInside'
    <2>1. /\ UNCHANGED <<fences, tl>> /\ idx' = [idx EXCEPT ![p] = 0]
          /\ pc' = [pc EXCEPT ![p] = "s_signal"]
      BY <1>5 DEF SignalScanEnd, Goto
    <2>2. QED
      BY <2>1 DEF Lists, ScanInside, ScanPCs, TypeOK
  <1>6. ASSUME NEW p \in Threads, SignalFence(p)
        PROVE  ScanInside'
    <2>1. /\ UNCHANGED <<fences, idx>>
          /\ \A q \in Threads : pc'[q] \in ScanPCs => pc[q] \in ScanPCs /\ tl'[q] = tl[q]
      BY <1>6
         DEF SignalFence, At, Goto, dma_fence_put, tlVars, threadVars,
             ScanPCs, TypeOK
    <2>2. QED
      BY <2>1, ScanInsideKept
  <1>7. ASSUME NEW p \in Threads, SignalUnlock(p)
        PROVE  ScanInside'
    <2>1. /\ UNCHANGED <<fences, idx>>
          /\ \A q \in Threads : pc'[q] \in ScanPCs => pc[q] \in ScanPCs /\ tl'[q] = tl[q]
      BY <1>7 DEF SignalUnlock, At, Goto, tlVars, threadVars, ScanPCs, TypeOK
    <2>2. QED
      BY <2>1, ScanInsideKept
  <1>8. ASSUME NEW p \in Threads, PutTimeline(p)
        PROVE  ScanInside'
    <2>1. /\ UNCHANGED <<fences, idx>>
          /\ \A q \in Threads : pc'[q] \in ScanPCs => pc[q] \in ScanPCs /\ tl'[q] = tl[q]
      BY <1>8
         DEF PutTimeline, At, Goto, kgsl_timeline_put, tlVars, threadVars,
             ScanPCs, TypeOK
    <2>2. QED
      BY <2>1, ScanInsideKept
  <1>9. ASSUME NEW p \in Threads, kgsl_timeline_fence_alloc(p)
        PROVE  ScanInside'
    <2>1. /\ UNCHANGED <<fences, idx>>
          /\ \A q \in Threads : pc'[q] \in ScanPCs => pc[q] \in ScanPCs /\ tl'[q] = tl[q]
      BY <1>9
         DEF kgsl_timeline_fence_alloc, At, Goto, FreeFences, tlVars,
             threadVars, ScanPCs, TypeOK
    <2>2. QED
      BY <2>1, ScanInsideKept
  <1>10. ASSUME NEW p \in Threads, FenceAllocFails(p)
        PROVE  ScanInside'
    <2>1. /\ UNCHANGED <<fences, idx>>
          /\ \A q \in Threads : pc'[q] \in ScanPCs => pc[q] \in ScanPCs /\ tl'[q] = tl[q]
      BY <1>10
         DEF FenceAllocFails, At, Goto, kgsl_timeline_put, tlVars, threadVars,
             ScanPCs, TypeOK
    <2>2. QED
      BY <2>1, ScanInsideKept
  <1>11. ASSUME NEW p \in Threads, FenceLock(p)
        PROVE  ScanInside'
    <2>1. /\ UNCHANGED <<fences, idx>>
          /\ \A q \in Threads : pc'[q] \in ScanPCs => pc[q] \in ScanPCs /\ tl'[q] = tl[q]
      BY <1>11 DEF FenceLock, At, Goto, tlVars, threadVars, ScanPCs, TypeOK
    <2>2. QED
      BY <2>1, ScanInsideKept
  <1>12. ASSUME NEW p \in Threads, kgsl_timeline_add_fence(p)
        PROVE  ScanInside'
    <2>1. /\ UNCHANGED <<tl, idx>> /\ fence_lock[tl[p]] = None
          /\ pc' = [pc EXCEPT ![p] = "f_done"] /\ pc[p] = "f_add"
      BY <1>12 DEF kgsl_timeline_add_fence, At, Goto
    <2>2. tl[p] \in Timelines
      BY <1>12, AddShape
    <2>3. ASSUME NEW q \in Threads, pc'[q] \in ScanPCs
          PROVE  pc[q] \in ScanPCs /\ fences'[tl[q]] = fences[tl[q]]
      <3>1. pc[q] \in ScanPCs
        BY <2>1, <2>3 DEF ScanPCs, TypeOK
      <3>2. tl[q] \in Timelines /\ tl[q] # tl[p]
        BY <2>1, <2>2, <3>1, ThreadsTimeline, TimelineAssumption
           DEF Locks, ScanPCs, FreePCs
      <3>3. QED
        BY <1>12, <3>1, <3>2 DEF kgsl_timeline_add_fence, TypeOK
    <2>4. QED
      BY <2>1, <2>3 DEF Lists, ScanInside
  <1>13. ASSUME NEW p \in Threads, WaitCollect(p)
        PROVE  ScanInside'
    <2>1. /\ UNCHANGED <<fences, idx>>
          /\ \A q \in Threads : pc'[q] \in ScanPCs => pc[q] \in ScanPCs /\ tl'[q] = tl[q]
      BY <1>13
         DEF WaitCollect, At, Goto, kgsl_timeline_put, tlVars, threadVars,
             ScanPCs, TypeOK
    <2>2. QED
      BY <2>1, ScanInsideKept
  <1>14. ASSUME NEW p \in Threads, WaitStart(p)
        PROVE  ScanInside'
    <2>1. /\ UNCHANGED <<fences, idx>>
          /\ \A q \in Threads : pc'[q] \in ScanPCs => pc[q] \in ScanPCs /\ tl'[q] = tl[q]
      BY <1>14 DEF WaitStart, At, Goto, tlVars, threadVars, ScanPCs, TypeOK
    <2>2. QED
      BY <2>1, ScanInsideKept
  <1>15. ASSUME NEW p \in Threads, WaitReturn(p)
        PROVE  ScanInside'
    <2>1. /\ UNCHANGED <<fences, idx>>
          /\ \A q \in Threads : pc'[q] \in ScanPCs => pc[q] \in ScanPCs /\ tl'[q] = tl[q]
      BY <1>15 DEF WaitReturn, At, Goto, tlVars, threadVars, ScanPCs, TypeOK
    <2>2. QED
      BY <2>1, ScanInsideKept
  <1>16. ASSUME NEW p \in Threads, WaitPut(p)
        PROVE  ScanInside'
    <2>1. /\ UNCHANGED <<fences, idx>>
          /\ \A q \in Threads : pc'[q] \in ScanPCs => pc[q] \in ScanPCs /\ tl'[q] = tl[q]
      BY <1>16
         DEF WaitPut, At, Goto, dma_fence_put, tlVars, threadVars, ScanPCs,
             TypeOK
    <2>2. QED
      BY <2>1, ScanInsideKept
  <1>17. ASSUME NEW p \in Threads, FenceGetInstall(p)
        PROVE  ScanInside'
    <2>1. /\ UNCHANGED <<fences, idx>>
          /\ \A q \in Threads : pc'[q] \in ScanPCs => pc[q] \in ScanPCs /\ tl'[q] = tl[q]
      BY <1>17
         DEF FenceGetInstall, At, Goto, tlVars, threadVars, ScanPCs, TypeOK
    <2>2. QED
      BY <2>1, ScanInsideKept
  <1>18. ASSUME NEW p \in Threads, kgsl_ioctl_timeline_fence_get(p)
        PROVE  ScanInside'
    <2>1. /\ UNCHANGED <<fences, idx>>
          /\ \A q \in Threads : pc'[q] \in ScanPCs => pc[q] \in ScanPCs /\ tl'[q] = tl[q]
      BY <1>18
         DEF kgsl_ioctl_timeline_fence_get, At, Goto, dma_fence_put, tlVars,
             threadVars, ScanPCs, TypeOK
    <2>2. QED
      BY <2>1, ScanInsideKept
  <1>19. ASSUME NEW p \in Threads, timeline_fence_release(p)
        PROVE  ScanInside'
    <2>1. UNCHANGED <<tl, idx, pc>> /\ fence_lock[ftl[rel[p]]] = None
      BY <1>19 DEF timeline_fence_release
    <2>2. /\ ftl[rel[p]] \in Timelines
          /\ \A u \in Timelines : u # ftl[rel[p]] => fences'[u] = fences[u]
      BY <1>19, ReleaseShape
    <2>3. ASSUME NEW q \in Threads, pc[q] \in ScanPCs
          PROVE  fences'[tl[q]] = fences[tl[q]]
      <3>1. tl[q] \in Timelines /\ tl[q] # ftl[rel[p]]
        BY <2>1, <2>2, <2>3, ThreadsTimeline, TimelineAssumption
           DEF Locks, ScanPCs, FreePCs
      <3>2. QED
        BY <2>2, <3>1
    <2>4. QED
      BY <2>1, <2>3 DEF Lists, ScanInside
  <1>20. ASSUME NEW p \in Threads, DestroyScan(p)
        PROVE  ScanInside'
    <2>1. /\ UNCHANGED <<tl, pc>> /\ pc[p] = "d_scan"
      BY <1>20 DEF DestroyScan, At
    <2>2. /\ tl[p] \in Timelines /\ idx[p] \in 1 .. Len(fences[tl[p]])
          /\ Len(fences[tl[p]]) \in Nat
      BY <1>20, DestroyScanShape, ListsOfFences
    <2>3. \/ Len(fences'[tl[p]]) = Len(fences[tl[p]]) - 1 /\ idx' = idx
          \/ fences' = fences /\ idx' = [idx EXCEPT ![p] = @ + 1]
      BY <1>20, DestroyScanShape
    <2>4. idx'[p] \in 1 .. Len(fences'[tl[p]]) + 1
      BY <2>2, <2>3 DEF TypeOK
    <2>5. ASSUME NEW q \in Threads, q # p, pc[q] \in ScanPCs
          PROVE  fences'[tl[q]] = fences[tl[q]] /\ idx'[q] = idx[q]
      <3>1. tl[q] \in Timelines
        BY <2>5, ThreadsTimeline DEF ScanPCs, FreePCs
      <3>2. tl[q] # tl[p]
        BY <2>1, <2>2, <2>5, <3>1 DEF Locks, ScanPCs
      <3>3. QED
        BY <1>20, <3>1, <3>2 DEF DestroyScan, TypeOK
    <2>6. QED
      BY <2>1, <2>4, <2>5 DEF Lists, ScanInside
  <1>21. ASSUME NEW p \in Threads, DestroyScanEnd(p)
        PROVE  ScanInside'
    <2>1. /\ UNCHANGED tl /\ idx' = [idx EXCEPT ![p] = 0] /\ pc[p] = "d_scan"
          /\ pc' = [pc EXCEPT ![p] = "d_lock"]
          /\ fences' = [fences EXCEPT ![tl[p]] = <<>>]
      BY <1>21 DEF DestroyScanEnd, Goto, At
    <2>2. tl[p] \in Timelines
      BY <1>21, DestroyScanEndShape
    <2>3. ASSUME NEW q \in Threads, pc'[q] \in ScanPCs
          PROVE  q # p /\ pc[q] \in ScanPCs /\ tl[q] # tl[p] /\ tl[q] \in Timelines
      <3>1. q # p /\ pc[q] \in ScanPCs
        BY <2>1, <2>3 DEF ScanPCs, TypeOK
      <3>2. tl[q] \in Timelines
        BY <3>1, ThreadsTimeline DEF ScanPCs, FreePCs
      <3>3. fence_lock[tl[p]] = p
        BY <2>1, <2>2 DEF Locks, ScanPCs
      <3>4. tl[q] # tl[p]
        BY <2>2, <3>1, <3>3 DEF Locks
      <3>5. QED
        BY <3>1, <3>2, <3>4
    <2>4. ASSUME NEW q \in Threads, pc'[q] \in ScanPCs
          PROVE  fences'[tl'[q]] = fences[tl[q]] /\ idx'[q] = idx[q]
      BY <2>1, <2>3, <2>4 DEF TypeOK
    <2>5. QED
      BY <2>3, <2>4 DEF Lists, ScanInside
  <1>22. ASSUME NEW p \in Threads, DestroyLock(p)
        PROVE  ScanInside'
    <2>1. /\ UNCHANGED <<fences, idx>>
          /\ \A q \in Threads : pc'[q] \in ScanPCs => pc[q] \in ScanPCs /\ tl'[q] = tl[q]
      BY <1>22 DEF DestroyLock, At, Goto, tlVars, threadVars, ScanPCs, TypeOK
    <2>2. QED
      BY <2>1, ScanInsideKept
  <1>23. ASSUME NEW p \in Threads, DestroyFence(p)
        PROVE  ScanInside'
    <2>1. /\ UNCHANGED <<fences, idx>>
          /\ \A q \in Threads : pc'[q] \in ScanPCs => pc[q] \in ScanPCs /\ tl'[q] = tl[q]
      BY <1>23
         DEF DestroyFence, At, Goto, dma_fence_put, tlVars, threadVars,
             ScanPCs, TypeOK
    <2>2. QED
      BY <2>1, ScanInsideKept
  <1>24. ASSUME NEW p \in Threads, kgsl_timeline_alloc(p)
        PROVE  ScanInside'
    <2>1. UNCHANGED <<fences, lock, fence_lock>>
      BY <1>24, AllocShape
    <2>2. /\ UNCHANGED idx /\ pc' = [pc EXCEPT ![p] = "commit"]
          /\ \A q \in Threads : q # p => tl'[q] = tl[q]
      BY <1>24 DEF kgsl_timeline_alloc, Goto, TypeOK
    <2>3. QED
      BY <2>1, <2>2, ScanInsideKept DEF ScanPCs, TypeOK
  <1>25. ASSUME NEW p \in Threads, kgsl_ioctl_timeline_signal(p)
        PROVE  ScanInside'
    <2>1. /\ UNCHANGED <<fences, idx>>
          /\ \A q \in Threads : pc'[q] \in ScanPCs => pc[q] \in ScanPCs /\ tl'[q] = tl[q]
      BY <1>25
         DEF kgsl_ioctl_timeline_signal, At, Goto, kgsl_timeline_by_id,
             tlVars, threadVars, ScanPCs, TypeOK
    <2>2. QED
      BY <2>1, ScanInsideKept
  <1>26. ASSUME NEW p \in Threads, FenceLookup(p)
        PROVE  ScanInside'
    <2>1. /\ UNCHANGED <<fences, idx>>
          /\ \A q \in Threads : pc'[q] \in ScanPCs => pc[q] \in ScanPCs /\ tl'[q] = tl[q]
      BY <1>26
         DEF FenceLookup, At, Goto, kgsl_timeline_by_id, tlVars, threadVars,
             ScanPCs, TypeOK
    <2>2. QED
      BY <2>1, ScanInsideKept
  <1>27. ASSUME NEW p \in Threads, WaitError(p)
        PROVE  ScanInside'
    <2>1. /\ UNCHANGED <<fences, idx>>
          /\ \A q \in Threads : pc'[q] \in ScanPCs => pc[q] \in ScanPCs /\ tl'[q] = tl[q]
      BY <1>27 DEF WaitError, At, Goto, tlVars, threadVars, ScanPCs, TypeOK
    <2>2. QED
      BY <2>1, ScanInsideKept
  <1>28. ASSUME NEW p \in Threads, WaitTimeout(p)
        PROVE  ScanInside'
    <2>1. /\ UNCHANGED <<fences, idx>>
          /\ \A q \in Threads : pc'[q] \in ScanPCs => pc[q] \in ScanPCs /\ tl'[q] = tl[q]
      BY <1>28 DEF WaitTimeout, At, Goto, tlVars, threadVars, ScanPCs, TypeOK
    <2>2. QED
      BY <2>1, ScanInsideKept
  <1>29. ASSUME NEW p \in Threads, CloseFd(p)
        PROVE  ScanInside'
    <2>1. /\ UNCHANGED <<fences, idx>>
          /\ \A q \in Threads : pc'[q] \in ScanPCs => pc[q] \in ScanPCs /\ tl'[q] = tl[q]
      BY <1>29
         DEF CloseFd, At, Goto, dma_fence_put, tlVars, threadVars, ScanPCs,
             TypeOK
    <2>2. QED
      BY <2>1, ScanInsideKept
  <1>30. ASSUME NEW p \in Threads, kgsl_ioctl_timeline_query(p)
        PROVE  ScanInside'
    <2>1. /\ UNCHANGED <<fences, idx>>
          /\ \A q \in Threads : pc'[q] \in ScanPCs => pc[q] \in ScanPCs /\ tl'[q] = tl[q]
      BY <1>30
         DEF kgsl_ioctl_timeline_query, At, Goto, kgsl_timeline_by_id, tlVars,
             threadVars, ScanPCs, TypeOK
    <2>2. QED
      BY <2>1, ScanInsideKept
  <1>31. ASSUME NEW p \in Threads, kgsl_ioctl_timeline_destroy(p)
        PROVE  ScanInside'
    <2>1. /\ UNCHANGED <<fences, idx>>
          /\ \A q \in Threads : pc'[q] \in ScanPCs => pc[q] \in ScanPCs /\ tl'[q] = tl[q]
      BY <1>31
         DEF kgsl_ioctl_timeline_destroy, At, Goto, tlVars, threadVars,
             ScanPCs, TypeOK
    <2>2. QED
      BY <2>1, ScanInsideKept
  <1>32. ASSUME NEW f \in Fences, Poll(f)
        PROVE  ScanInside'
    <2>1. /\ UNCHANGED <<fences, idx>>
          /\ \A q \in Threads : pc'[q] \in ScanPCs => pc[q] \in ScanPCs /\ tl'[q] = tl[q]
      BY <1>32 DEF Poll, At, Goto, tlVars, threadVars, ScanPCs, TypeOK
    <2>2. QED
      BY <2>1, ScanInsideKept
  <1>33. CASE UNCHANGED vars
    <2>1. /\ UNCHANGED <<fences, idx>>
          /\ \A q \in Threads : pc'[q] \in ScanPCs => pc[q] \in ScanPCs /\ tl'[q] = tl[q]
      BY <1>33 DEF vars, tlVars, threadVars, ScanPCs, TypeOK
    <2>2. QED
      BY <2>1, ScanInsideKept
  <1>34. QED
    BY <1>1, <1>2, <1>3, <1>4, <1>5, <1>6, <1>7, <1>8, <1>9, <1>10, <1>11,
       <1>12, <1>13, <1>14, <1>15, <1>16, <1>17, <1>18, <1>19, <1>20, <1>21,
       <1>22, <1>23, <1>24, <1>25, <1>26, <1>27, <1>28, <1>29, <1>30, <1>31,
       <1>32, <1>33
       DEF Next, Step, Choose

\* What every step but an allocation has to keep for a thread that allocates.
AllocKept(q) ==
    /\ cur[q] = cur'[q] /\ tl'[q] = tl[q] /\ ftl'[cur[q]] = ftl[cur[q]]
    /\ pc'[q] \in {"f_lock", "f_add"} =>
        /\ pc[q] \in {"f_lock", "f_add"}
        /\ cur[q] \notin Range(fences'[tl[q]])
        /\ \A r \in Threads : cur[q] \notin Range(temp'[r])
    /\ pc'[q] \in {"f_lock", "f_add", "f_done"} =>
        /\ pc[q] \in {"f_lock", "f_add", "f_done"}
        /\ cur[q] \notin fd'
        /\ \A r \in Threads : cur[q] \notin Range(got'[r])

\* It is enough to look at each thread.
LEMMA AllocsKept ==
    ASSUME Allocs, \A q \in Threads : cur'[q] # None => AllocKept(q)
    PROVE  Allocs'
  <1>1. ASSUME NEW p \in Threads, cur'[p] # None
        PROVE  /\ ftl'[cur'[p]] = tl'[p]
               /\ pc'[p] \in {"f_lock", "f_add"} =>
                    /\ cur'[p] \notin Range(fences'[tl'[p]])
                    /\ \A q \in Threads : cur'[p] \notin Range(temp'[q])
               /\ pc'[p] \in {"f_lock", "f_add", "f_done"} =>
                    /\ cur'[p] \notin fd'
                    /\ \A q \in Threads : cur'[p] \notin Range(got'[q])
    BY <1>1 DEF Allocs, AllocKept
  <1>2. ASSUME NEW p \in Threads, cur'[p] # None,
               pc'[p] \in {"f_lock", "f_add", "f_done"},
               NEW q \in Threads, cur'[q] = cur'[p]
        PROVE  q = p
    <2>1. AllocKept(p) /\ AllocKept(q)
      BY <1>2
    <2>2. cur[p] = cur[q] /\ cur[p] # None /\ pc[p] \in {"f_lock", "f_add", "f_done"}
      BY <1>2, <2>1 DEF AllocKept
    <2>3. QED
      BY <2>2 DEF Allocs
  <1>3. QED
    BY <1>1, <1>2 DEF Allocs

\* Every step keeps a fence that is being allocated to the thread that
\* allocates it.
LEMMA AllocsStep ==
    ASSUME TypeOK, Control, Locks, Lists, Allocs, Releases, Users, Empties,
           [Next]_vars
    PROVE  Allocs'
  <1>1. ASSUME NEW p \in Threads, kgsl_ioctl_timeline_create(p)
        PROVE  Allocs'
    <2>1. ASSUME NEW q \in Threads, cur'[q] # None
          PROVE  AllocKept(q)
      BY <1>1, <2>1
         DEF kgsl_ioctl_timeline_create, At, Goto, devVars, tlVars, fenceVars,
             threadVars, AllocKept, Allocs, Control, FreePCs, AllocPCs, TypeOK
    <2>2. QED
      BY <2>1, AllocsKept
  <1>2. ASSUME NEW p \in Threads, SignalLock(p)
        PROVE  Allocs'
    <2>1. ASSUME NEW q \in Threads, cur'[q] # None
          PROVE  AllocKept(q)
      BY <1>2, <2>1
         DEF SignalLock, At, Goto, devVars, tlVars, fenceVars, threadVars,
             AllocKept, Allocs, Control, FreePCs, AllocPCs, TypeOK
    <2>2. QED
      BY <2>1, AllocsKept
  <1>3. ASSUME NEW p \in Threads, ScanLock(p)
        PROVE  Allocs'
    <2>1. ASSUME NEW q \in Threads, cur'[q] # None
          PROVE  AllocKept(q)
      BY <1>3, <2>1
         DEF ScanLock, At, Goto, devVars, tlVars, fenceVars, threadVars,
             AllocKept, Allocs, Control, FreePCs, AllocPCs, TypeOK
    <2>2. QED
      BY <2>1, AllocsKept
  <1>4. ASSUME NEW p \in Threads, SignalScan(p)
        PROVE  Allocs'
    <2> DEFINE g == fences[tl[p]][idx[p]]
    <2>1. /\ tl[p] \in Timelines /\ g \in Range(fences[tl[p]]) /\ ftl[g] = tl[p]
          /\ \/ /\ Without(fences, fences', Timelines, tl[p], g)
                /\ With(temp, temp', Threads, p, g)
             \/ UNCHANGED <<fences, temp>>
      BY <1>4, SignalScanShape
    <2>2. UNCHANGED <<tl, cur, pc, ftl, got, fd>>
      BY <1>4 DEF SignalScan
    <2> HIDE DEF g
    <2>3. ASSUME NEW q \in Threads, cur'[q] # None
          PROVE  AllocKept(q)
      <3>1. tl[q] \in Timelines /\ ftl[cur[q]] = tl[q]
        BY <2>2, <2>3, ThreadsTimeline
           DEF Control, AllocPCs, FreePCs, Allocs, TypeOK
      <3>2. ASSUME pc[q] \in {"f_lock", "f_add"}
            PROVE  /\ cur[q] \notin Range(fences'[tl[q]])
                   /\ \A r \in Threads : cur[q] \notin Range(temp'[r])
        <4>1. /\ cur[q] \notin Range(fences[tl[q]])
              /\ \A r \in Threads : cur[q] \notin Range(temp[r])
          BY <2>2, <2>3, <3>2 DEF Allocs
        <4>2. cur[q] # g
          BY <2>1, <3>1, <4>1
        <4>3. QED
          BY <2>1, <3>1, <4>1, <4>2 DEF With, Without
      <3>3. QED
        BY <2>2, <2>3, <3>2 DEF AllocKept, Allocs
    <2>4. QED
      BY <2>3, AllocsKept
  <1>5. ASSUME NEW p \in Threads, SignalScanEnd(p)
        PROVE  Allocs'
    <2>1. ASSUME NEW q \in Threads, cur'[q] # None
          PROVE  AllocKept(q)
      BY <1>5, <2>1
         DEF SignalScanEnd, At, Goto, devVars, tlVars, fenceVars, threadVars,
             AllocKept, Allocs, Control, FreePCs, AllocPCs, TypeOK
    <2>2. QED
      BY <2>1, AllocsKept
  <1>6. ASSUME NEW p \in Threads, SignalFence(p)
        PROVE  Allocs'
    <2>1. Without(temp, temp', Threads, p, Head(temp[p]))
      BY <1>6, PopShape DEF SignalFence
    <2>2. UNCHANGED <<tl, cur, pc, ftl, fences, got, fd>>
      BY <1>6 DEF SignalFence, tlVars
    <2>3. ASSUME NEW q \in Threads, cur'[q] # None
          PROVE  AllocKept(q)
      BY <2>1, <2>2, <2>3 DEF Without, AllocKept, Allocs
    <2>4. QED
      BY <2>3, AllocsKept
  <1>7. ASSUME NEW p \in Threads, SignalUnlock(p)
        PROVE  Allocs'
    <2>1. ASSUME NEW q \in Threads, cur'[q] # None
          PROVE  AllocKept(q)
      BY <1>7, <2>1
         DEF SignalUnlock, At, Goto, devVars, tlVars, fenceVars, threadVars,
             AllocKept, Allocs, Control, FreePCs, AllocPCs, TypeOK
    <2>2. QED
      BY <2>1, AllocsKept
  <1>8. ASSUME NEW p \in Threads, PutTimeline(p)
        PROVE  Allocs'
    <2>1. ASSUME NEW q \in Threads, cur'[q] # None
          PROVE  AllocKept(q)
      BY <1>8, <2>1
         DEF PutTimeline, At, Goto, kgsl_timeline_put, devVars, tlVars,
             fenceVars, threadVars, AllocKept, Allocs, Control, FreePCs,
             AllocPCs, TypeOK
    <2>2. QED
      BY <2>1, AllocsKept
  <1>9. ASSUME NEW p \in Threads, kgsl_timeline_fence_alloc(p)
        PROVE  Allocs'
    <2>1. PICK g \in Fences :
            /\ ftl[g] = None /\ ftl' = [ftl EXCEPT ![g] = tl[p]]
            /\ cur' = [cur EXCEPT ![p] = g]
      BY <1>9 DEF kgsl_timeline_fence_alloc, FreeFences
    <2>2. /\ UNCHANGED <<tl, fences, temp, got, fd>> /\ pc[p] = "f_alloc"
          /\ pc' = [pc EXCEPT ![p] = "f_lock"]
      BY <1>9 DEF kgsl_timeline_fence_alloc, Goto, At
    <2>3. fref[g] = 0 /\ tl[p] \in Timelines
      <3>1. fref[g] \in Nat /\ ~(fref[g] > 0)
        BY <2>1 DEF Releases, TypeOK
      <3>2. tl[p] \in Timelines
        BY <2>2, ThreadsTimeline DEF FreePCs
      <3>3. QED
        BY <3>1, <3>2
    <2>4. /\ \A q \in Threads : cur[q] # g /\ g \notin Range(got[q]) /\ g \notin Range(temp[q])
          /\ g \notin fd
      BY <2>1, <2>3, TimelineAssumption DEF Users, ScanRefs
    <2>5. \A u \in Timelines : g \notin Range(fences[u])
      BY <2>1, TimelineAssumption DEF Lists, ListSets
    <2>6. /\ ftl'[g] = tl[p] /\ cur'[p] = g /\ pc'[p] = "f_lock"
          /\ \A q \in Threads : q # p => cur'[q] = cur[q] /\ pc'[q] = pc[q]
          /\ \A h \in Fences : h # g => ftl'[h] = ftl[h]
      BY <2>1, <2>2 DEF TypeOK
    <2>7. ASSUME NEW q \in Threads, cur'[q] # None, q # p
          PROVE  /\ ftl'[cur'[q]] = tl'[q]
                 /\ pc'[q] \in {"f_lock", "f_add"} =>
                      /\ cur'[q] \notin Range(fences'[tl'[q]])
                      /\ \A r \in Threads : cur'[q] \notin Range(temp'[r])
                 /\ pc'[q] \in {"f_lock", "f_add", "f_done"} =>
                      /\ cur'[q] \notin fd'
                      /\ \A r \in Threads : cur'[q] \notin Range(got'[r])
                      /\ \A r \in Threads : cur'[r] = cur'[q] => r = q
      <3>1. cur[q] # g /\ cur[q] # None /\ cur[q] \in Fences
        BY <2>4, <2>6, <2>7 DEF TypeOK
      <3>2. \A r \in Threads : cur'[r] = cur[q] => r # p /\ cur[r] = cur[q]
        BY <2>6, <3>1
      <3>3. QED
        BY <2>2, <2>6, <2>7, <3>1, <3>2 DEF Allocs
    <2>8. /\ ftl'[cur'[p]] = tl'[p]
          /\ cur'[p] \notin Range(fences'[tl'[p]]) /\ cur'[p] \notin fd'
          /\ \A r \in Threads : cur'[p] \notin Range(temp'[r]) /\ cur'[p] \notin Range(got'[r])
          /\ \A r \in Threads : cur'[r] = cur'[p] => r = p
      BY <2>2, <2>3, <2>4, <2>5, <2>6
    <2>9. QED
      BY <2>7, <2>8 DEF Allocs
  <1>10. ASSUME NEW p \in Threads, FenceAllocFails(p)
        PROVE  Allocs'
    <2>1. ASSUME NEW q \in Threads, cur'[q] # None
          PROVE  AllocKept(q)
      BY <1>10, <2>1
         DEF FenceAllocFails, At, Goto, kgsl_timeline_put, devVars, tlVars,
             fenceVars, threadVars, AllocKept, Allocs, Control, FreePCs,
             AllocPCs, TypeOK
    <2>2. QED
      BY <2>1, AllocsKept
  <1>11. ASSUME NEW p \in Threads, FenceLock(p)
        PROVE  Allocs'
    <2>1. ASSUME NEW q \in Threads, cur'[q] # None
          PROVE  AllocKept(q)
      BY <1>11, <2>1
         DEF FenceLock, At, Goto, devVars, tlVars, fenceVars, threadVars,
             AllocKept, Allocs, Control, FreePCs, AllocPCs, TypeOK
    <2>2. QED
      BY <2>1, AllocsKept
  <1>12. ASSUME NEW p \in Threads, kgsl_timeline_add_fence(p)
        PROVE  Allocs'
    <2>1. /\ UNCHANGED <<tl, cur, ftl, temp, got, fd>> /\ pc[p] = "f_add"
          /\ pc' = [pc EXCEPT ![p] = "f_done"]
      BY <1>12 DEF kgsl_timeline_add_fence, Goto, At, fenceVars
    <2>2. tl[p] \in Timelines /\ With(fences, fences', Timelines, tl[p], cur[p])
      BY <1>12, AddShape
    <2>3. ASSUME NEW q \in Threads, cur'[q] # None
          PROVE  AllocKept(q)
      <3>1. tl[q] \in Timelines
        BY <2>1, <2>3, ThreadsTimeline DEF Control, AllocPCs, FreePCs
      <3>2. CASE q = p
        BY <2>1, <2>3, <3>2 DEF AllocKept, Allocs, TypeOK
      <3>3. CASE q # p
        <4>1. cur[q] # cur[p]
          BY <2>1, <2>3, <3>3 DEF Allocs
        <4>2. pc'[q] = pc[q]
          BY <2>1, <3>3 DEF TypeOK
        <4>3. cur[q] \notin Range(fences[tl[q]]) => cur[q] \notin Range(fences'[tl[q]])
          BY <2>2, <3>1, <4>1 DEF With
        <4>4. QED
          BY <2>1, <2>3, <4>2, <4>3 DEF AllocKept, Allocs
      <3>4. QED
        BY <3>2, <3>3
    <2>4. QED
      BY <2>3, AllocsKept
  <1>13. ASSUME NEW p \in Threads, WaitCollect(p)
        PROVE  Allocs'
    <2>1. /\ UNCHANGED <<ftl, fences, temp, fd>> /\ pc[p] = "f_done"
          /\ pc' = [pc EXCEPT ![p] = "w_next"] /\ cur' = [cur EXCEPT ![p] = None]
          /\ tl' = [tl EXCEPT ![p] = None]
      BY <1>13 DEF WaitCollect, Goto, At, fenceVars
    <2>2. cur[p] \in Fences /\ With(got, got', Threads, p, cur[p])
      BY <1>13, CollectShape
    <2>3. ASSUME NEW q \in Threads, cur'[q] # None
          PROVE  AllocKept(q)
      <3>1. q # p /\ cur'[q] = cur[q] /\ pc'[q] = pc[q] /\ tl'[q] = tl[q]
        BY <2>1, <2>3 DEF TypeOK
      <3>2. cur[q] # cur[p]
        BY <2>1, <2>2, <2>3, <3>1, TimelineAssumption DEF Allocs
      <3>3. \A r \in Threads : cur[q] \notin Range(got[r]) => cur[q] \notin Range(got'[r])
        BY <2>2, <3>2 DEF With
      <3>4. QED
        BY <2>1, <2>3, <3>1, <3>3 DEF AllocKept, Allocs
    <2>4. QED
      BY <2>3, AllocsKept
  <1>14. ASSUME NEW p \in Threads, WaitStart(p)
        PROVE  Allocs'
    <2>1. ASSUME NEW q \in Threads, cur'[q] # None
          PROVE  AllocKept(q)
      BY <1>14, <2>1
         DEF WaitStart, At, Goto, devVars, tlVars, fenceVars, threadVars,
             AllocKept, Allocs, Control, FreePCs, AllocPCs, TypeOK
    <2>2. QED
      BY <2>1, AllocsKept
  <1>15. ASSUME NEW p \in Threads, WaitReturn(p)
        PROVE  Allocs'
    <2>1. ASSUME NEW q \in Threads, cur'[q] # None
          PROVE  AllocKept(q)
      BY <1>15, <2>1
         DEF WaitReturn, At, Goto, devVars, tlVars, fenceVars, threadVars,
             AllocKept, Allocs, Control, FreePCs, AllocPCs, TypeOK
    <2>2. QED
      BY <2>1, AllocsKept
  <1>16. ASSUME NEW p \in Threads, WaitPut(p)
        PROVE  Allocs'
    <2>1. /\ UNCHANGED <<ftl, fences, temp, fd, cur, tl>> /\ pc[p] = "w_put"
      BY <1>16 DEF WaitPut, At, tlVars
    <2>2. \A r \in Threads : Range(got'[r]) \subseteq Range(got[r])
      BY <1>16, WaitPutShape DEF Without
    <2>3. \A q \in Threads : pc'[q] \in AllocPCs => pc'[q] = pc[q]
      BY <1>16, WaitPutShape DEF Goto, AllocPCs, TypeOK
    <2>4. ASSUME NEW q \in Threads, cur'[q] # None
          PROVE  AllocKept(q)
      BY <2>1, <2>2, <2>3, <2>4 DEF AllocKept, Allocs, AllocPCs
    <2>5. QED
      BY <2>4, AllocsKept
  <1>17. ASSUME NEW p \in Threads, FenceGetInstall(p)
        PROVE  Allocs'
    <2>1. /\ UNCHANGED <<ftl, fences, temp, got, cur, tl>> /\ pc[p] = "f_done"
          /\ pc' = [pc EXCEPT ![p] = "g_put"] /\ fd' \subseteq fd \cup {cur[p]}
      BY <1>17 DEF FenceGetInstall, At, Goto, tlVars
    <2>2. ASSUME NEW q \in Threads, cur'[q] # None
          PROVE  AllocKept(q)
      <3>1. CASE q = p
        BY <2>1, <2>2, <3>1 DEF AllocKept, Allocs, TypeOK
      <3>2. CASE q # p
        <4>1. cur[q] # cur[p] /\ pc'[q] = pc[q]
          BY <2>1, <2>2, <3>2 DEF Allocs, TypeOK
        <4>2. QED
          BY <2>1, <2>2, <4>1 DEF AllocKept, Allocs
      <3>3. QED
        BY <3>1, <3>2
    <2>3. QED
      BY <2>2, AllocsKept
  <1>18. ASSUME NEW p \in Threads, kgsl_ioctl_timeline_fence_get(p)
        PROVE  Allocs'
    <2>1. ASSUME NEW q \in Threads, cur'[q] # None
          PROVE  AllocKept(q)
      BY <1>18, <2>1
         DEF kgsl_ioctl_timeline_fence_get, At, Goto, dma_fence_put, devVars,
             tlVars, fenceVars, threadVars, AllocKept, Allocs, Control,
             FreePCs, AllocPCs, TypeOK
    <2>2. QED
      BY <2>1, AllocsKept
  <1>19. ASSUME NEW p \in Threads, timeline_fence_release(p)
        PROVE  Allocs'
    <2>1. /\ rel[p] \in Fences /\ ftl[rel[p]] \in Timelines /\ fref[rel[p]] = 0
          /\ Without(fences, fences', Timelines, ftl[rel[p]], rel[p])
      BY <1>19, ReleaseShape
    <2>2. UNCHANGED <<tl, cur, pc, temp, got, fd>> /\ ftl' = [ftl EXCEPT ![rel[p]] = None]
      BY <1>19 DEF timeline_fence_release
    <2>3. ASSUME NEW q \in Threads, cur'[q] # None
          PROVE  AllocKept(q)
      <3>1. cur[q] \in Fences /\ fref[cur[q]] > 0 /\ tl[q] \in Timelines
        BY <2>2, <2>3, ThreadsTimeline DEF Control, AllocPCs, FreePCs, TypeOK
      <3>2. cur[q] # rel[p]
        BY <2>1, <3>1
      <3>3. ftl'[cur[q]] = ftl[cur[q]]
        BY <2>2, <3>1, <3>2 DEF TypeOK
      <3>4. Range(fences'[tl[q]]) \subseteq Range(fences[tl[q]])
        BY <2>1, <3>1 DEF Without
      <3>5. QED
        BY <2>2, <2>3, <3>3, <3>4 DEF AllocKept, Allocs
    <2>4. QED
      BY <2>3, AllocsKept
  <1>20. ASSUME NEW p \in Threads, DestroyScan(p)
        PROVE  Allocs'
    <2> DEFINE g == fences[tl[p]][idx[p]]
    <2>1. \/ Without(fences, fences', Timelines, tl[p], g)
          \/ UNCHANGED fences
      BY <1>20, DestroyScanShape
    <2>2. UNCHANGED <<tl, cur, pc, ftl, temp, got, fd>>
      BY <1>20 DEF DestroyScan
    <2> HIDE DEF g
    <2>3. ASSUME NEW q \in Threads, cur'[q] # None
          PROVE  AllocKept(q)
      <3>1. tl[q] \in Timelines
        BY <2>2, <2>3, ThreadsTimeline DEF Control, AllocPCs, FreePCs
      <3>2. Range(fences'[tl[q]]) \subseteq Range(fences[tl[q]])
        BY <2>1, <3>1 DEF Without
      <3>3. QED
        BY <2>2, <2>3, <3>2 DEF AllocKept, Allocs
    <2>4. QED
      BY <2>3, AllocsKept
  <1>21. ASSUME NEW p \in Threads, DestroyScanEnd(p)
        PROVE  Allocs'
    <2>1. /\ UNCHANGED <<tl, cur, ftl, got, fd>> /\ pc' = [pc EXCEPT ![p] = "d_lock"]
      BY <1>21 DEF DestroyScanEnd, Goto, fenceVars
    <2>2. ASSUME NEW q \in Threads, cur'[q] # None
          PROVE  AllocKept(q)
      <3>1. tl[q] \in Timelines /\ ftl[cur[q]] = tl[q]
        BY <2>1, <2>2, ThreadsTimeline
           DEF Control, AllocPCs, FreePCs, Allocs, TypeOK
      <3>2. ASSUME pc[q] \in {"f_lock", "f_add"}
            PROVE  /\ cur[q] \notin Range(fences'[tl[q]])
                   /\ \A r \in Threads : cur[q] \notin Range(temp'[r])
        <4>1. /\ cur[q] \notin Range(fences[tl[q]])
              /\ \A r \in Threads : cur[q] \notin Range(temp[r])
          BY <2>1, <2>2, <3>2 DEF Allocs
        <4>2. cur[q] \notin Range(fences[tl[p]])
          BY <1>21, <3>1, <4>1, DestroyScanEndShape DEF Lists, ListSets
        <4>3. QED
          BY <1>21, <3>1, <4>1, <4>2, DestroyScanEndShape
      <3>3. pc'[q] \in {"f_lock", "f_add", "f_done"} => pc'[q] = pc[q]
        BY <2>1 DEF TypeOK
      <3>4. QED
        BY <2>1, <2>2, <3>2, <3>3 DEF AllocKept, Allocs
    <2>3. QED
      BY <2>2, AllocsKept
  <1>22. ASSUME NEW p \in Threads, DestroyLock(p)
        PROVE  Allocs'
    <2>1. ASSUME NEW q \in Threads, cur'[q] # None
          PROVE  AllocKept(q)
      BY <1>22, <2>1
         DEF DestroyLock, At, Goto, devVars, tlVars, fenceVars, threadVars,
             AllocKept, Allocs, Control, FreePCs, AllocPCs, TypeOK
    <2>2. QED
      BY <2>1, AllocsKept
  <1>23. ASSUME NEW p \in Threads, DestroyFence(p)
        PROVE  Allocs'
    <2>1. Without(temp, temp', Threads, p, Head(temp[p]))
      BY <1>23, PopShape DEF DestroyFence
    <2>2. UNCHANGED <<tl, cur, pc, ftl, fences, got, fd>>
      BY <1>23 DEF DestroyFence, tlVars
    <2>3. ASSUME NEW q \in Threads, cur'[q] # None
          PROVE  AllocKept(q)
      BY <2>1, <2>2, <2>3 DEF Without, AllocKept, Allocs
    <2>4. QED
      BY <2>3, AllocsKept
  <1>24. ASSUME NEW p \in Threads, kgsl_timeline_alloc(p)
        PROVE  Allocs'
    <2>1. UNCHANGED <<fences, lock, fence_lock>>
      BY <1>24, AllocShape
    <2>2. /\ UNCHANGED <<cur, ftl, temp, got, fd>> /\ pc[p] = "idle"
          /\ pc' = [pc EXCEPT ![p] = "commit"]
          /\ \A q \in Threads : q # p => tl'[q] = tl[q]
      BY <1>24 DEF kgsl_timeline_alloc, Goto, At, fenceVars, TypeOK
    <2>3. ASSUME NEW q \in Threads, cur'[q] # None
          PROVE  AllocKept(q)
      BY <2>1, <2>2, <2>3 DEF AllocKept, Allocs, Control, AllocPCs, TypeOK
    <2>4. QED
      BY <2>3, AllocsKept
  <1>25. ASSUME NEW p \in Threads, kgsl_ioctl_timeline_signal(p)
        PROVE  Allocs'
    <2>1. ASSUME NEW q \in Threads, cur'[q] # None
          PROVE  AllocKept(q)
      BY <1>25, <2>1
         DEF kgsl_ioctl_timeline_signal, At, Goto, kgsl_timeline_by_id,
             devVars, tlVars, fenceVars, threadVars, AllocKept, Allocs,
             Control, FreePCs, AllocPCs, TypeOK
    <2>2. QED
      BY <2>1, AllocsKept
  <1>26. ASSUME NEW p \in Threads, FenceLookup(p)
        PROVE  Allocs'
    <2>1. ASSUME NEW q \in Threads, cur'[q] # None
          PROVE  AllocKept(q)
      BY <1>26, <2>1
         DEF FenceLookup, At, Goto, kgsl_timeline_by_id, devVars, tlVars,
             fenceVars, threadVars, AllocKept, Allocs, Control, FreePCs,
             AllocPCs, TypeOK
    <2>2. QED
      BY <2>1, AllocsKept
  <1>27. ASSUME NEW p \in Threads, WaitError(p)
        PROVE  Allocs'
    <2>1. ASSUME NEW q \in Threads, cur'[q] # None
          PROVE  AllocKept(q)
      BY <1>27, <2>1
         DEF WaitError, At, Goto, devVars, tlVars, fenceVars, threadVars,
             AllocKept, Allocs, Control, FreePCs, AllocPCs, TypeOK
    <2>2. QED
      BY <2>1, AllocsKept
  <1>28. ASSUME NEW p \in Threads, WaitTimeout(p)
        PROVE  Allocs'
    <2>1. ASSUME NEW q \in Threads, cur'[q] # None
          PROVE  AllocKept(q)
      BY <1>28, <2>1
         DEF WaitTimeout, At, Goto, devVars, tlVars, fenceVars, threadVars,
             AllocKept, Allocs, Control, FreePCs, AllocPCs, TypeOK
    <2>2. QED
      BY <2>1, AllocsKept
  <1>29. ASSUME NEW p \in Threads, CloseFd(p)
        PROVE  Allocs'
    <2>1. /\ UNCHANGED <<tl, cur, pc, ftl, fences, temp, got>> /\ fd' \subseteq fd
      BY <1>29 DEF CloseFd, tlVars
    <2>2. ASSUME NEW q \in Threads, cur'[q] # None
          PROVE  AllocKept(q)
      BY <2>1, <2>2 DEF AllocKept, Allocs
    <2>3. QED
      BY <2>2, AllocsKept
  <1>30. ASSUME NEW p \in Threads, kgsl_ioctl_timeline_query(p)
        PROVE  Allocs'
    <2>1. ASSUME NEW q \in Threads, cur'[q] # None
          PROVE  AllocKept(q)
      BY <1>30, <2>1
         DEF kgsl_ioctl_timeline_query, At, Goto, kgsl_timeline_by_id,
             devVars, tlVars, fenceVars, threadVars, AllocKept, Allocs,
             Control, FreePCs, AllocPCs, TypeOK
    <2>2. QED
      BY <2>1, AllocsKept
  <1>31. ASSUME NEW p \in Threads, kgsl_ioctl_timeline_destroy(p)
        PROVE  Allocs'
    <2>1. ASSUME NEW q \in Threads, cur'[q] # None
          PROVE  AllocKept(q)
      BY <1>31, <2>1
         DEF kgsl_ioctl_timeline_destroy, At, Goto, devVars, tlVars,
             fenceVars, threadVars, AllocKept, Allocs, Control, FreePCs,
             AllocPCs, TypeOK
    <2>2. QED
      BY <2>1, AllocsKept
  <1>32. ASSUME NEW f \in Fences, Poll(f)
        PROVE  Allocs'
    <2>1. ASSUME NEW q \in Threads, cur'[q] # None
          PROVE  AllocKept(q)
      BY <1>32, <2>1
         DEF Poll, At, Goto, devVars, tlVars, fenceVars, threadVars,
             AllocKept, Allocs, Control, FreePCs, AllocPCs, TypeOK
    <2>2. QED
      BY <2>1, AllocsKept
  <1>33. CASE UNCHANGED vars
    <2>1. ASSUME NEW q \in Threads, cur'[q] # None
          PROVE  AllocKept(q)
      BY <1>33, <2>1
         DEF vars, devVars, tlVars, fenceVars, threadVars, AllocKept, Allocs,
             Control, FreePCs, AllocPCs, TypeOK
    <2>2. QED
      BY <2>1, AllocsKept
  <1>34. QED
    BY <1>1, <1>2, <1>3, <1>4, <1>5, <1>6, <1>7, <1>8, <1>9, <1>10, <1>11,
       <1>12, <1>13, <1>14, <1>15, <1>16, <1>17, <1>18, <1>19, <1>20, <1>21,
       <1>22, <1>23, <1>24, <1>25, <1>26, <1>27, <1>28, <1>29, <1>30, <1>31,
       <1>32, <1>33
       DEF Next, Step, Choose


\* dma_fence_put by a thread that is not in a release keeps Releases: the
\* last reference starts exactly one.
LEMMA FencePutReleases ==
    ASSUME TypeOK, Releases, NEW p \in Threads, rel[p] = None, NEW f \in Fences,
           fref[f] > 0, dma_fence_put(p, f), UNCHANGED ftl
    PROVE  Releases'
  <1>1. /\ fref'[f] = fref[f] - 1 /\ \A g \in Fences : g # f => fref'[g] = fref[g]
        /\ rel'[p] = (IF fref[f] = 1 THEN f ELSE None)
        /\ \A q \in Threads : q # p => rel'[q] = rel[q]
        /\ fref[f] \in Nat
    BY DEF dma_fence_put, TypeOK
  <1>2. ftl[f] # None /\ \A q \in Threads : rel[q] # f
    BY TimelineAssumption DEF Releases
  <1>3. \A g \in Fences : fref'[g] > 0 => ftl'[g] # None
    BY <1>1, <1>2 DEF Releases
  <1>4. ASSUME NEW q \in Threads, rel'[q] # None
        PROVE  ftl'[rel'[q]] # None /\ fref'[rel'[q]] = 0
    <2>1. CASE q = p
      <3>1. rel'[q] = f /\ fref[f] = 1
        BY <1>1, <1>4, <2>1
      <3>2. QED
        BY <1>1, <1>2, <3>1
    <2>2. CASE q # p
      <3>1. rel'[q] = rel[q] /\ rel[q] \in Fences /\ rel[q] # f
        BY <1>1, <1>2, <1>4, <2>2 DEF TypeOK
      <3>2. ftl[rel[q]] # None /\ fref[rel[q]] = 0
        BY <1>4, <3>1 DEF Releases
      <3>3. QED
        BY <1>1, <3>1, <3>2
    <2>3. QED
      BY <2>1, <2>2
  <1>5. \A q, r \in Threads : rel'[q] # None /\ rel'[q] = rel'[r] => q = r
    BY <1>1, <1>2 DEF Releases
  <1>6. ASSUME NEW g \in Fences, ftl'[g] # None, fref'[g] = 0
        PROVE  \E q \in Threads : rel'[q] = g
    <2>1. CASE g = f
      BY <1>1, <1>6, <2>1
    <2>2. CASE g # f
      <3>1. PICK q \in Threads : rel[q] = g
        BY <1>1, <1>6, <2>2 DEF Releases
      <3>2. q # p
        BY <3>1, TimelineAssumption
      <3>3. QED
        BY <1>1, <3>1, <3>2
    <2>3. QED
      BY <2>1, <2>2
  <1>7. QED
    BY <1>3, <1>4, <1>5, <1>6 DEF Releases

\* Another reference on a fence in use keeps Releases.
LEMMA FenceGetReleases ==
    ASSUME TypeOK, Releases, NEW f \in Fences, fref[f] > 0,
           fref' = [fref EXCEPT ![f] = @ + 1], UNCHANGED <<ftl, rel>>
    PROVE  Releases'
  <1>1. /\ fref'[f] = fref[f] + 1 /\ fref[f] \in Nat
        /\ \A g \in Fences : g # f => fref'[g] = fref[g]
    BY DEF TypeOK
  <1>2. \A q \in Threads : rel[q] # f
    BY TimelineAssumption DEF Releases
  <1>3. ftl[f] # None /\ \A g \in Fences : fref'[g] > 0 => ftl'[g] # None
    BY <1>1 DEF Releases
  <1>4. \A q \in Threads : rel'[q] # None => ftl'[rel'[q]] # None /\ fref'[rel'[q]] = 0
    BY <1>1, <1>2 DEF Releases, TypeOK
  <1>5. \A g \in Fences : ftl'[g] # None /\ fref'[g] = 0 => \E q \in Threads : rel'[q] = g
    BY <1>1 DEF Releases
  <1>6. QED
    BY <1>3, <1>4, <1>5 DEF Releases

\* Every step keeps a count of 0 in exactly one release.
LEMMA ReleasesStep ==
    ASSUME TypeOK, Control, Locks, Lists, Allocs, Releases, Users, Empties,
           [Next]_vars
    PROVE  Releases'
  <1>1. ASSUME NEW p \in Threads, kgsl_ioctl_timeline_create(p)
        PROVE  Releases'
    BY <1>1
       DEF kgsl_ioctl_timeline_create, At, Goto, devVars, tlVars, fenceVars,
           threadVars, Releases
  <1>2. ASSUME NEW p \in Threads, SignalLock(p)
        PROVE  Releases'
    BY <1>2
       DEF SignalLock, At, Goto, devVars, tlVars, fenceVars, threadVars,
           Releases
  <1>3. ASSUME NEW p \in Threads, ScanLock(p)
        PROVE  Releases'
    BY <1>3
       DEF ScanLock, At, Goto, devVars, tlVars, fenceVars, threadVars,
           Releases
  <1>4. ASSUME NEW p \in Threads, SignalScan(p)
        PROVE  Releases'
    <2> DEFINE g == fences[tl[p]][idx[p]]
    <2>1. /\ g \in Fences
          /\ \/ fref[g] > 0 /\ fref' = [fref EXCEPT ![g] = @ + 1]
             \/ UNCHANGED fref
      BY <1>4, SignalScanShape
    <2>2. UNCHANGED <<ftl, rel>>
      BY <1>4 DEF SignalScan
    <2>3. CASE UNCHANGED fref
      BY <2>2, <2>3 DEF Releases
    <2>4. CASE fref[g] > 0 /\ fref' = [fref EXCEPT ![g] = @ + 1]
      <3> HIDE DEF g
      <3>1. QED
        BY <2>1, <2>2, <2>4, FenceGetReleases
    <2>5. QED
      BY <2>1, <2>3, <2>4
  <1>5. ASSUME NEW p \in Threads, SignalScanEnd(p)
        PROVE  Releases'
    BY <1>5
       DEF SignalScanEnd, At, Goto, devVars, tlVars, fenceVars, threadVars,
           Releases
  <1>6. ASSUME NEW p \in Threads, SignalFence(p)
        PROVE  Releases'
    <2>1. Head(temp[p]) \in Fences /\ Head(temp[p]) \in Range(temp[p])
      BY <1>6, PopShape DEF SignalFence
    <2>2. fref[Head(temp[p])] > 0
      BY <2>1 DEF Users, ScanRefs
    <2>3. dma_fence_put(p, Head(temp[p])) /\ rel[p] = None /\ UNCHANGED ftl
      BY <1>6 DEF SignalFence, At
    <2>4. QED
      BY <2>1, <2>2, <2>3, FencePutReleases
  <1>7. ASSUME NEW p \in Threads, SignalUnlock(p)
        PROVE  Releases'
    BY <1>7
       DEF SignalUnlock, At, Goto, devVars, tlVars, fenceVars, threadVars,
           Releases
  <1>8. ASSUME NEW p \in Threads, PutTimeline(p)
        PROVE  Releases'
    BY <1>8
       DEF PutTimeline, At, Goto, kgsl_timeline_put, devVars, tlVars,
           fenceVars, threadVars, Releases
  <1>9. ASSUME NEW p \in Threads, kgsl_timeline_fence_alloc(p)
        PROVE  Releases'
    <2>1. PICK g \in Fences :
            /\ ftl[g] = None /\ ftl' = [ftl EXCEPT ![g] = tl[p]]
            /\ fref' = [fref EXCEPT ![g] = 1]
      BY <1>9 DEF kgsl_timeline_fence_alloc, FreeFences
    <2>2. tl[p] # None /\ UNCHANGED rel
      BY <1>9 DEF kgsl_timeline_fence_alloc, At, Control, FreePCs
    <2>3. \A q \in Threads : rel[q] # g
      BY <2>1, TimelineAssumption DEF Releases
    <2>4. /\ ftl'[g] = tl[p] /\ fref'[g] = 1
          /\ \A h \in Fences : h # g => ftl'[h] = ftl[h] /\ fref'[h] = fref[h]
      BY <2>1 DEF TypeOK
    <2>5. \A q \in Threads : rel'[q] # None => ftl'[rel'[q]] # None /\ fref'[rel'[q]] = 0
      BY <2>2, <2>3, <2>4 DEF Releases, TypeOK
    <2>6. QED
      BY <2>2, <2>4, <2>5 DEF Releases
  <1>10. ASSUME NEW p \in Threads, FenceAllocFails(p)
        PROVE  Releases'
    BY <1>10
       DEF FenceAllocFails, At, Goto, kgsl_timeline_put, devVars, tlVars,
           fenceVars, threadVars, Releases
  <1>11. ASSUME NEW p \in Threads, FenceLock(p)
        PROVE  Releases'
    BY <1>11
       DEF FenceLock, At, Goto, devVars, tlVars, fenceVars, threadVars,
           Releases
  <1>12. ASSUME NEW p \in Threads, kgsl_timeline_add_fence(p)
        PROVE  Releases'
    BY <1>12
       DEF kgsl_timeline_add_fence, At, Goto, devVars, tlVars, fenceVars,
           threadVars, Releases
  <1>13. ASSUME NEW p \in Threads, WaitCollect(p)
        PROVE  Releases'
    BY <1>13
       DEF WaitCollect, At, Goto, kgsl_timeline_put, devVars, tlVars,
           fenceVars, threadVars, Releases
  <1>14. ASSUME NEW p \in Threads, WaitStart(p)
        PROVE  Releases'
    BY <1>14
       DEF WaitStart, At, Goto, devVars, tlVars, fenceVars, threadVars,
           Releases
  <1>15. ASSUME NEW p \in Threads, WaitReturn(p)
        PROVE  Releases'
    BY <1>15
       DEF WaitReturn, At, Goto, devVars, tlVars, fenceVars, threadVars,
           Releases
  <1>16. ASSUME NEW p \in Threads, WaitPut(p)
        PROVE  Releases'
    <2>1. rel[p] = None /\ UNCHANGED ftl
      BY <1>16 DEF WaitPut, At
    <2>2. CASE got[p] # <<>>
      <3>1. /\ Head(got[p]) \in Fences /\ Head(got[p]) \in Range(got[p])
            /\ dma_fence_put(p, Head(got[p]))
        BY <1>16, <2>2, WaitPutShape
      <3>2. fref[Head(got[p])] > 0
        BY <3>1 DEF Users
      <3>3. QED
        BY <2>1, <3>1, <3>2, FencePutReleases
    <2>3. CASE got[p] = <<>>
      <3>1. UNCHANGED <<fref, rel>>
        BY <1>16, <2>3, WaitPutShape
      <3>2. QED
        BY <2>1, <3>1 DEF Releases
    <2>4. QED
      BY <2>2, <2>3
  <1>17. ASSUME NEW p \in Threads, FenceGetInstall(p)
        PROVE  Releases'
    <2>1. cur[p] \in Fences /\ fref[cur[p]] > 0
      BY <1>17, ThreadsTimeline DEF FenceGetInstall, At, AllocPCs
    <2>2. /\ UNCHANGED <<ftl, rel>>
          /\ fref' = [fref EXCEPT ![cur[p]] = @ + 1] \/ UNCHANGED fref
      BY <1>17 DEF FenceGetInstall
    <2>3. CASE UNCHANGED fref
      BY <2>2, <2>3 DEF Releases
    <2>4. CASE fref' = [fref EXCEPT ![cur[p]] = @ + 1]
      BY <2>1, <2>2, <2>4, FenceGetReleases
    <2>5. QED
      BY <2>2, <2>3, <2>4
  <1>18. ASSUME NEW p \in Threads, kgsl_ioctl_timeline_fence_get(p)
        PROVE  Releases'
    <2>1. cur[p] \in Fences /\ fref[cur[p]] > 0
      BY <1>18, ThreadsTimeline DEF kgsl_ioctl_timeline_fence_get, At, AllocPCs
    <2>2. dma_fence_put(p, cur[p]) /\ rel[p] = None /\ UNCHANGED ftl
      BY <1>18 DEF kgsl_ioctl_timeline_fence_get, At
    <2>3. QED
      BY <2>1, <2>2, FencePutReleases
  <1>19. ASSUME NEW p \in Threads, timeline_fence_release(p)
        PROVE  Releases'
    <2>1. rel[p] \in Fences /\ ftl[rel[p]] \in Timelines /\ fref[rel[p]] = 0 /\ rel[p] # None
      BY <1>19, ReleaseShape DEF timeline_fence_release
    <2>2. /\ UNCHANGED fref /\ ftl' = [ftl EXCEPT ![rel[p]] = None]
          /\ rel' = [rel EXCEPT ![p] = None]
      BY <1>19 DEF timeline_fence_release
    <2>3. /\ ftl'[rel[p]] = None /\ \A h \in Fences : h # rel[p] => ftl'[h] = ftl[h]
          /\ rel'[p] = None /\ \A q \in Threads : q # p => rel'[q] = rel[q]
      BY <2>1, <2>2 DEF TypeOK
    <2>4. \A q \in Threads : q # p => rel[q] # rel[p]
      BY <2>1 DEF Releases
    <2>5. \A h \in Fences : fref'[h] > 0 => ftl'[h] # None
      BY <2>1, <2>2, <2>3 DEF Releases
    <2>6. \A q \in Threads : rel'[q] # None => ftl'[rel'[q]] # None /\ fref'[rel'[q]] = 0
      BY <2>2, <2>3, <2>4 DEF Releases, TypeOK
    <2>7. \A q, r \in Threads : rel'[q] # None /\ rel'[q] = rel'[r] => q = r
      BY <2>3 DEF Releases
    <2>8. ASSUME NEW h \in Fences, ftl'[h] # None, fref'[h] = 0
          PROVE  \E q \in Threads : rel'[q] = h
      <3>1. h # rel[p] /\ ftl[h] # None /\ fref[h] = 0
        BY <2>2, <2>3, <2>8
      <3>2. PICK q \in Threads : rel[q] = h
        BY <3>1 DEF Releases
      <3>3. QED
        BY <2>3, <3>1, <3>2
    <2>9. QED
      BY <2>5, <2>6, <2>7, <2>8 DEF Releases
  <1>20. ASSUME NEW p \in Threads, DestroyScan(p)
        PROVE  Releases'
    <2> DEFINE g == fences[tl[p]][idx[p]]
    <2>1. /\ g \in Fences
          /\ \/ fref[g] > 0 /\ fref' = [fref EXCEPT ![g] = @ + 1]
             \/ UNCHANGED fref
      BY <1>20, DestroyScanShape
    <2>2. UNCHANGED <<ftl, rel>>
      BY <1>20 DEF DestroyScan
    <2>3. CASE UNCHANGED fref
      BY <2>2, <2>3 DEF Releases
    <2>4. CASE fref[g] > 0 /\ fref' = [fref EXCEPT ![g] = @ + 1]
      <3> HIDE DEF g
      <3>1. QED
        BY <2>1, <2>2, <2>4, FenceGetReleases
    <2>5. QED
      BY <2>1, <2>3, <2>4
  <1>21. ASSUME NEW p \in Threads, DestroyScanEnd(p)
        PROVE  Releases'
    BY <1>21
       DEF DestroyScanEnd, At, Goto, devVars, tlVars, fenceVars, threadVars,
           Releases
  <1>22. ASSUME NEW p \in Threads, DestroyLock(p)
        PROVE  Releases'
    BY <1>22
       DEF DestroyLock, At, Goto, devVars, tlVars, fenceVars, threadVars,
           Releases
  <1>23. ASSUME NEW p \in Threads, DestroyFence(p)
        PROVE  Releases'
    <2>1. Head(temp[p]) \in Fences /\ Head(temp[p]) \in Range(temp[p])
      BY <1>23, PopShape DEF DestroyFence
    <2>2. fref[Head(temp[p])] > 0
      BY <2>1 DEF Users, ScanRefs
    <2>3. dma_fence_put(p, Head(temp[p])) /\ rel[p] = None /\ UNCHANGED ftl
      BY <1>23 DEF DestroyFence, At
    <2>4. QED
      BY <2>1, <2>2, <2>3, FencePutReleases
  <1>24. ASSUME NEW p \in Threads, kgsl_timeline_alloc(p)
        PROVE  Releases'
    BY <1>24
       DEF kgsl_timeline_alloc, At, Goto, FreeTimelines, devVars, tlVars,
           fenceVars, threadVars, Releases
  <1>25. ASSUME NEW p \in Threads, kgsl_ioctl_timeline_signal(p)
        PROVE  Releases'
    BY <1>25
       DEF kgsl_ioctl_timeline_signal, At, Goto, kgsl_timeline_by_id, devVars,
           tlVars, fenceVars, threadVars, Releases
  <1>26. ASSUME NEW p \in Threads, FenceLookup(p)
        PROVE  Releases'
    BY <1>26
       DEF FenceLookup, At, Goto, kgsl_timeline_by_id, devVars, tlVars,
           fenceVars, threadVars, Releases
  <1>27. ASSUME NEW p \in Threads, WaitError(p)
        PROVE  Releases'
    BY <1>27
       DEF WaitError, At, Goto, devVars, tlVars, fenceVars, threadVars,
           Releases
  <1>28. ASSUME NEW p \in Threads, WaitTimeout(p)
        PROVE  Releases'
    BY <1>28
       DEF WaitTimeout, At, Goto, devVars, tlVars, fenceVars, threadVars,
           Releases
  <1>29. ASSUME NEW p \in Threads, CloseFd(p)
        PROVE  Releases'
    <2>1. PICK f \in fd : dma_fence_put(p, f)
      BY <1>29 DEF CloseFd
    <2>2. f \in Fences /\ fref[f] > 0
      BY DEF TypeOK, Users
    <2>3. rel[p] = None /\ UNCHANGED ftl
      BY <1>29 DEF CloseFd, At
    <2>4. QED
      BY <2>1, <2>2, <2>3, FencePutReleases
  <1>30. ASSUME NEW p \in Threads, kgsl_ioctl_timeline_query(p)
        PROVE  Releases'
    BY <1>30
       DEF kgsl_ioctl_timeline_query, At, Goto, kgsl_timeline_by_id, devVars,
           tlVars, fenceVars, threadVars, Releases
  <1>31. ASSUME NEW p \in Threads, kgsl_ioctl_timeline_destroy(p)
        PROVE  Releases'
    BY <1>31
       DEF kgsl_ioctl_timeline_destroy, At, Goto, devVars, tlVars, fenceVars,
           threadVars, Releases
  <1>32. ASSUME NEW f \in Fences, Poll(f)
        PROVE  Releases'
    BY <1>32
       DEF Poll, At, Goto, devVars, tlVars, fenceVars, threadVars, Releases
  <1>33. CASE UNCHANGED vars
    BY <1>33
       DEF vars, devVars, tlVars, fenceVars, threadVars, Releases
  <1>34. QED
    BY <1>1, <1>2, <1>3, <1>4, <1>5, <1>6, <1>7, <1>8, <1>9, <1>10, <1>11,
       <1>12, <1>13, <1>14, <1>15, <1>16, <1>17, <1>18, <1>19, <1>20, <1>21,
       <1>22, <1>23, <1>24, <1>25, <1>26, <1>27, <1>28, <1>29, <1>30, <1>31,
       <1>32, <1>33
       DEF Next, Step, Choose

\* What keeps the references of the scan of q.
ScanKept(q) ==
    /\ temp'[q] = temp[q]
    /\ pc'[q] = "d_scan" <=> pc[q] = "d_scan"
    /\ pc[q] = "d_scan" =>
        idx'[q] = idx[q] /\ tl'[q] = tl[q] /\ fences'[tl[q]] = fences[tl[q]]

\* Such a thread keeps what it has pinned.
LEMMA ScanRefsKept ==
    ASSUME NEW q \in Threads, ScanKept(q)
    PROVE  ScanRefs(q)' = ScanRefs(q)
  BY DEF ScanKept, ScanRefs

\* The steps that pin a fence or put a pinned one.
PinStep == \E p \in Threads : \/ SignalScan(p) \/ DestroyScan(p)
                              \/ SignalFence(p) \/ DestroyFence(p)

\* A step that neither pins a fence nor puts a pinned one leaves the
\* references of the scans alone.
LEMMA ScanRefsSame ==
    ASSUME TypeOK, Control, Locks, Lists, Allocs, Releases, Users, Empties,
           [Next]_vars
    PROVE  \/ PinStep
           \/ \A q \in Threads : ScanRefs(q)' = ScanRefs(q)
  <1>1. ASSUME NEW p \in Threads, kgsl_ioctl_timeline_create(p)
        PROVE  \/ PinStep
               \/ \A q \in Threads : ScanRefs(q)' = ScanRefs(q)
    <2>1. \A q \in Threads : ScanKept(q)
      BY <1>1
         DEF kgsl_ioctl_timeline_create, At, Goto, tlVars, threadVars,
             ScanKept, TypeOK
    <2>2. QED
      BY <2>1, ScanRefsKept
  <1>2. ASSUME NEW p \in Threads, SignalLock(p)
        PROVE  \/ PinStep
               \/ \A q \in Threads : ScanRefs(q)' = ScanRefs(q)
    <2>1. \A q \in Threads : ScanKept(q)
      BY <1>2 DEF SignalLock, At, Goto, tlVars, threadVars, ScanKept, TypeOK
    <2>2. QED
      BY <2>1, ScanRefsKept
  <1>3. ASSUME NEW p \in Threads, ScanLock(p)
        PROVE  \/ PinStep
               \/ \A q \in Threads : ScanRefs(q)' = ScanRefs(q)
    <2>1. UNCHANGED <<temp, fences, tl>> /\ idx' = [idx EXCEPT ![p] = 1] /\ pc[p] # "d_scan"
      BY <1>3 DEF ScanLock, At
    <2>2. pc' = [pc EXCEPT ![p] = "s_scan"] \/ pc' = [pc EXCEPT ![p] = "d_scan"]
      BY <1>3 DEF ScanLock, Goto
    <2>3. ASSUME NEW q \in Threads, q # p
          PROVE  ScanKept(q)
      BY <2>1, <2>2, <2>3 DEF ScanKept, TypeOK
    <2>4. 1 .. 1 - 1 = {}
      OBVIOUS
    <2>5. ScanRefs(p)' = ScanRefs(p)
      <3>1. idx'[p] = 1 /\ temp'[p] = temp[p]
        BY <2>1 DEF TypeOK
      <3>2. ScanRefs(p) = Range(temp[p])
        BY <2>1 DEF ScanRefs
      <3>3. ScanRefs(p)' = Range(temp[p])
        BY <2>4, <3>1 DEF ScanRefs
      <3>4. QED
        BY <3>2, <3>3
    <2>6. QED
      BY <2>3, <2>5, ScanRefsKept
  <1>4. ASSUME NEW p \in Threads, SignalScan(p)
        PROVE  \/ PinStep
               \/ \A q \in Threads : ScanRefs(q)' = ScanRefs(q)
    BY <1>4 DEF PinStep
  <1>5. ASSUME NEW p \in Threads, SignalScanEnd(p)
        PROVE  \/ PinStep
               \/ \A q \in Threads : ScanRefs(q)' = ScanRefs(q)
    <2>1. \A q \in Threads : ScanKept(q)
      BY <1>5 DEF SignalScanEnd, At, Goto, tlVars, threadVars, ScanKept, TypeOK
    <2>2. QED
      BY <2>1, ScanRefsKept
  <1>6. ASSUME NEW p \in Threads, SignalFence(p)
        PROVE  \/ PinStep
               \/ \A q \in Threads : ScanRefs(q)' = ScanRefs(q)
    BY <1>6 DEF PinStep
  <1>7. ASSUME NEW p \in Threads, SignalUnlock(p)
        PROVE  \/ PinStep
               \/ \A q \in Threads : ScanRefs(q)' = ScanRefs(q)
    <2>1. \A q \in Threads : ScanKept(q)
      BY <1>7 DEF SignalUnlock, At, Goto, tlVars, threadVars, ScanKept, TypeOK
    <2>2. QED
      BY <2>1, ScanRefsKept
  <1>8. ASSUME NEW p \in Threads, PutTimeline(p)
        PROVE  \/ PinStep
               \/ \A q \in Threads : ScanRefs(q)' = ScanRefs(q)
    <2>1. \A q \in Threads : ScanKept(q)
      BY <1>8
         DEF PutTimeline, At, Goto, kgsl_timeline_put, tlVars, threadVars,
             ScanKept, TypeOK
    <2>2. QED
      BY <2>1, ScanRefsKept
  <1>9. ASSUME NEW p \in Threads, kgsl_timeline_fence_alloc(p)
        PROVE  \/ PinStep
               \/ \A q \in Threads : ScanRefs(q)' = ScanRefs(q)
    <2>1. \A q \in Threads : ScanKept(q)
      BY <1>9
         DEF kgsl_timeline_fence_alloc, At, Goto, FreeFences, tlVars,
             threadVars, ScanKept, TypeOK
    <2>2. QED
      BY <2>1, ScanRefsKept
  <1>10. ASSUME NEW p \in Threads, FenceAllocFails(p)
        PROVE  \/ PinStep
               \/ \A q \in Threads : ScanRefs(q)' = ScanRefs(q)
    <2>1. \A q \in Threads : ScanKept(q)
      BY <1>10
         DEF FenceAllocFails, At, Goto, kgsl_timeline_put, tlVars, threadVars,
             ScanKept, TypeOK
    <2>2. QED
      BY <2>1, ScanRefsKept
  <1>11. ASSUME NEW p \in Threads, FenceLock(p)
        PROVE  \/ PinStep
               \/ \A q \in Threads : ScanRefs(q)' = ScanRefs(q)
    <2>1. \A q \in Threads : ScanKept(q)
      BY <1>11 DEF FenceLock, At, Goto, tlVars, threadVars, ScanKept, TypeOK
    <2>2. QED
      BY <2>1, ScanRefsKept
  <1>12. ASSUME NEW p \in Threads, kgsl_timeline_add_fence(p)
        PROVE  \/ PinStep
               \/ \A q \in Threads : ScanRefs(q)' = ScanRefs(q)
    <2>1. /\ UNCHANGED <<tl, idx, temp>> /\ fence_lock[tl[p]] = None
          /\ pc' = [pc EXCEPT ![p] = "f_done"] /\ pc[p] = "f_add"
      BY <1>12 DEF kgsl_timeline_add_fence, At, Goto
    <2>2. tl[p] \in Timelines
      BY <1>12, AddShape
    <2>3. ASSUME NEW q \in Threads
          PROVE  ScanKept(q)
      <3>1. pc[q] = "d_scan" => tl[q] \in Timelines /\ tl[q] # tl[p]
        BY <2>1, <2>2, ThreadsTimeline, TimelineAssumption
           DEF Locks, ScanPCs, FreePCs
      <3>2. pc[q] = "d_scan" => fences'[tl[q]] = fences[tl[q]]
        BY <1>12, <3>1 DEF kgsl_timeline_add_fence, TypeOK
      <3>3. QED
        BY <2>1, <3>2 DEF ScanKept, TypeOK
    <2>4. QED
      BY <2>3, ScanRefsKept
  <1>13. ASSUME NEW p \in Threads, WaitCollect(p)
        PROVE  \/ PinStep
               \/ \A q \in Threads : ScanRefs(q)' = ScanRefs(q)
    <2>1. \A q \in Threads : ScanKept(q)
      BY <1>13
         DEF WaitCollect, At, Goto, kgsl_timeline_put, tlVars, threadVars,
             ScanKept, TypeOK
    <2>2. QED
      BY <2>1, ScanRefsKept
  <1>14. ASSUME NEW p \in Threads, WaitStart(p)
        PROVE  \/ PinStep
               \/ \A q \in Threads : ScanRefs(q)' = ScanRefs(q)
    <2>1. \A q \in Threads : ScanKept(q)
      BY <1>14 DEF WaitStart, At, Goto, tlVars, threadVars, ScanKept, TypeOK
    <2>2. QED
      BY <2>1, ScanRefsKept
  <1>15. ASSUME NEW p \in Threads, WaitReturn(p)
        PROVE  \/ PinStep
               \/ \A q \in Threads : ScanRefs(q)' = ScanRefs(q)
    <2>1. \A q \in Threads : ScanKept(q)
      BY <1>15 DEF WaitReturn, At, Goto, tlVars, threadVars, ScanKept, TypeOK
    <2>2. QED
      BY <2>1, ScanRefsKept
  <1>16. ASSUME NEW p \in Threads, WaitPut(p)
        PROVE  \/ PinStep
               \/ \A q \in Threads : ScanRefs(q)' = ScanRefs(q)
    <2>1. \A q \in Threads : ScanKept(q)
      BY <1>16
         DEF WaitPut, At, Goto, dma_fence_put, tlVars, threadVars, ScanKept,
             TypeOK
    <2>2. QED
      BY <2>1, ScanRefsKept
  <1>17. ASSUME NEW p \in Threads, FenceGetInstall(p)
        PROVE  \/ PinStep
               \/ \A q \in Threads : ScanRefs(q)' = ScanRefs(q)
    <2>1. \A q \in Threads : ScanKept(q)
      BY <1>17
         DEF FenceGetInstall, At, Goto, tlVars, threadVars, ScanKept, TypeOK
    <2>2. QED
      BY <2>1, ScanRefsKept
  <1>18. ASSUME NEW p \in Threads, kgsl_ioctl_timeline_fence_get(p)
        PROVE  \/ PinStep
               \/ \A q \in Threads : ScanRefs(q)' = ScanRefs(q)
    <2>1. \A q \in Threads : ScanKept(q)
      BY <1>18
         DEF kgsl_ioctl_timeline_fence_get, At, Goto, dma_fence_put, tlVars,
             threadVars, ScanKept, TypeOK
    <2>2. QED
      BY <2>1, ScanRefsKept
  <1>19. ASSUME NEW p \in Threads, timeline_fence_release(p)
        PROVE  \/ PinStep
               \/ \A q \in Threads : ScanRefs(q)' = ScanRefs(q)
    <2>1. UNCHANGED <<tl, idx, pc, temp>> /\ fence_lock[ftl[rel[p]]] = None
      BY <1>19 DEF timeline_fence_release
    <2>2. /\ ftl[rel[p]] \in Timelines
          /\ \A u \in Timelines : u # ftl[rel[p]] => fences'[u] = fences[u]
      BY <1>19, ReleaseShape
    <2>3. ASSUME NEW q \in Threads
          PROVE  ScanKept(q)
      <3>1. pc[q] = "d_scan" => tl[q] \in Timelines /\ tl[q] # ftl[rel[p]]
        BY <2>1, <2>2, ThreadsTimeline, TimelineAssumption
           DEF Locks, ScanPCs, FreePCs
      <3>2. QED
        BY <2>1, <2>2, <3>1 DEF ScanKept
    <2>4. QED
      BY <2>3, ScanRefsKept
  <1>20. ASSUME NEW p \in Threads, DestroyScan(p)
        PROVE  \/ PinStep
               \/ \A q \in Threads : ScanRefs(q)' = ScanRefs(q)
    BY <1>20 DEF PinStep
  <1>21. ASSUME NEW p \in Threads, DestroyScanEnd(p)
        PROVE  \/ PinStep
               \/ \A q \in Threads : ScanRefs(q)' = ScanRefs(q)
    <2>1. /\ UNCHANGED tl /\ pc[p] = "d_scan" /\ pc' = [pc EXCEPT ![p] = "d_lock"]
          /\ idx' = [idx EXCEPT ![p] = 0]
          /\ temp' = [temp EXCEPT ![p] = fences[tl[p]]]
          /\ fences' = [fences EXCEPT ![tl[p]] = <<>>]
      BY <1>21 DEF DestroyScanEnd, At, Goto
    <2>2. /\ tl[p] \in Timelines /\ idx[p] = Len(fences[tl[p]]) + 1
          /\ Range(temp[p]) = {} /\ Len(fences[tl[p]]) \in Nat
      BY <1>21, DestroyScanEndShape
    <2>3. ASSUME NEW q \in Threads, q # p
          PROVE  ScanKept(q)
      <3>1. pc[q] = "d_scan" => tl[q] \in Timelines
        BY ThreadsTimeline DEF FreePCs
      <3>2. pc[q] = "d_scan" => tl[q] # tl[p]
        BY <2>1, <2>2, <2>3 DEF Locks, ScanPCs
      <3>3. QED
        BY <2>1, <2>3, <3>1, <3>2 DEF ScanKept, TypeOK
    <2>4. ScanRefs(p)' = ScanRefs(p)
      <3>1. fences[tl[p]] \in Seq(Fences)
        BY <2>2 DEF TypeOK
      <3>2. \A x : x \in Range(fences[tl[p]]) <=>
                   \E i \in 1 .. Len(fences[tl[p]]) : fences[tl[p]][i] = x
        BY <3>1, RangeIs
      <3>3. idx[p] - 1 = Len(fences[tl[p]])
        BY <2>2
      <3>4. ScanRefs(p) = {fences[tl[p]][i] : i \in 1 .. Len(fences[tl[p]])}
        BY <2>1, <2>2, <3>3 DEF ScanRefs
      <3>5. ScanRefs(p) = Range(fences[tl[p]])
        BY <3>2, <3>4
      <3>6. temp'[p] = fences[tl[p]] /\ pc'[p] = "d_lock"
        BY <2>1 DEF TypeOK
      <3>7. ScanRefs(p)' = Range(fences[tl[p]])
        BY <3>6 DEF ScanRefs
      <3>8. QED
        BY <3>5, <3>7
    <2>5. QED
      BY <2>3, <2>4, ScanRefsKept
  <1>22. ASSUME NEW p \in Threads, DestroyLock(p)
        PROVE  \/ PinStep
               \/ \A q \in Threads : ScanRefs(q)' = ScanRefs(q)
    <2>1. \A q \in Threads : ScanKept(q)
      BY <1>22 DEF DestroyLock, At, Goto, tlVars, threadVars, ScanKept, TypeOK
    <2>2. QED
      BY <2>1, ScanRefsKept
  <1>23. ASSUME NEW p \in Threads, DestroyFence(p)
        PROVE  \/ PinStep
               \/ \A q \in Threads : ScanRefs(q)' = ScanRefs(q)
    BY <1>23 DEF PinStep
  <1>24. ASSUME NEW p \in Threads, kgsl_timeline_alloc(p)
        PROVE  \/ PinStep
               \/ \A q \in Threads : ScanRefs(q)' = ScanRefs(q)
    <2>1. UNCHANGED <<fences, lock, fence_lock>>
      BY <1>24, AllocShape
    <2>2. /\ UNCHANGED <<idx, temp>> /\ pc' = [pc EXCEPT ![p] = "commit"] /\ pc[p] = "idle"
          /\ \A q \in Threads : q # p => tl'[q] = tl[q]
      BY <1>24 DEF kgsl_timeline_alloc, Goto, At, TypeOK
    <2>3. \A q \in Threads : ScanKept(q)
      BY <2>1, <2>2 DEF ScanKept, TypeOK
    <2>4. QED
      BY <2>3, ScanRefsKept
  <1>25. ASSUME NEW p \in Threads, kgsl_ioctl_timeline_signal(p)
        PROVE  \/ PinStep
               \/ \A q \in Threads : ScanRefs(q)' = ScanRefs(q)
    <2>1. \A q \in Threads : ScanKept(q)
      BY <1>25
         DEF kgsl_ioctl_timeline_signal, At, Goto, kgsl_timeline_by_id,
             tlVars, threadVars, ScanKept, TypeOK
    <2>2. QED
      BY <2>1, ScanRefsKept
  <1>26. ASSUME NEW p \in Threads, FenceLookup(p)
        PROVE  \/ PinStep
               \/ \A q \in Threads : ScanRefs(q)' = ScanRefs(q)
    <2>1. \A q \in Threads : ScanKept(q)
      BY <1>26
         DEF FenceLookup, At, Goto, kgsl_timeline_by_id, tlVars, threadVars,
             ScanKept, TypeOK
    <2>2. QED
      BY <2>1, ScanRefsKept
  <1>27. ASSUME NEW p \in Threads, WaitError(p)
        PROVE  \/ PinStep
               \/ \A q \in Threads : ScanRefs(q)' = ScanRefs(q)
    <2>1. \A q \in Threads : ScanKept(q)
      BY <1>27 DEF WaitError, At, Goto, tlVars, threadVars, ScanKept, TypeOK
    <2>2. QED
      BY <2>1, ScanRefsKept
  <1>28. ASSUME NEW p \in Threads, WaitTimeout(p)
        PROVE  \/ PinStep
               \/ \A q \in Threads : ScanRefs(q)' = ScanRefs(q)
    <2>1. \A q \in Threads : ScanKept(q)
      BY <1>28 DEF WaitTimeout, At, Goto, tlVars, threadVars, ScanKept, TypeOK
    <2>2. QED
      BY <2>1, ScanRefsKept
  <1>29. ASSUME NEW p \in Threads, CloseFd(p)
        PROVE  \/ PinStep
               \/ \A q \in Threads : ScanRefs(q)' = ScanRefs(q)
    <2>1. \A q \in Threads : ScanKept(q)
      BY <1>29
         DEF CloseFd, At, Goto, dma_fence_put, tlVars, threadVars, ScanKept,
             TypeOK
    <2>2. QED
      BY <2>1, ScanRefsKept
  <1>30. ASSUME NEW p \in Threads, kgsl_ioctl_timeline_query(p)
        PROVE  \/ PinStep
               \/ \A q \in Threads : ScanRefs(q)' = ScanRefs(q)
    <2>1. \A q \in Threads : ScanKept(q)
      BY <1>30
         DEF kgsl_ioctl_timeline_query, At, Goto, kgsl_timeline_by_id, tlVars,
             threadVars, ScanKept, TypeOK
    <2>2. QED
      BY <2>1, ScanRefsKept
  <1>31. ASSUME NEW p \in Threads, kgsl_ioctl_timeline_destroy(p)
        PROVE  \/ PinStep
               \/ \A q \in Threads : ScanRefs(q)' = ScanRefs(q)
    <2>1. \A q \in Threads : ScanKept(q)
      BY <1>31
         DEF kgsl_ioctl_timeline_destroy, At, Goto, tlVars, threadVars,
             ScanKept, TypeOK
    <2>2. QED
      BY <2>1, ScanRefsKept
  <1>32. ASSUME NEW f \in Fences, Poll(f)
        PROVE  \/ PinStep
               \/ \A q \in Threads : ScanRefs(q)' = ScanRefs(q)
    <2>1. \A q \in Threads : ScanKept(q)
      BY <1>32 DEF Poll, At, Goto, tlVars, threadVars, ScanKept, TypeOK
    <2>2. QED
      BY <2>1, ScanRefsKept
  <1>33. CASE UNCHANGED vars
    <2>1. \A q \in Threads : ScanKept(q)
      BY <1>33 DEF vars, tlVars, threadVars, ScanKept, TypeOK
    <2>2. QED
      BY <2>1, ScanRefsKept
  <1>34. QED
    BY <1>1, <1>2, <1>3, <1>4, <1>5, <1>6, <1>7, <1>8, <1>9, <1>10, <1>11,
       <1>12, <1>13, <1>14, <1>15, <1>16, <1>17, <1>18, <1>19, <1>20, <1>21,
       <1>22, <1>23, <1>24, <1>25, <1>26, <1>27, <1>28, <1>29, <1>30, <1>31,
       <1>32, <1>33
       DEF Next, Step, Choose


\* While p is inside fence_lock nobody else scans the list.
LEMMA ScansAlone ==
    ASSUME TypeOK, Control, Locks, Users, NEW p \in Threads, pc[p] \in ScanPCs,
           NEW q \in Threads, q # p, pc[q] = "d_scan"
    PROVE  tl[q] \in Timelines /\ tl[q] # tl[p]
  <1>1. tl[q] \in Timelines /\ tl[p] \in Timelines
    BY ThreadsTimeline DEF FreePCs, ScanPCs
  <1>2. QED
    BY <1>1 DEF Locks, ScanPCs

\* SignalScan pins the fence that it moves.
LEMMA SignalScanRefs ==
    ASSUME TypeOK, Control, Locks, Lists, Users, NEW p \in Threads, SignalScan(p),
           NEW g, g = fences[tl[p]][idx[p]]
    PROVE  /\ \A q \in Threads : q # p => ScanRefs(q)' = ScanRefs(q)
           /\ \/ /\ fref' = [fref EXCEPT ![g] = @ + 1]
                 /\ g \in Fences /\ g \notin ScanRefs(p)
                 /\ ScanRefs(p)' = ScanRefs(p) \cup {g}
              \/ /\ UNCHANGED fref /\ ScanRefs(p)' = ScanRefs(p)
  <1>1. /\ pc[p] = "s_scan" /\ UNCHANGED <<pc, tl>>
    BY DEF SignalScan, At
  <1>2. /\ tl[p] \in Timelines /\ g \in Fences /\ g \in Range(fences[tl[p]])
        /\ \/ /\ With(temp, temp', Threads, p, g)
              /\ fref' = [fref EXCEPT ![g] = @ + 1]
           \/ UNCHANGED <<fences, temp, fref>>
    BY SignalScanShape
  <1>3. ASSUME NEW q \in Threads, q # p
        PROVE  ScanKept(q)
    <2>1. pc[q] = "d_scan" => tl[q] \in Timelines /\ tl[q] # tl[p]
      BY <1>1, <1>3, ScansAlone DEF ScanPCs
    <2>2. pc[q] = "d_scan" => fences'[tl[q]] = fences[tl[q]]
      BY <2>1 DEF SignalScan, TypeOK
    <2>3. idx'[q] = idx[q] /\ temp'[q] = temp[q]
      BY <1>3 DEF SignalScan, TypeOK
    <2>4. QED
      BY <1>1, <2>2, <2>3 DEF ScanKept
  <1>4. ScanRefs(p) = Range(temp[p]) /\ ScanRefs(p)' = Range(temp'[p])
    BY <1>1 DEF ScanRefs
  <1>5. g \notin Range(temp[p])
    BY <1>2 DEF Lists, ListSets
  <1>6. QED
    BY <1>2, <1>3, <1>4, <1>5, ScanRefsKept DEF With

\* DestroyScan pins the fence that it passes.
LEMMA DestroyScanRefs ==
    ASSUME TypeOK, Control, Locks, Lists, Empties, Users, NEW p \in Threads, DestroyScan(p),
           NEW g, g = fences[tl[p]][idx[p]]
    PROVE  /\ \A q \in Threads : q # p => ScanRefs(q)' = ScanRefs(q)
           /\ \/ /\ fref' = [fref EXCEPT ![g] = @ + 1]
                 /\ g \in Fences /\ g \notin ScanRefs(p)
                 /\ ScanRefs(p)' = ScanRefs(p) \cup {g}
              \/ /\ UNCHANGED fref /\ ScanRefs(p)' = ScanRefs(p)
  <1>1. /\ pc[p] = "d_scan" /\ UNCHANGED <<pc, tl, temp>>
    BY DEF DestroyScan, At
  <1>2. /\ tl[p] \in Timelines /\ idx[p] \in 1 .. Len(fences[tl[p]]) /\ g \in Fences
        /\ \/ /\ fref' = [fref EXCEPT ![g] = @ + 1]
              /\ idx' = [idx EXCEPT ![p] = @ + 1] /\ UNCHANGED fences
           \/ UNCHANGED <<fref, idx>> /\ fref[g] = 0
    BY DestroyScanShape
  <1>3. ASSUME NEW q \in Threads, q # p
        PROVE  ScanKept(q)
    <2>1. pc[q] = "d_scan" => tl[q] \in Timelines /\ tl[q] # tl[p]
      BY <1>1, <1>3, ScansAlone DEF ScanPCs
    <2>2. pc[q] = "d_scan" => fences'[tl[q]] = fences[tl[q]]
      BY <2>1 DEF DestroyScan, TypeOK
    <2>3. idx'[q] = idx[q] /\ temp'[q] = temp[q]
      BY <1>3 DEF DestroyScan, TypeOK
    <2>4. QED
      BY <1>1, <2>2, <2>3 DEF ScanKept
  <1>4. /\ fences[tl[p]] \in Seq(Fences) /\ Distinct(fences[tl[p]])
        /\ Len(fences[tl[p]]) \in Nat
    BY <1>2 DEF TypeOK, Lists, ListSets
  <1>5. ScanRefs(p) = {fences[tl[p]][i] : i \in 1 .. idx[p] - 1}
    BY <1>1 DEF ScanRefs, Empties, TempPCs
  <1>6. ScanRefs(p)' = {fences'[tl[p]][i] : i \in 1 .. idx'[p] - 1}
    BY <1>1 DEF ScanRefs, Empties, TempPCs
  <1>7. CASE fref' = [fref EXCEPT ![g] = @ + 1] /\ idx' = [idx EXCEPT ![p] = @ + 1]
             /\ UNCHANGED fences
    <2>1. idx'[p] - 1 = idx[p]
      BY <1>7 DEF TypeOK
    <2>2. 1 .. idx[p] = (1 .. idx[p] - 1) \cup {idx[p]}
      BY <1>2, <1>4
    <2>3. g \notin ScanRefs(p)
      BY <1>2, <1>4, <1>5 DEF Distinct
    <2>4. ScanRefs(p)' = {fences[tl[p]][i] : i \in (1 .. idx[p] - 1) \cup {idx[p]}}
      BY <1>6, <1>7, <2>1, <2>2
    <2>5. ScanRefs(p)' = ScanRefs(p) \cup {g}
      BY <1>5, <2>4
    <2>6. QED
      BY <1>2, <1>3, <1>7, <2>3, <2>5, ScanRefsKept
  <1>8. CASE UNCHANGED <<fref, idx>> /\ fref[g] = 0
    <2>1. fences' = [fences EXCEPT ![tl[p]] = RemoveAt(fences[tl[p]], idx[p])]
      BY <1>8 DEF DestroyScan
    <2>2. \A i \in 1 .. idx[p] - 1 : RemoveAt(fences[tl[p]], idx[p])[i] = fences[tl[p]][i]
      <3>1. \A k \in 1 .. Len(fences[tl[p]]) - 1 :
              RemoveAt(fences[tl[p]], idx[p])[k] =
                IF k < idx[p] THEN fences[tl[p]][k] ELSE fences[tl[p]][k + 1]
        BY <1>2, <1>4, RemoveAtIs
      <3>2. QED
        BY <1>2, <1>4, <3>1
    <2>3. \A i \in 1 .. idx[p] - 1 : fences'[tl[p]][i] = fences[tl[p]][i]
      BY <1>2, <2>1, <2>2 DEF TypeOK
    <2>4. ScanRefs(p)' = ScanRefs(p)
      BY <1>5, <1>6, <1>8, <2>3
    <2>5. QED
      BY <1>3, <1>8, <2>4, ScanRefsKept
  <1>9. QED
    BY <1>2, <1>7, <1>8

\* The signal of a pinned fence puts it.
LEMMA PopRefs ==
    ASSUME TypeOK, Lists, NEW p \in Threads, temp[p] # <<>>, pc[p] # "d_scan",
           temp' = [temp EXCEPT ![p] = Tail(@)], UNCHANGED <<pc, idx, tl, fences>>
    PROVE  /\ Head(temp[p]) \in Fences /\ Head(temp[p]) \in ScanRefs(p)
           /\ \A q \in Threads : q # p => ScanRefs(q)' = ScanRefs(q)
           /\ ScanRefs(p)' = ScanRefs(p) \ {Head(temp[p])}
  <1>1. /\ Head(temp[p]) \in Fences /\ Head(temp[p]) \in Range(temp[p])
        /\ Without(temp, temp', Threads, p, Head(temp[p]))
    BY PopShape
  <1>2. ScanRefs(p) = Range(temp[p]) /\ ScanRefs(p)' = Range(temp'[p])
    BY DEF ScanRefs
  <1>3. \A q \in Threads : q # p => ScanKept(q)
    BY DEF ScanKept, TypeOK
  <1>4. QED
    BY <1>1, <1>2, <1>3, ScanRefsKept DEF Without

\* T is S with p added (d = 1), without p (d = -1), or S itself (d = 0).
Delta(S, T, p, d) ==
    \/ d = 0 /\ T = S
    \/ d = 1 /\ p \notin S /\ T = S \cup {p}
    \/ d = -1 /\ p \in S /\ T = S \ {p}

\* What such a change does to the size of a finite set.
LEMMA DeltaSize ==
    ASSUME NEW S, NEW T, NEW p, NEW d, IsFiniteSet(S), Delta(S, T, p, d)
    PROVE  d \in Int /\ Cardinality(S) \in Nat /\ Cardinality(T) = Cardinality(S) + d
  <1>1. Cardinality(S) \in Nat
    BY FS_CardinalityType
  <1>2. CASE d = 0 /\ T = S
    BY <1>1, <1>2
  <1>3. CASE d = 1 /\ p \notin S /\ T = S \cup {p}
    BY <1>1, <1>3, FS_AddElement
  <1>4. CASE d = -1 /\ p \in S /\ T = S \ {p}
    <2>1. Cardinality(S \ {p}) = Cardinality(S) - 1
      BY <1>4, FS_RemoveElement
    <2>2. QED
      BY <1>1, <1>4, <2>1
  <1>5. QED
    BY <1>2, <1>3, <1>4 DEF Delta

\* The count of one fence, and of one timeline.
FenceCount(f) ==
    fref[f] = Cardinality(CurUsers(f)) + Cardinality(GotUsers(f))
              + Cardinality(ScanUsers(f)) + (IF f \in fd THEN 1 ELSE 0)

\* The kref of t counts its users.
TimelineCount(t) ==
    ref[t] = Cardinality(IdrRefs(t)) + Cardinality(ThreadRefs(t))
             + Cardinality(FenceRefs(t))

\* The counts of the fences, fence by fence.
LEMMA FenceCounts == FenceRefCount <=> \A f \in Fences : FenceCount(f)
  BY DEF FenceRefCount, FenceCount, CurUsers, GotUsers, ScanUsers

\* The same in the next state.
LEMMA FenceCountsPrime == FenceRefCount' <=> \A f \in Fences : FenceCount(f)'
  BY DEF FenceRefCount, FenceCount, CurUsers, GotUsers, ScanUsers

\* The count stays exact when it follows its users.
LEMMA FenceCountMove ==
    ASSUME NEW f \in Fences, NEW p \in Threads, FenceCount(f),
           NEW a, NEW b, NEW c, NEW e \in Int,
           Delta(CurUsers(f), CurUsers(f)', p, a),
           Delta(GotUsers(f), GotUsers(f)', p, b),
           Delta(ScanUsers(f), ScanUsers(f)', p, c),
           (IF f \in fd' THEN 1 ELSE 0) = (IF f \in fd THEN 1 ELSE 0) + e,
           fref'[f] = fref[f] + a + b + c + e
    PROVE  FenceCount(f)'
  <1>1. /\ a \in Int /\ Cardinality(CurUsers(f)) \in Nat
        /\ Cardinality(CurUsers(f)') = Cardinality(CurUsers(f)) + a
    BY FenceUsersFinite, DeltaSize
  <1>2. /\ b \in Int /\ Cardinality(GotUsers(f)) \in Nat
        /\ Cardinality(GotUsers(f)') = Cardinality(GotUsers(f)) + b
    BY FenceUsersFinite, DeltaSize
  <1>3. /\ c \in Int /\ Cardinality(ScanUsers(f)) \in Nat
        /\ Cardinality(ScanUsers(f)') = Cardinality(ScanUsers(f)) + c
    BY FenceUsersFinite, DeltaSize
  <1>4. QED
    BY <1>1, <1>2, <1>3 DEF FenceCount

\* The users change only by what the threads hold.
LEMMA CurUsersSame ==
    ASSUME NEW f, \A q \in Threads : cur'[q] = f <=> cur[q] = f
    PROVE  CurUsers(f)' = CurUsers(f)
  BY DEF CurUsers

\* No array of a wait changes.
LEMMA GotUsersSame ==
    ASSUME NEW f, \A q \in Threads : f \in Range(got'[q]) <=> f \in Range(got[q])
    PROVE  GotUsers(f)' = GotUsers(f)
  BY DEF GotUsers

\* No scan pins or puts a fence.
LEMMA ScanUsersSame ==
    ASSUME NEW f, \A q \in Threads : f \in ScanRefs(q)' <=> f \in ScanRefs(q)
    PROVE  ScanUsers(f)' = ScanUsers(f)
  BY DEF ScanUsers

\* A step that changes no reference to f.
LEMMA FenceCountSame ==
    ASSUME NEW f \in Fences, FenceCount(f), CurUsers(f)' = CurUsers(f),
           GotUsers(f)' = GotUsers(f), ScanUsers(f)' = ScanUsers(f),
           f \in fd' <=> f \in fd, fref'[f] = fref[f]
    PROVE  FenceCount(f)'
  BY DEF FenceCount

\* A step that changes no reference to a fence.
LEMMA FenceCountIdle ==
    ASSUME FenceRefCount, UNCHANGED <<cur, got, fd, fref>>,
           \A q \in Threads : ScanRefs(q)' = ScanRefs(q)
    PROVE  FenceRefCount'
  <1>1. ASSUME NEW f \in Fences
        PROVE  FenceCount(f)'
    <2>1. FenceCount(f)
      BY FenceCounts
    <2>2. CurUsers(f)' = CurUsers(f)
      BY CurUsersSame
    <2>3. GotUsers(f)' = GotUsers(f)
      BY GotUsersSame
    <2>4. ScanUsers(f)' = ScanUsers(f)
      BY ScanUsersSame
    <2>5. QED
      BY <2>1, <2>2, <2>3, <2>4, FenceCountSame
  <1>2. QED
    BY <1>1, FenceCountsPrime

\* A step of p that pins g in its scan or puts it.
LEMMA FenceCountPin ==
    ASSUME TypeOK, FenceRefCount, UNCHANGED <<cur, got, fd>>, NEW p \in Threads,
           NEW g \in Fences,
           \A q \in Threads : q # p => ScanRefs(q)' = ScanRefs(q),
           \/ /\ fref' = [fref EXCEPT ![g] = @ + 1]
              /\ g \notin ScanRefs(p) /\ ScanRefs(p)' = ScanRefs(p) \cup {g}
           \/ /\ fref' = [fref EXCEPT ![g] = @ - 1]
              /\ g \in ScanRefs(p) /\ ScanRefs(p)' = ScanRefs(p) \ {g}
    PROVE  FenceRefCount'
  <1>1. ASSUME NEW f \in Fences
        PROVE  FenceCount(f)'
    <2>1. FenceCount(f)
      BY FenceCounts
    <2>2. CurUsers(f)' = CurUsers(f)
      BY CurUsersSame
    <2>3. GotUsers(f)' = GotUsers(f)
      BY GotUsersSame
    <2>4. CASE f = g
      <3>0. PICK d \in {1, -1} :
              /\ fref' = [fref EXCEPT ![g] = @ + d]
              /\ \/ d = 1 /\ g \notin ScanRefs(p) /\ ScanRefs(p)' = ScanRefs(p) \cup {g}
                 \/ d = -1 /\ g \in ScanRefs(p) /\ ScanRefs(p)' = ScanRefs(p) \ {g}
        BY DEF TypeOK
      <3>1. Delta(ScanUsers(f), ScanUsers(f)', p, d)
        BY <2>4, <3>0 DEF Delta, ScanUsers
      <3>2. fref'[f] = fref[f] + d /\ fref[f] \in Nat
        BY <2>4, <3>0 DEF TypeOK
      <3>3. /\ fref'[f] = fref[f] + 0 + 0 + d + 0
            /\ (IF f \in fd' THEN 1 ELSE 0) = (IF f \in fd THEN 1 ELSE 0) + 0
            /\ Delta(CurUsers(f), CurUsers(f)', p, 0)
            /\ Delta(GotUsers(f), GotUsers(f)', p, 0)
        BY <2>2, <2>3, <3>2 DEF Delta
      <3>4. QED
        BY <2>1, <3>1, <3>3, FenceCountMove
    <2>5. CASE f # g
      <3>1. ScanUsers(f)' = ScanUsers(f)
        BY <2>5, ScanUsersSame
      <3>2. fref'[f] = fref[f]
        BY <2>5 DEF TypeOK
      <3>3. QED
        BY <2>1, <2>2, <2>3, <3>1, <3>2, FenceCountSame
    <2>6. QED
      BY <2>4, <2>5
  <1>2. QED
    BY <1>1, FenceCountsPrime


\* Pinning a fence and putting a pinned one keep the counts of the fences.
LEMMA PinCounts ==
    ASSUME TypeOK, Control, Locks, Lists, Empties, Users, FenceRefCount, PinStep
    PROVE  FenceRefCount'
  <1>1. ASSUME NEW p \in Threads, SignalScan(p)
        PROVE  FenceRefCount'
    <2> DEFINE g == fences[tl[p]][idx[p]]
    <2>1. UNCHANGED <<cur, got, fd>>
      BY <1>1 DEF SignalScan
    <2>2. /\ \A q \in Threads : q # p => ScanRefs(q)' = ScanRefs(q)
          /\ \/ /\ fref' = [fref EXCEPT ![g] = @ + 1]
                /\ g \in Fences /\ g \notin ScanRefs(p)
                /\ ScanRefs(p)' = ScanRefs(p) \cup {g}
             \/ /\ UNCHANGED fref /\ ScanRefs(p)' = ScanRefs(p)
      BY <1>1, SignalScanRefs
    <2> HIDE DEF g
    <2>3. CASE UNCHANGED fref /\ ScanRefs(p)' = ScanRefs(p)
      BY <2>1, <2>2, <2>3, FenceCountIdle
    <2>4. CASE /\ fref' = [fref EXCEPT ![g] = @ + 1]
               /\ g \in Fences /\ g \notin ScanRefs(p)
               /\ ScanRefs(p)' = ScanRefs(p) \cup {g}
      BY <2>1, <2>2, <2>4, FenceCountPin
    <2>5. QED
      BY <2>2, <2>3, <2>4
  <1>2. ASSUME NEW p \in Threads, DestroyScan(p)
        PROVE  FenceRefCount'
    <2> DEFINE g == fences[tl[p]][idx[p]]
    <2>1. UNCHANGED <<cur, got, fd>>
      BY <1>2 DEF DestroyScan
    <2>2. /\ \A q \in Threads : q # p => ScanRefs(q)' = ScanRefs(q)
          /\ \/ /\ fref' = [fref EXCEPT ![g] = @ + 1]
                /\ g \in Fences /\ g \notin ScanRefs(p)
                /\ ScanRefs(p)' = ScanRefs(p) \cup {g}
             \/ /\ UNCHANGED fref /\ ScanRefs(p)' = ScanRefs(p)
      BY <1>2, DestroyScanRefs
    <2> HIDE DEF g
    <2>3. CASE UNCHANGED fref /\ ScanRefs(p)' = ScanRefs(p)
      BY <2>1, <2>2, <2>3, FenceCountIdle
    <2>4. CASE /\ fref' = [fref EXCEPT ![g] = @ + 1]
               /\ g \in Fences /\ g \notin ScanRefs(p)
               /\ ScanRefs(p)' = ScanRefs(p) \cup {g}
      BY <2>1, <2>2, <2>4, FenceCountPin
    <2>5. QED
      BY <2>2, <2>3, <2>4
  <1>3. ASSUME NEW p \in Threads, SignalFence(p) \/ DestroyFence(p)
        PROVE  FenceRefCount'
    <2> DEFINE g == Head(temp[p])
    <2>1. /\ UNCHANGED <<cur, got, fd>> /\ temp[p] # <<>> /\ pc[p] # "d_scan"
          /\ temp' = [temp EXCEPT ![p] = Tail(@)] /\ UNCHANGED <<pc, idx, tl, fences>>
          /\ fref' = [fref EXCEPT ![g] = @ - 1]
      BY <1>3 DEF SignalFence, DestroyFence, At, tlVars, dma_fence_put
    <2>2. /\ g \in Fences /\ g \in ScanRefs(p)
          /\ \A q \in Threads : q # p => ScanRefs(q)' = ScanRefs(q)
          /\ ScanRefs(p)' = ScanRefs(p) \ {g}
      BY <2>1, PopRefs
    <2> HIDE DEF g
    <2>3. QED
      BY <2>1, <2>2, FenceCountPin
  <1>4. QED
    BY <1>1, <1>2, <1>3 DEF PinStep

\* Every step that leaves the scans alone keeps the counts of the fences.
LEMMA OtherCounts ==
    ASSUME TypeOK, Control, Locks, Lists, Allocs, Releases, Users, Empties,
           FenceRefCount, \A q \in Threads : ScanRefs(q)' = ScanRefs(q),
           [Next]_vars
    PROVE  FenceRefCount'
  <1>1. ASSUME NEW p \in Threads, kgsl_ioctl_timeline_create(p)
        PROVE  FenceRefCount'
    <2>1. UNCHANGED <<cur, got, fd, fref>>
      BY <1>1 DEF kgsl_ioctl_timeline_create, fenceVars, threadVars
    <2>2. QED
      BY <2>1, FenceCountIdle
  <1>2. ASSUME NEW p \in Threads, SignalLock(p)
        PROVE  FenceRefCount'
    <2>1. UNCHANGED <<cur, got, fd, fref>>
      BY <1>2 DEF SignalLock, fenceVars, threadVars
    <2>2. QED
      BY <2>1, FenceCountIdle
  <1>3. ASSUME NEW p \in Threads, ScanLock(p)
        PROVE  FenceRefCount'
    <2>1. UNCHANGED <<cur, got, fd, fref>>
      BY <1>3 DEF ScanLock, fenceVars, threadVars
    <2>2. QED
      BY <2>1, FenceCountIdle
  <1>4. ASSUME NEW p \in Threads, SignalScan(p)
        PROVE  FenceRefCount'
    BY <1>4, PinCounts DEF PinStep
  <1>5. ASSUME NEW p \in Threads, SignalScanEnd(p)
        PROVE  FenceRefCount'
    <2>1. UNCHANGED <<cur, got, fd, fref>>
      BY <1>5 DEF SignalScanEnd, fenceVars, threadVars
    <2>2. QED
      BY <2>1, FenceCountIdle
  <1>6. ASSUME NEW p \in Threads, SignalFence(p)
        PROVE  FenceRefCount'
    BY <1>6, PinCounts DEF PinStep
  <1>7. ASSUME NEW p \in Threads, SignalUnlock(p)
        PROVE  FenceRefCount'
    <2>1. UNCHANGED <<cur, got, fd, fref>>
      BY <1>7 DEF SignalUnlock, fenceVars, threadVars
    <2>2. QED
      BY <2>1, FenceCountIdle
  <1>8. ASSUME NEW p \in Threads, PutTimeline(p)
        PROVE  FenceRefCount'
    <2>1. UNCHANGED <<cur, got, fd, fref>>
      BY <1>8 DEF PutTimeline, kgsl_timeline_put, fenceVars, threadVars
    <2>2. QED
      BY <2>1, FenceCountIdle
  <1>9. ASSUME NEW p \in Threads, kgsl_timeline_fence_alloc(p)
        PROVE  FenceRefCount'
    <2>1. PICK g \in Fences :
            /\ ftl[g] = None /\ fref' = [fref EXCEPT ![g] = 1]
            /\ cur' = [cur EXCEPT ![p] = g]
      BY <1>9 DEF kgsl_timeline_fence_alloc, FreeFences
    <2>2. UNCHANGED <<fd, got>> /\ pc[p] = "f_alloc"
      BY <1>9 DEF kgsl_timeline_fence_alloc, At
    <2>3. fref[g] = 0
      BY <2>1 DEF Releases, TypeOK
    <2>4. cur[p] = None /\ \A f \in Fences : f # None
      BY <2>2, TimelineAssumption DEF Control, AllocPCs
    <2>5. \A q \in Threads : cur'[q] = IF q = p THEN g ELSE cur[q]
      BY <2>1 DEF TypeOK
    <2>6. ASSUME NEW f \in Fences
          PROVE  FenceCount(f)'
      <3>1. FenceCount(f) /\ ScanUsers(f)' = ScanUsers(f)
        BY FenceCounts, ScanUsersSame
      <3>2. CASE f = g
        <4>1. Delta(CurUsers(f), CurUsers(f)', p, 1)
          BY <2>1, <2>2, <2>3, <2>4, <2>5, <3>2
             DEF Delta, CurUsers, With, Without
        <4>2. Delta(GotUsers(f), GotUsers(f)', p, 0)
          BY <2>1, <2>2, <2>3, <2>4, <2>5, <3>2
             DEF Delta, GotUsers, With, Without
        <4>3. Delta(ScanUsers(f), ScanUsers(f)', p, 0)
          BY <3>1 DEF Delta
        <4>4. (IF f \in fd' THEN 1 ELSE 0) = (IF f \in fd THEN 1 ELSE 0) + (0)
          BY <2>1, <2>2, <2>3, <2>4, <2>5, <3>2
        <4>5. fref'[f] = fref[f] + (1) + (0) + 0 + (0)
          BY <2>1, <2>2, <2>3, <2>4, <2>5, <3>2 DEF TypeOK
        <4>6. QED
          BY <3>1, <4>1, <4>2, <4>3, <4>4, <4>5, FenceCountMove
      <3>3. CASE f # g
        <4>1. CurUsers(f)' = CurUsers(f)
          BY <2>1, <2>2, <2>3, <2>4, <2>5, <3>3 DEF CurUsers
        <4>2. GotUsers(f)' = GotUsers(f)
          BY <2>1, <2>2, <2>3, <2>4, <2>5, <3>3 DEF GotUsers, With, Without
        <4>3. (f \in fd' <=> f \in fd) /\ fref'[f] = fref[f]
          BY <2>1, <2>2, <2>3, <2>4, <2>5, <3>3 DEF TypeOK
        <4>4. QED
          BY <3>1, <4>1, <4>2, <4>3, FenceCountSame
      <3>4. QED
        BY <3>2, <3>3
    <2>7. QED
      BY <2>6, FenceCountsPrime
  <1>10. ASSUME NEW p \in Threads, FenceAllocFails(p)
        PROVE  FenceRefCount'
    <2>1. UNCHANGED <<cur, got, fd, fref>>
      BY <1>10 DEF FenceAllocFails, kgsl_timeline_put, fenceVars, threadVars
    <2>2. QED
      BY <2>1, FenceCountIdle
  <1>11. ASSUME NEW p \in Threads, FenceLock(p)
        PROVE  FenceRefCount'
    <2>1. UNCHANGED <<cur, got, fd, fref>>
      BY <1>11 DEF FenceLock, fenceVars, threadVars
    <2>2. QED
      BY <2>1, FenceCountIdle
  <1>12. ASSUME NEW p \in Threads, kgsl_timeline_add_fence(p)
        PROVE  FenceRefCount'
    <2>1. UNCHANGED <<cur, got, fd, fref>>
      BY <1>12 DEF kgsl_timeline_add_fence, fenceVars, threadVars
    <2>2. QED
      BY <2>1, FenceCountIdle
  <1>13. ASSUME NEW p \in Threads, WaitCollect(p)
        PROVE  FenceRefCount'
    <2>1. /\ UNCHANGED <<fd, fref>>
          /\ \A q \in Threads : cur'[q] = IF q = p THEN None ELSE cur[q]
      BY <1>13 DEF WaitCollect, fenceVars, TypeOK
    <2>2. /\ cur[p] \in Fences /\ cur[p] # None /\ cur[p] \notin Range(got[p])
          /\ With(got, got', Threads, p, cur[p])
      BY <1>13, CollectShape, TimelineAssumption
    <2>3. \A f \in Fences : f # None
      BY TimelineAssumption

    <2>4. ASSUME NEW f \in Fences
          PROVE  FenceCount(f)'
      <3>1. FenceCount(f) /\ ScanUsers(f)' = ScanUsers(f)
        BY FenceCounts, ScanUsersSame
      <3>2. CASE f = cur[p]
        <4>1. Delta(CurUsers(f), CurUsers(f)', p, -1)
          BY <2>1, <2>2, <2>3, <3>2 DEF Delta, CurUsers, With, Without
        <4>2. Delta(GotUsers(f), GotUsers(f)', p, 1)
          BY <2>1, <2>2, <2>3, <3>2 DEF Delta, GotUsers, With, Without
        <4>3. Delta(ScanUsers(f), ScanUsers(f)', p, 0)
          BY <3>1 DEF Delta
        <4>4. (IF f \in fd' THEN 1 ELSE 0) = (IF f \in fd THEN 1 ELSE 0) + (0)
          BY <2>1, <2>2, <2>3, <3>2
        <4>5. fref'[f] = fref[f] + (-1) + (1) + 0 + (0)
          BY <2>1, <2>2, <2>3, <3>2 DEF TypeOK
        <4>6. QED
          BY <3>1, <4>1, <4>2, <4>3, <4>4, <4>5, FenceCountMove
      <3>3. CASE f # cur[p]
        <4>1. CurUsers(f)' = CurUsers(f)
          BY <2>1, <2>2, <2>3, <3>3 DEF CurUsers
        <4>2. GotUsers(f)' = GotUsers(f)
          BY <2>1, <2>2, <2>3, <3>3 DEF GotUsers, With, Without
        <4>3. (f \in fd' <=> f \in fd) /\ fref'[f] = fref[f]
          BY <2>1, <2>2, <2>3, <3>3 DEF TypeOK
        <4>4. QED
          BY <3>1, <4>1, <4>2, <4>3, FenceCountSame
      <3>4. QED
        BY <3>2, <3>3
    <2>5. QED
      BY <2>4, FenceCountsPrime
  <1>14. ASSUME NEW p \in Threads, WaitStart(p)
        PROVE  FenceRefCount'
    <2>1. UNCHANGED <<cur, got, fd, fref>>
      BY <1>14 DEF WaitStart, fenceVars, threadVars
    <2>2. QED
      BY <2>1, FenceCountIdle
  <1>15. ASSUME NEW p \in Threads, WaitReturn(p)
        PROVE  FenceRefCount'
    <2>1. UNCHANGED <<cur, got, fd, fref>>
      BY <1>15 DEF WaitReturn, fenceVars, threadVars
    <2>2. QED
      BY <2>1, FenceCountIdle
  <1>16. ASSUME NEW p \in Threads, WaitPut(p)
        PROVE  FenceRefCount'
    <2>1. CASE got[p] # <<>>
      <3>1. /\ Head(got[p]) \in Fences /\ Head(got[p]) \in Range(got[p])
            /\ Without(got, got', Threads, p, Head(got[p]))
            /\ fref' = [fref EXCEPT ![Head(got[p])] = @ - 1]
        BY <1>16, <2>1, WaitPutShape DEF dma_fence_put
      <3>2. UNCHANGED <<cur, fd>>
        BY <1>16 DEF WaitPut

      <3>3. ASSUME NEW f \in Fences
            PROVE  FenceCount(f)'
        <4>1. FenceCount(f) /\ ScanUsers(f)' = ScanUsers(f)
          BY FenceCounts, ScanUsersSame
        <4>2. CASE f = Head(got[p])
          <5>1. Delta(CurUsers(f), CurUsers(f)', p, 0)
            BY <3>1, <3>2, <4>2 DEF Delta, CurUsers, With, Without
          <5>2. Delta(GotUsers(f), GotUsers(f)', p, -1)
            BY <3>1, <3>2, <4>2 DEF Delta, GotUsers, With, Without
          <5>3. Delta(ScanUsers(f), ScanUsers(f)', p, 0)
            BY <4>1 DEF Delta
          <5>4. (IF f \in fd' THEN 1 ELSE 0) = (IF f \in fd THEN 1 ELSE 0) + (0)
            BY <3>1, <3>2, <4>2
          <5>5. fref'[f] = fref[f] + (0) + (-1) + 0 + (0)
            BY <3>1, <3>2, <4>2 DEF TypeOK
          <5>6. QED
            BY <4>1, <5>1, <5>2, <5>3, <5>4, <5>5, FenceCountMove
        <4>3. CASE f # Head(got[p])
          <5>1. CurUsers(f)' = CurUsers(f)
            BY <3>1, <3>2, <4>3 DEF CurUsers
          <5>2. GotUsers(f)' = GotUsers(f)
            BY <3>1, <3>2, <4>3 DEF GotUsers, With, Without
          <5>3. (f \in fd' <=> f \in fd) /\ fref'[f] = fref[f]
            BY <3>1, <3>2, <4>3 DEF TypeOK
          <5>4. QED
            BY <4>1, <5>1, <5>2, <5>3, FenceCountSame
        <4>4. QED
          BY <4>2, <4>3
      <3>4. QED
        BY <3>3, FenceCountsPrime
    <2>2. CASE got[p] = <<>>
      <3>1. UNCHANGED <<cur, got, fd, fref>>
        BY <1>16, <2>2, WaitPutShape DEF WaitPut
      <3>2. QED
        BY <3>1, FenceCountIdle
    <2>3. QED
      BY <2>1, <2>2
  <1>17. ASSUME NEW p \in Threads, FenceGetInstall(p)
        PROVE  FenceRefCount'
    <2>1. CASE UNCHANGED <<fref, fd>>
      <3>1. UNCHANGED <<cur, got>>
        BY <1>17 DEF FenceGetInstall
      <3>2. QED
        BY <2>1, <3>1, FenceCountIdle
    <2>2. ASSUME fref' = [fref EXCEPT ![cur[p]] = @ + 1], fd' = fd \cup {cur[p]}
          PROVE  FenceRefCount'
      <3>1. UNCHANGED <<cur, got>> /\ pc[p] = "f_done"
        BY <1>17 DEF FenceGetInstall, At
      <3>2. cur[p] \in Fences /\ cur[p] # None
        BY <3>1, ThreadsTimeline, TimelineAssumption DEF AllocPCs
      <3>3. cur[p] \notin fd
        BY <3>1, <3>2 DEF Allocs
      <3>4. ASSUME NEW f \in Fences
            PROVE  FenceCount(f)'
        <4>1. /\ FenceCount(f) /\ ScanUsers(f)' = ScanUsers(f)
              /\ CurUsers(f)' = CurUsers(f) /\ GotUsers(f)' = GotUsers(f)
          BY <3>1, FenceCounts, ScanUsersSame, CurUsersSame, GotUsersSame
        <4>2. CASE f = cur[p]
          <5>1. (IF f \in fd' THEN 1 ELSE 0) = (IF f \in fd THEN 1 ELSE 0) + 1
            BY <2>2, <3>3, <4>2
          <5>2. fref'[f] = fref[f] + 0 + 0 + 0 + 1
            BY <2>2, <4>2 DEF TypeOK
          <5>3. /\ Delta(CurUsers(f), CurUsers(f)', p, 0) /\ Delta(GotUsers(f), GotUsers(f)', p, 0)
                /\ Delta(ScanUsers(f), ScanUsers(f)', p, 0)
            BY <4>1 DEF Delta
          <5>4. QED
            BY <4>1, <5>1, <5>2, <5>3, FenceCountMove
        <4>3. CASE f # cur[p]
          <5>1. (f \in fd' <=> f \in fd) /\ fref'[f] = fref[f]
            BY <2>2, <4>3 DEF TypeOK
          <5>2. QED
            BY <4>1, <5>1, FenceCountSame
        <4>4. QED
          BY <4>2, <4>3
      <3>5. QED
        BY <3>4, FenceCountsPrime
    <2>3. QED
      BY <1>17, <2>1, <2>2 DEF FenceGetInstall
  <1>18. ASSUME NEW p \in Threads, kgsl_ioctl_timeline_fence_get(p)
        PROVE  FenceRefCount'
    <2>1. /\ UNCHANGED <<fd, got>> /\ fref' = [fref EXCEPT ![cur[p]] = @ - 1]
          /\ \A q \in Threads : cur'[q] = IF q = p THEN None ELSE cur[q]
      BY <1>18 DEF kgsl_ioctl_timeline_fence_get, dma_fence_put, TypeOK
    <2>2. /\ cur[p] \in Fences
      BY <1>18, ThreadsTimeline DEF kgsl_ioctl_timeline_fence_get, At, AllocPCs
    <2>3. \A f \in Fences : f # None
      BY TimelineAssumption

    <2>4. ASSUME NEW f \in Fences
          PROVE  FenceCount(f)'
      <3>1. FenceCount(f) /\ ScanUsers(f)' = ScanUsers(f)
        BY FenceCounts, ScanUsersSame
      <3>2. CASE f = cur[p]
        <4>1. Delta(CurUsers(f), CurUsers(f)', p, -1)
          BY <2>1, <2>2, <2>3, <3>2 DEF Delta, CurUsers, With, Without
        <4>2. Delta(GotUsers(f), GotUsers(f)', p, 0)
          BY <2>1, <2>2, <2>3, <3>2 DEF Delta, GotUsers, With, Without
        <4>3. Delta(ScanUsers(f), ScanUsers(f)', p, 0)
          BY <3>1 DEF Delta
        <4>4. (IF f \in fd' THEN 1 ELSE 0) = (IF f \in fd THEN 1 ELSE 0) + (0)
          BY <2>1, <2>2, <2>3, <3>2
        <4>5. fref'[f] = fref[f] + (-1) + (0) + 0 + (0)
          BY <2>1, <2>2, <2>3, <3>2 DEF TypeOK
        <4>6. QED
          BY <3>1, <4>1, <4>2, <4>3, <4>4, <4>5, FenceCountMove
      <3>3. CASE f # cur[p]
        <4>1. CurUsers(f)' = CurUsers(f)
          BY <2>1, <2>2, <2>3, <3>3 DEF CurUsers
        <4>2. GotUsers(f)' = GotUsers(f)
          BY <2>1, <2>2, <2>3, <3>3 DEF GotUsers, With, Without
        <4>3. (f \in fd' <=> f \in fd) /\ fref'[f] = fref[f]
          BY <2>1, <2>2, <2>3, <3>3 DEF TypeOK
        <4>4. QED
          BY <3>1, <4>1, <4>2, <4>3, FenceCountSame
      <3>4. QED
        BY <3>2, <3>3
    <2>5. QED
      BY <2>4, FenceCountsPrime
  <1>19. ASSUME NEW p \in Threads, timeline_fence_release(p)
        PROVE  FenceRefCount'
    <2>1. UNCHANGED <<cur, got, fd, fref>>
      BY <1>19
         DEF timeline_fence_release, kgsl_timeline_put, fenceVars, threadVars
    <2>2. QED
      BY <2>1, FenceCountIdle
  <1>20. ASSUME NEW p \in Threads, DestroyScan(p)
        PROVE  FenceRefCount'
    BY <1>20, PinCounts DEF PinStep
  <1>21. ASSUME NEW p \in Threads, DestroyScanEnd(p)
        PROVE  FenceRefCount'
    <2>1. UNCHANGED <<cur, got, fd, fref>>
      BY <1>21 DEF DestroyScanEnd, fenceVars, threadVars
    <2>2. QED
      BY <2>1, FenceCountIdle
  <1>22. ASSUME NEW p \in Threads, DestroyLock(p)
        PROVE  FenceRefCount'
    <2>1. UNCHANGED <<cur, got, fd, fref>>
      BY <1>22 DEF DestroyLock, fenceVars, threadVars
    <2>2. QED
      BY <2>1, FenceCountIdle
  <1>23. ASSUME NEW p \in Threads, DestroyFence(p)
        PROVE  FenceRefCount'
    BY <1>23, PinCounts DEF PinStep
  <1>24. ASSUME NEW p \in Threads, kgsl_timeline_alloc(p)
        PROVE  FenceRefCount'
    <2>1. UNCHANGED <<cur, got, fd, fref>>
      BY <1>24 DEF kgsl_timeline_alloc, FreeTimelines, fenceVars, threadVars
    <2>2. QED
      BY <2>1, FenceCountIdle
  <1>25. ASSUME NEW p \in Threads, kgsl_ioctl_timeline_signal(p)
        PROVE  FenceRefCount'
    <2>1. UNCHANGED <<cur, got, fd, fref>>
      BY <1>25
         DEF kgsl_ioctl_timeline_signal, kgsl_timeline_by_id, fenceVars,
             threadVars
    <2>2. QED
      BY <2>1, FenceCountIdle
  <1>26. ASSUME NEW p \in Threads, FenceLookup(p)
        PROVE  FenceRefCount'
    <2>1. UNCHANGED <<cur, got, fd, fref>>
      BY <1>26 DEF FenceLookup, kgsl_timeline_by_id, fenceVars, threadVars
    <2>2. QED
      BY <2>1, FenceCountIdle
  <1>27. ASSUME NEW p \in Threads, WaitError(p)
        PROVE  FenceRefCount'
    <2>1. UNCHANGED <<cur, got, fd, fref>>
      BY <1>27 DEF WaitError, fenceVars, threadVars
    <2>2. QED
      BY <2>1, FenceCountIdle
  <1>28. ASSUME NEW p \in Threads, WaitTimeout(p)
        PROVE  FenceRefCount'
    <2>1. UNCHANGED <<cur, got, fd, fref>>
      BY <1>28 DEF WaitTimeout, fenceVars, threadVars
    <2>2. QED
      BY <2>1, FenceCountIdle
  <1>29. ASSUME NEW p \in Threads, CloseFd(p)
        PROVE  FenceRefCount'
    <2>1. PICK g \in fd : fd' = fd \ {g} /\ fref' = [fref EXCEPT ![g] = @ - 1]
      BY <1>29 DEF CloseFd, dma_fence_put
    <2>2. UNCHANGED <<cur, got>>
      BY <1>29 DEF CloseFd
    <2>3. ASSUME NEW f \in Fences
          PROVE  FenceCount(f)'
      <3>1. /\ FenceCount(f) /\ ScanUsers(f)' = ScanUsers(f)
            /\ CurUsers(f)' = CurUsers(f) /\ GotUsers(f)' = GotUsers(f)
        BY <2>2, FenceCounts, ScanUsersSame, CurUsersSame, GotUsersSame
      <3>2. CASE f = g
        <4>1. (IF f \in fd' THEN 1 ELSE 0) = (IF f \in fd THEN 1 ELSE 0) + (-1)
          BY <2>1, <3>2
        <4>2. fref'[f] = fref[f] + 0 + 0 + 0 + (-1)
          BY <2>1, <3>2 DEF TypeOK
        <4>3. /\ Delta(CurUsers(f), CurUsers(f)', p, 0) /\ Delta(GotUsers(f), GotUsers(f)', p, 0)
              /\ Delta(ScanUsers(f), ScanUsers(f)', p, 0)
          BY <3>1 DEF Delta
        <4>4. QED
          BY <3>1, <4>1, <4>2, <4>3, FenceCountMove
      <3>3. CASE f # g
        <4>1. (f \in fd' <=> f \in fd) /\ fref'[f] = fref[f]
          BY <2>1, <3>3 DEF TypeOK
        <4>2. QED
          BY <3>1, <4>1, FenceCountSame
      <3>4. QED
        BY <3>2, <3>3
    <2>4. QED
      BY <2>3, FenceCountsPrime
  <1>30. ASSUME NEW p \in Threads, kgsl_ioctl_timeline_query(p)
        PROVE  FenceRefCount'
    <2>1. UNCHANGED <<cur, got, fd, fref>>
      BY <1>30
         DEF kgsl_ioctl_timeline_query, kgsl_timeline_by_id, fenceVars,
             threadVars
    <2>2. QED
      BY <2>1, FenceCountIdle
  <1>31. ASSUME NEW p \in Threads, kgsl_ioctl_timeline_destroy(p)
        PROVE  FenceRefCount'
    <2>1. UNCHANGED <<cur, got, fd, fref>>
      BY <1>31 DEF kgsl_ioctl_timeline_destroy, fenceVars, threadVars
    <2>2. QED
      BY <2>1, FenceCountIdle
  <1>32. ASSUME NEW f \in Fences, Poll(f)
        PROVE  FenceRefCount'
    <2>1. UNCHANGED <<cur, got, fd, fref>>
      BY <1>32 DEF Poll, fenceVars, threadVars
    <2>2. QED
      BY <2>1, FenceCountIdle
  <1>33. CASE UNCHANGED vars
    <2>1. UNCHANGED <<cur, got, fd, fref>>
      BY <1>33 DEF vars, fenceVars, threadVars
    <2>2. QED
      BY <2>1, FenceCountIdle
  <1>34. QED
    BY <1>1, <1>2, <1>3, <1>4, <1>5, <1>6, <1>7, <1>8, <1>9, <1>10, <1>11,
       <1>12, <1>13, <1>14, <1>15, <1>16, <1>17, <1>18, <1>19, <1>20, <1>21,
       <1>22, <1>23, <1>24, <1>25, <1>26, <1>27, <1>28, <1>29, <1>30, <1>31,
       <1>32, <1>33
       DEF Next, Step, Choose


\* Every step keeps the counts of the fences.
LEMMA FenceRefCountStep ==
    ASSUME TypeOK, Control, Locks, Lists, Allocs, Releases, Users, Empties,
           FenceRefCount, [Next]_vars
    PROVE  FenceRefCount'
  BY ScanRefsSame, PinCounts, OtherCounts

\* The counts of the timelines, timeline by timeline.
LEMMA TimelineCounts == TimelineRefCount <=> \A t \in Timelines : TimelineCount(t)
  BY DEF TimelineRefCount, TimelineCount

\* The same in the next state.
LEMMA TimelineCountsPrime == TimelineRefCount' <=> \A t \in Timelines : TimelineCount(t)'
  BY DEF TimelineRefCount, TimelineCount

\* The count stays exact when it follows its users.
LEMMA TimelineCountMove ==
    ASSUME NEW t \in Timelines, TimelineCount(t), NEW x, NEW y, NEW z,
           NEW a, NEW b, NEW c,
           Delta(IdrRefs(t), IdrRefs(t)', x, a),
           Delta(ThreadRefs(t), ThreadRefs(t)', y, b),
           Delta(FenceRefs(t), FenceRefs(t)', z, c),
           ref'[t] = ref[t] + a + b + c
    PROVE  TimelineCount(t)'
  <1>1. /\ a \in Int /\ Cardinality(IdrRefs(t)) \in Nat
        /\ Cardinality(IdrRefs(t)') = Cardinality(IdrRefs(t)) + a
    BY TimelineUsersFinite, DeltaSize
  <1>2. /\ b \in Int /\ Cardinality(ThreadRefs(t)) \in Nat
        /\ Cardinality(ThreadRefs(t)') = Cardinality(ThreadRefs(t)) + b
    BY TimelineUsersFinite, DeltaSize
  <1>3. /\ c \in Int /\ Cardinality(FenceRefs(t)) \in Nat
        /\ Cardinality(FenceRefs(t)') = Cardinality(FenceRefs(t)) + c
    BY TimelineUsersFinite, DeltaSize
  <1>4. QED
    BY <1>1, <1>2, <1>3 DEF TimelineCount

\* A step that changes no reference to t.
LEMMA TimelineCountSame ==
    ASSUME NEW t \in Timelines, TimelineCount(t), ref'[t] = ref[t],
           \A id \in Ids : idr'[id] = t <=> idr[id] = t,
           \A p \in Threads : tl'[p] = t <=> tl[p] = t,
           \A f \in Fences : ftl'[f] = t <=> ftl[f] = t
    PROVE  TimelineCount(t)'
  <1>1. /\ IdrRefs(t)' = IdrRefs(t) /\ ThreadRefs(t)' = ThreadRefs(t)
        /\ FenceRefs(t)' = FenceRefs(t)
    BY DEF IdrRefs, ThreadRefs, FenceRefs
  <1>2. QED
    BY <1>1 DEF TimelineCount

\* A step that leaves every reference alone.
LEMMA TimelineCountIdle ==
    ASSUME TimelineRefCount, UNCHANGED <<ref, idr, tl, ftl>>
    PROVE  TimelineRefCount'
  BY DEF TimelineRefCount, IdrRefs, ThreadRefs, FenceRefs

\* A lookup by p takes a reference on u.
LEMMA TimelineCountGet ==
    ASSUME TypeOK, TimelineRefCount, NEW p \in Threads, tl[p] = None, NEW u \in Timelines,
           UNCHANGED <<idr, ftl>>, ref' = [ref EXCEPT ![u] = @ + 1],
           tl' = [tl EXCEPT ![p] = u]
    PROVE  TimelineRefCount'
  <1>1. ASSUME NEW t \in Timelines
        PROVE  TimelineCount(t)'
    <2>1. TimelineCount(t) /\ t # None
      BY TimelineCounts, TimelineAssumption
    <2>2. CASE t # u
      <3>1. ref'[t] = ref[t] /\ \A q \in Threads : tl'[q] = t <=> tl[q] = t
        BY <2>1, <2>2 DEF TypeOK
      <3>2. QED
        BY <2>1, <3>1, TimelineCountSame
    <2>3. CASE t = u
      <3>1. Delta(IdrRefs(t), IdrRefs(t)', p, 0) /\ Delta(FenceRefs(t), FenceRefs(t)', p, 0)
        BY DEF Delta, IdrRefs, FenceRefs
      <3>2. Delta(ThreadRefs(t), ThreadRefs(t)', p, 1)
        BY <2>1, <2>3 DEF Delta, ThreadRefs, TypeOK
      <3>3. ref'[t] = ref[t] + 0 + 1 + 0
        BY <2>3 DEF TypeOK
      <3>4. QED
        BY <2>1, <3>1, <3>2, <3>3, TimelineCountMove
    <2>4. QED
      BY <2>2, <2>3
  <1>2. QED
    BY <1>1, TimelineCountsPrime

\* The put of p at the end of its ioctl.
LEMMA TimelineCountPut ==
    ASSUME TypeOK, TimelineRefCount, NEW p \in Threads, tl[p] \in Timelines,
           UNCHANGED <<idr, ftl>>, kgsl_timeline_put(tl[p]), tl' = [tl EXCEPT ![p] = None]
    PROVE  TimelineRefCount'
  <1>1. ASSUME NEW t \in Timelines
        PROVE  TimelineCount(t)'
    <2>1. TimelineCount(t) /\ t # None
      BY TimelineCounts, TimelineAssumption
    <2>2. CASE t # tl[p]
      <3>1. ref'[t] = ref[t] /\ \A q \in Threads : tl'[q] = t <=> tl[q] = t
        BY <2>1, <2>2 DEF TypeOK, kgsl_timeline_put
      <3>2. QED
        BY <2>1, <3>1, TimelineCountSame
    <2>3. CASE t = tl[p]
      <3>1. Delta(IdrRefs(t), IdrRefs(t)', p, 0) /\ Delta(FenceRefs(t), FenceRefs(t)', p, 0)
        BY DEF Delta, IdrRefs, FenceRefs
      <3>2. Delta(ThreadRefs(t), ThreadRefs(t)', p, -1)
        BY <2>1, <2>3 DEF Delta, ThreadRefs, TypeOK
      <3>3. ref'[t] = ref[t] + 0 + (-1) + 0
        BY <2>3 DEF TypeOK, kgsl_timeline_put
      <3>4. QED
        BY <2>1, <3>1, <3>2, <3>3, TimelineCountMove
    <2>4. QED
      BY <2>2, <2>3
  <1>2. QED
    BY <1>1, TimelineCountsPrime

\* Every step keeps the counts of the timelines.
LEMMA TimelineRefCountStep ==
    ASSUME TypeOK, Control, Locks, Lists, Allocs, Releases, Users, Empties,
           IdsKept, TimelineRefCount, [Next]_vars
    PROVE  TimelineRefCount'
  <1>1. ASSUME NEW p \in Threads, kgsl_ioctl_timeline_create(p)
        PROVE  TimelineRefCount'
    <2>1. /\ UNCHANGED <<ref, ftl>> /\ pc[p] = "commit"
          /\ idr' = [idr EXCEPT ![tid[tl[p]]] = tl[p]] /\ tl' = [tl EXCEPT ![p] = None]
      BY <1>1 DEF kgsl_ioctl_timeline_create, At, tlVars, fenceVars
    <2>2. tl[p] \in Timelines
      BY <2>1, ThreadsTimeline DEF FreePCs
    <2>3. tid[tl[p]] \in Ids /\ idr[tid[tl[p]]] = Reserved
      BY <2>1 DEF IdsKept, IdNamesOneTimeline
    <2>4. ASSUME NEW t \in Timelines
          PROVE  TimelineCount(t)'
      <3>1. TimelineCount(t) /\ t # None /\ t # Reserved
        BY TimelineCounts, TimelineAssumption
      <3>2. CASE t # tl[p]
        <4>1. /\ ref'[t] = ref[t]
              /\ \A id \in Ids : idr'[id] = t <=> idr[id] = t
              /\ \A q \in Threads : tl'[q] = t <=> tl[q] = t
              /\ \A f \in Fences : ftl'[f] = t <=> ftl[f] = t
          BY <2>1, <2>2, <2>3, <3>1, <3>2 DEF TypeOK
        <4>2. QED
          BY <3>1, <4>1, TimelineCountSame
      <3>3. CASE t = tl[p]
        <4>1. Delta(IdrRefs(t), IdrRefs(t)', tid[tl[p]], 1)
          BY <2>1, <2>2, <2>3, <3>1, <3>3 DEF Delta, IdrRefs, TypeOK
        <4>2. Delta(ThreadRefs(t), ThreadRefs(t)', p, -1)
          BY <2>1, <2>2, <2>3, <3>1, <3>3 DEF Delta, ThreadRefs, TypeOK
        <4>3. Delta(FenceRefs(t), FenceRefs(t)', p, 0)
          BY <2>1, <2>2, <2>3, <3>1, <3>3 DEF Delta, FenceRefs, TypeOK
        <4>4. ref'[t] = ref[t] + (1) + (-1) + (0)
          BY <2>1, <2>2, <2>3, <3>3 DEF TypeOK
        <4>5. QED
          BY <3>1, <4>1, <4>2, <4>3, <4>4, TimelineCountMove
      <3>4. QED
        BY <3>2, <3>3
    <2>5. QED
      BY <2>4, TimelineCountsPrime
  <1>2. ASSUME NEW p \in Threads, SignalLock(p)
        PROVE  TimelineRefCount'
    <2>1. UNCHANGED <<ref, idr, tl, ftl>>
      BY <1>2 DEF SignalLock, devVars, tlVars, fenceVars, threadVars
    <2>2. QED
      BY <2>1, TimelineCountIdle
  <1>3. ASSUME NEW p \in Threads, ScanLock(p)
        PROVE  TimelineRefCount'
    <2>1. UNCHANGED <<ref, idr, tl, ftl>>
      BY <1>3 DEF ScanLock, devVars, tlVars, fenceVars, threadVars
    <2>2. QED
      BY <2>1, TimelineCountIdle
  <1>4. ASSUME NEW p \in Threads, SignalScan(p)
        PROVE  TimelineRefCount'
    <2>1. UNCHANGED <<ref, idr, tl, ftl>>
      BY <1>4 DEF SignalScan, devVars, tlVars, fenceVars, threadVars
    <2>2. QED
      BY <2>1, TimelineCountIdle
  <1>5. ASSUME NEW p \in Threads, SignalScanEnd(p)
        PROVE  TimelineRefCount'
    <2>1. UNCHANGED <<ref, idr, tl, ftl>>
      BY <1>5 DEF SignalScanEnd, devVars, tlVars, fenceVars, threadVars
    <2>2. QED
      BY <2>1, TimelineCountIdle
  <1>6. ASSUME NEW p \in Threads, SignalFence(p)
        PROVE  TimelineRefCount'
    <2>1. UNCHANGED <<ref, idr, tl, ftl>>
      BY <1>6
         DEF SignalFence, dma_fence_put, devVars, tlVars, fenceVars,
             threadVars
    <2>2. QED
      BY <2>1, TimelineCountIdle
  <1>7. ASSUME NEW p \in Threads, SignalUnlock(p)
        PROVE  TimelineRefCount'
    <2>1. UNCHANGED <<ref, idr, tl, ftl>>
      BY <1>7 DEF SignalUnlock, devVars, tlVars, fenceVars, threadVars
    <2>2. QED
      BY <2>1, TimelineCountIdle
  <1>8. ASSUME NEW p \in Threads, PutTimeline(p)
        PROVE  TimelineRefCount'
    <2>1. UNCHANGED <<idr, ftl>> /\ kgsl_timeline_put(tl[p]) /\ tl' = [tl EXCEPT ![p] = None]
      BY <1>8 DEF PutTimeline, devVars, fenceVars
    <2>2. tl[p] \in Timelines
      BY <1>8, ThreadsTimeline DEF PutTimeline, At, FreePCs
    <2>3. QED
      BY <2>1, <2>2, TimelineCountPut
  <1>9. ASSUME NEW p \in Threads, kgsl_timeline_fence_alloc(p)
        PROVE  TimelineRefCount'
    <2>1. PICK g \in Fences : ftl[g] = None /\ ftl' = [ftl EXCEPT ![g] = tl[p]]
      BY <1>9 DEF kgsl_timeline_fence_alloc, FreeFences
    <2>2. UNCHANGED <<idr, tl>> /\ ref' = [ref EXCEPT ![tl[p]] = @ + 1]
      BY <1>9 DEF kgsl_timeline_fence_alloc, devVars
    <2>3. tl[p] \in Timelines
      BY <1>9, ThreadsTimeline DEF kgsl_timeline_fence_alloc, At, FreePCs
    <2>4. ASSUME NEW t \in Timelines
          PROVE  TimelineCount(t)'
      <3>1. TimelineCount(t) /\ t # None /\ t # Reserved
        BY TimelineCounts, TimelineAssumption
      <3>2. CASE t # tl[p]
        <4>1. /\ ref'[t] = ref[t]
              /\ \A id \in Ids : idr'[id] = t <=> idr[id] = t
              /\ \A q \in Threads : tl'[q] = t <=> tl[q] = t
              /\ \A f \in Fences : ftl'[f] = t <=> ftl[f] = t
          BY <2>1, <2>2, <2>3, <3>1, <3>2 DEF TypeOK
        <4>2. QED
          BY <3>1, <4>1, TimelineCountSame
      <3>3. CASE t = tl[p]
        <4>1. Delta(IdrRefs(t), IdrRefs(t)', p, 0)
          BY <2>1, <2>2, <2>3, <3>1, <3>3 DEF Delta, IdrRefs, TypeOK
        <4>2. Delta(ThreadRefs(t), ThreadRefs(t)', p, 0)
          BY <2>1, <2>2, <2>3, <3>1, <3>3 DEF Delta, ThreadRefs, TypeOK
        <4>3. Delta(FenceRefs(t), FenceRefs(t)', g, 1)
          BY <2>1, <2>2, <2>3, <3>1, <3>3 DEF Delta, FenceRefs, TypeOK
        <4>4. ref'[t] = ref[t] + (0) + (0) + (1)
          BY <2>1, <2>2, <2>3, <3>3 DEF TypeOK
        <4>5. QED
          BY <3>1, <4>1, <4>2, <4>3, <4>4, TimelineCountMove
      <3>4. QED
        BY <3>2, <3>3
    <2>5. QED
      BY <2>4, TimelineCountsPrime
  <1>10. ASSUME NEW p \in Threads, FenceAllocFails(p)
        PROVE  TimelineRefCount'
    <2>1. UNCHANGED <<idr, ftl>>
      BY <1>10 DEF FenceAllocFails, devVars, fenceVars
    <2>2. tl[p] \in Timelines
      BY <1>10, ThreadsTimeline DEF FenceAllocFails, At, FreePCs
    <2>3. CASE UNCHANGED <<ref, tl>>
      BY <2>1, <2>3, TimelineCountIdle
    <2>4. CASE kgsl_timeline_put(tl[p]) /\ tl' = [tl EXCEPT ![p] = None]
      BY <2>1, <2>2, <2>4, TimelineCountPut
    <2>5. QED
      BY <1>10, <2>3, <2>4 DEF FenceAllocFails
  <1>11. ASSUME NEW p \in Threads, FenceLock(p)
        PROVE  TimelineRefCount'
    <2>1. UNCHANGED <<ref, idr, tl, ftl>>
      BY <1>11 DEF FenceLock, devVars, tlVars, fenceVars, threadVars
    <2>2. QED
      BY <2>1, TimelineCountIdle
  <1>12. ASSUME NEW p \in Threads, kgsl_timeline_add_fence(p)
        PROVE  TimelineRefCount'
    <2>1. UNCHANGED <<ref, idr, tl, ftl>>
      BY <1>12
         DEF kgsl_timeline_add_fence, devVars, tlVars, fenceVars, threadVars
    <2>2. QED
      BY <2>1, TimelineCountIdle
  <1>13. ASSUME NEW p \in Threads, WaitCollect(p)
        PROVE  TimelineRefCount'
    <2>1. UNCHANGED <<idr, ftl>> /\ kgsl_timeline_put(tl[p]) /\ tl' = [tl EXCEPT ![p] = None]
      BY <1>13 DEF WaitCollect, devVars, fenceVars
    <2>2. tl[p] \in Timelines
      BY <1>13, ThreadsTimeline DEF WaitCollect, At, FreePCs
    <2>3. QED
      BY <2>1, <2>2, TimelineCountPut
  <1>14. ASSUME NEW p \in Threads, WaitStart(p)
        PROVE  TimelineRefCount'
    <2>1. UNCHANGED <<ref, idr, tl, ftl>>
      BY <1>14 DEF WaitStart, devVars, tlVars, fenceVars, threadVars
    <2>2. QED
      BY <2>1, TimelineCountIdle
  <1>15. ASSUME NEW p \in Threads, WaitReturn(p)
        PROVE  TimelineRefCount'
    <2>1. UNCHANGED <<ref, idr, tl, ftl>>
      BY <1>15 DEF WaitReturn, devVars, tlVars, fenceVars, threadVars
    <2>2. QED
      BY <2>1, TimelineCountIdle
  <1>16. ASSUME NEW p \in Threads, WaitPut(p)
        PROVE  TimelineRefCount'
    <2>1. UNCHANGED <<ref, idr, tl, ftl>>
      BY <1>16
         DEF WaitPut, dma_fence_put, devVars, tlVars, fenceVars, threadVars
    <2>2. QED
      BY <2>1, TimelineCountIdle
  <1>17. ASSUME NEW p \in Threads, FenceGetInstall(p)
        PROVE  TimelineRefCount'
    <2>1. UNCHANGED <<ref, idr, tl, ftl>>
      BY <1>17 DEF FenceGetInstall, devVars, tlVars, fenceVars, threadVars
    <2>2. QED
      BY <2>1, TimelineCountIdle
  <1>18. ASSUME NEW p \in Threads, kgsl_ioctl_timeline_fence_get(p)
        PROVE  TimelineRefCount'
    <2>1. UNCHANGED <<ref, idr, tl, ftl>>
      BY <1>18
         DEF kgsl_ioctl_timeline_fence_get, dma_fence_put, devVars, tlVars,
             fenceVars, threadVars
    <2>2. QED
      BY <2>1, TimelineCountIdle
  <1>19. ASSUME NEW p \in Threads, timeline_fence_release(p)
        PROVE  TimelineRefCount'
    <2>1. rel[p] \in Fences /\ ftl[rel[p]] \in Timelines
      BY <1>19, ReleaseShape
    <2>2. UNCHANGED <<idr, tl>> /\ ftl' = [ftl EXCEPT ![rel[p]] = None]
      BY <1>19 DEF timeline_fence_release, devVars
    <2>3. ref' = [ref EXCEPT ![ftl[rel[p]]] = @ - 1]
      BY <1>19 DEF timeline_fence_release, kgsl_timeline_put
    <2>4. ASSUME NEW t \in Timelines
          PROVE  TimelineCount(t)'
      <3>1. TimelineCount(t) /\ t # None /\ t # Reserved
        BY TimelineCounts, TimelineAssumption
      <3>2. CASE t # ftl[rel[p]]
        <4>1. /\ ref'[t] = ref[t]
              /\ \A id \in Ids : idr'[id] = t <=> idr[id] = t
              /\ \A q \in Threads : tl'[q] = t <=> tl[q] = t
              /\ \A f \in Fences : ftl'[f] = t <=> ftl[f] = t
          BY <2>1, <2>2, <2>3, <3>1, <3>2 DEF TypeOK
        <4>2. QED
          BY <3>1, <4>1, TimelineCountSame
      <3>3. CASE t = ftl[rel[p]]
        <4>1. Delta(IdrRefs(t), IdrRefs(t)', p, 0)
          BY <2>1, <2>2, <2>3, <3>1, <3>3 DEF Delta, IdrRefs, TypeOK
        <4>2. Delta(ThreadRefs(t), ThreadRefs(t)', p, 0)
          BY <2>1, <2>2, <2>3, <3>1, <3>3 DEF Delta, ThreadRefs, TypeOK
        <4>3. Delta(FenceRefs(t), FenceRefs(t)', rel[p], -1)
          BY <2>1, <2>2, <2>3, <3>1, <3>3 DEF Delta, FenceRefs, TypeOK
        <4>4. ref'[t] = ref[t] + (0) + (0) + (-1)
          BY <2>1, <2>2, <2>3, <3>3 DEF TypeOK
        <4>5. QED
          BY <3>1, <4>1, <4>2, <4>3, <4>4, TimelineCountMove
      <3>4. QED
        BY <3>2, <3>3
    <2>5. QED
      BY <2>4, TimelineCountsPrime
  <1>20. ASSUME NEW p \in Threads, DestroyScan(p)
        PROVE  TimelineRefCount'
    <2>1. UNCHANGED <<ref, idr, tl, ftl>>
      BY <1>20 DEF DestroyScan, devVars, tlVars, fenceVars, threadVars
    <2>2. QED
      BY <2>1, TimelineCountIdle
  <1>21. ASSUME NEW p \in Threads, DestroyScanEnd(p)
        PROVE  TimelineRefCount'
    <2>1. UNCHANGED <<ref, idr, tl, ftl>>
      BY <1>21 DEF DestroyScanEnd, devVars, tlVars, fenceVars, threadVars
    <2>2. QED
      BY <2>1, TimelineCountIdle
  <1>22. ASSUME NEW p \in Threads, DestroyLock(p)
        PROVE  TimelineRefCount'
    <2>1. UNCHANGED <<ref, idr, tl, ftl>>
      BY <1>22 DEF DestroyLock, devVars, tlVars, fenceVars, threadVars
    <2>2. QED
      BY <2>1, TimelineCountIdle
  <1>23. ASSUME NEW p \in Threads, DestroyFence(p)
        PROVE  TimelineRefCount'
    <2>1. UNCHANGED <<ref, idr, tl, ftl>>
      BY <1>23
         DEF DestroyFence, dma_fence_put, devVars, tlVars, fenceVars,
             threadVars
    <2>2. QED
      BY <2>1, TimelineCountIdle
  <1>24. ASSUME NEW p \in Threads, kgsl_timeline_alloc(p)
        PROVE  TimelineRefCount'
    <2>1. PICK u \in FreeTimelines, i \in Ids :
            /\ idr[i] = None /\ idr' = [idr EXCEPT ![i] = Reserved]
            /\ ref' = [ref EXCEPT ![u] = 1] /\ tl' = [tl EXCEPT ![p] = u]
      BY <1>24 DEF kgsl_timeline_alloc
    <2>2. UNCHANGED ftl /\ tl[p] = None
      BY <1>24 DEF kgsl_timeline_alloc, At, fenceVars, Control, FreePCs
    <2>3. u \in Timelines /\ ref[u] = 0
      BY DEF FreeTimelines
    <2>4. ASSUME NEW t \in Timelines
          PROVE  TimelineCount(t)'
      <3>1. TimelineCount(t) /\ t # None /\ t # Reserved
        BY TimelineCounts, TimelineAssumption
      <3>2. CASE t # u
        <4>1. /\ ref'[t] = ref[t]
              /\ \A id \in Ids : idr'[id] = t <=> idr[id] = t
              /\ \A q \in Threads : tl'[q] = t <=> tl[q] = t
              /\ \A f \in Fences : ftl'[f] = t <=> ftl[f] = t
          BY <2>1, <2>2, <2>3, <3>1, <3>2 DEF TypeOK
        <4>2. QED
          BY <3>1, <4>1, TimelineCountSame
      <3>3. CASE t = u
        <4>1. Delta(IdrRefs(t), IdrRefs(t)', i, 0)
          BY <2>1, <2>2, <2>3, <3>1, <3>3 DEF Delta, IdrRefs, TypeOK
        <4>2. Delta(ThreadRefs(t), ThreadRefs(t)', p, 1)
          BY <2>1, <2>2, <2>3, <3>1, <3>3 DEF Delta, ThreadRefs, TypeOK
        <4>3. Delta(FenceRefs(t), FenceRefs(t)', p, 0)
          BY <2>1, <2>2, <2>3, <3>1, <3>3 DEF Delta, FenceRefs, TypeOK
        <4>4. ref'[t] = ref[t] + (0) + (1) + (0)
          BY <2>1, <2>2, <2>3, <3>3 DEF TypeOK
        <4>5. QED
          BY <3>1, <4>1, <4>2, <4>3, <4>4, TimelineCountMove
      <3>4. QED
        BY <3>2, <3>3
    <2>5. QED
      BY <2>4, TimelineCountsPrime
  <1>25. ASSUME NEW p \in Threads, kgsl_ioctl_timeline_signal(p)
        PROVE  TimelineRefCount'
    <2>1. PICK id \in Ids : kgsl_timeline_by_id(p, id)
      BY <1>25 DEF kgsl_ioctl_timeline_signal
    <2>2. UNCHANGED <<idr, ftl>> /\ tl[p] = None
      BY <1>25
         DEF kgsl_ioctl_timeline_signal, At, devVars, fenceVars, Control,
             FreePCs
    <2>3. QED
      BY <2>1, <2>2, TimelineCountGet DEF kgsl_timeline_by_id
  <1>26. ASSUME NEW p \in Threads, FenceLookup(p)
        PROVE  TimelineRefCount'
    <2>1. PICK id \in Ids : kgsl_timeline_by_id(p, id)
      BY <1>26 DEF FenceLookup
    <2>2. UNCHANGED <<idr, ftl>> /\ tl[p] = None
      BY <1>26 DEF FenceLookup, At, devVars, fenceVars, Control, FreePCs
    <2>3. QED
      BY <2>1, <2>2, TimelineCountGet DEF kgsl_timeline_by_id
  <1>27. ASSUME NEW p \in Threads, WaitError(p)
        PROVE  TimelineRefCount'
    <2>1. UNCHANGED <<ref, idr, tl, ftl>>
      BY <1>27 DEF WaitError, devVars, tlVars, fenceVars, threadVars
    <2>2. QED
      BY <2>1, TimelineCountIdle
  <1>28. ASSUME NEW p \in Threads, WaitTimeout(p)
        PROVE  TimelineRefCount'
    <2>1. UNCHANGED <<ref, idr, tl, ftl>>
      BY <1>28 DEF WaitTimeout, devVars, tlVars, fenceVars, threadVars
    <2>2. QED
      BY <2>1, TimelineCountIdle
  <1>29. ASSUME NEW p \in Threads, CloseFd(p)
        PROVE  TimelineRefCount'
    <2>1. UNCHANGED <<ref, idr, tl, ftl>>
      BY <1>29
         DEF CloseFd, dma_fence_put, devVars, tlVars, fenceVars, threadVars
    <2>2. QED
      BY <2>1, TimelineCountIdle
  <1>30. ASSUME NEW p \in Threads, kgsl_ioctl_timeline_query(p)
        PROVE  TimelineRefCount'
    <2>1. PICK id \in Ids : kgsl_timeline_by_id(p, id)
      BY <1>30 DEF kgsl_ioctl_timeline_query
    <2>2. UNCHANGED <<idr, ftl>> /\ tl[p] = None
      BY <1>30
         DEF kgsl_ioctl_timeline_query, At, devVars, fenceVars, Control,
             FreePCs
    <2>3. QED
      BY <2>1, <2>2, TimelineCountGet DEF kgsl_timeline_by_id
  <1>31. ASSUME NEW p \in Threads, kgsl_ioctl_timeline_destroy(p)
        PROVE  TimelineRefCount'
    <2>1. PICK i \in Ids :
            /\ idr[i] \in Timelines /\ idr' = [idr EXCEPT ![i] = None]
            /\ tl' = [tl EXCEPT ![p] = idr[i]]
      BY <1>31 DEF kgsl_ioctl_timeline_destroy
    <2>2. UNCHANGED <<ref, ftl>> /\ tl[p] = None
      BY <1>31
         DEF kgsl_ioctl_timeline_destroy, At, tlVars, fenceVars, Control,
             FreePCs
    <2>3. ASSUME NEW t \in Timelines
          PROVE  TimelineCount(t)'
      <3>1. TimelineCount(t) /\ t # None /\ t # Reserved
        BY TimelineCounts, TimelineAssumption
      <3>2. CASE t # idr[i]
        <4>1. /\ ref'[t] = ref[t]
              /\ \A id \in Ids : idr'[id] = t <=> idr[id] = t
              /\ \A q \in Threads : tl'[q] = t <=> tl[q] = t
              /\ \A f \in Fences : ftl'[f] = t <=> ftl[f] = t
          BY <2>1, <2>2, <3>1, <3>2 DEF TypeOK
        <4>2. QED
          BY <3>1, <4>1, TimelineCountSame
      <3>3. CASE t = idr[i]
        <4>1. Delta(IdrRefs(t), IdrRefs(t)', i, -1)
          BY <2>1, <2>2, <3>1, <3>3 DEF Delta, IdrRefs, TypeOK
        <4>2. Delta(ThreadRefs(t), ThreadRefs(t)', p, 1)
          BY <2>1, <2>2, <3>1, <3>3 DEF Delta, ThreadRefs, TypeOK
        <4>3. Delta(FenceRefs(t), FenceRefs(t)', p, 0)
          BY <2>1, <2>2, <3>1, <3>3 DEF Delta, FenceRefs, TypeOK
        <4>4. ref'[t] = ref[t] + (-1) + (1) + (0)
          BY <2>1, <2>2, <3>3 DEF TypeOK
        <4>5. QED
          BY <3>1, <4>1, <4>2, <4>3, <4>4, TimelineCountMove
      <3>4. QED
        BY <3>2, <3>3
    <2>4. QED
      BY <2>3, TimelineCountsPrime
  <1>32. ASSUME NEW f \in Fences, Poll(f)
        PROVE  TimelineRefCount'
    <2>1. UNCHANGED <<ref, idr, tl, ftl>>
      BY <1>32 DEF Poll, devVars, tlVars, fenceVars, threadVars
    <2>2. QED
      BY <2>1, TimelineCountIdle
  <1>33. CASE UNCHANGED vars
    <2>1. UNCHANGED <<ref, idr, tl, ftl>>
      BY <1>33 DEF vars, devVars, tlVars, fenceVars, threadVars
    <2>2. QED
      BY <2>1, TimelineCountIdle
  <1>34. QED
    BY <1>1, <1>2, <1>3, <1>4, <1>5, <1>6, <1>7, <1>8, <1>9, <1>10, <1>11,
       <1>12, <1>13, <1>14, <1>15, <1>16, <1>17, <1>18, <1>19, <1>20, <1>21,
       <1>22, <1>23, <1>24, <1>25, <1>26, <1>27, <1>28, <1>29, <1>30, <1>31,
       <1>32, <1>33
       DEF Next, Step, Choose

\* A step that gives no id, takes none, and lets nobody look a timeline up.
LEMMA IdsKeptIdle ==
    ASSUME TypeOK, Control, IdsKept, UNCHANGED idr,
           \A q \in Threads :
             /\ pc'[q] = "commit" => pc[q] = "commit" /\ tl'[q] = tl[q]
             /\ pc'[q] \in DestroyPCs => pc[q] \in DestroyPCs /\ tl'[q] = tl[q]
             /\ tl'[q] \in {tl[q], None},
           \A f \in Fences : ftl'[f] \in {ftl[f], None},
           \A id \in Ids : idr[id] \in Timelines => tid'[idr[id]] = tid[idr[id]],
           \A q \in Threads : pc[q] = "commit" => tid'[tl[q]] = tid[tl[q]]
    PROVE  IdsKept'
  <1>1. \A q \in Threads : pc[q] = "commit" => tl[q] # None
    BY DEF Control, FreePCs
  <1>2. IdNamesOneTimeline'
    BY DEF IdsKept, IdNamesOneTimeline
  <1>3. QED
    BY <1>1, <1>2 DEF IdsKept

\* The last put of a timeline forgets an id that nobody can use.
LEMMA IdsKeptPut ==
    ASSUME TypeOK, Control, Users, IdsKept, NEW t \in Timelines, kgsl_timeline_put(t),
           (\E q \in Threads : tl[q] = t /\ pc[q] # "commit") \/ (\E f \in Fences : ftl[f] = t)
    PROVE  /\ \A id \in Ids : idr[id] \in Timelines => tid'[idr[id]] = tid[idr[id]]
           /\ \A q \in Threads : pc[q] = "commit" => tid'[tl[q]] = tid[tl[q]]
  <1>1. t # None
    BY TimelineAssumption
  <1>2. ref[t] = 1 => /\ \A id \in Ids : idr[id] # t
                      /\ \A q \in Threads : pc[q] = "commit" => tl[q] # t
    BY <1>1 DEF Users
  <1>3. CASE ref[t] = 1
    BY <1>2, <1>3 DEF kgsl_timeline_put, TypeOK
  <1>4. CASE ref[t] # 1
    BY <1>4 DEF kgsl_timeline_put, TypeOK
  <1>5. QED
    BY <1>3, <1>4

\* Every step keeps the ids: an id is given to one timeline, and comes back
\* only when the timeline is taken off the idr.
LEMMA IdsKeptStep ==
    ASSUME TypeOK, Control, Locks, Lists, Allocs, Releases, Users, Empties,
           IdsKept, [Next]_vars
    PROVE  IdsKept'
  <1>1. ASSUME NEW p \in Threads, kgsl_ioctl_timeline_create(p)
        PROVE  IdsKept'
    BY <1>1, TimelineAssumption
       DEF kgsl_ioctl_timeline_create, At, Goto, devVars, tlVars, fenceVars,
           threadVars, IdsKept, IdNamesOneTimeline, TypeOK, Control, FreePCs,
           DestroyPCs
  <1>2. ASSUME NEW p \in Threads, SignalLock(p)
        PROVE  IdsKept'
    <2>1. UNCHANGED <<idr, tid, tl, ftl>>
      BY <1>2
         DEF SignalLock, At, Goto, devVars, tlVars, fenceVars, threadVars
    <2>2. \A q \in Threads : /\ pc'[q] = "commit" => pc[q] = "commit"
                             /\ pc'[q] \in DestroyPCs => pc[q] \in DestroyPCs
      BY <1>2
         DEF SignalLock, At, Goto, devVars, tlVars, fenceVars, threadVars,
             TypeOK, DestroyPCs
    <2>3. QED
      BY <2>1, <2>2, IdsKeptIdle
  <1>3. ASSUME NEW p \in Threads, ScanLock(p)
        PROVE  IdsKept'
    BY <1>3, TimelineAssumption
       DEF ScanLock, At, Goto, devVars, tlVars, fenceVars, threadVars,
           IdsKept, IdNamesOneTimeline, TypeOK, Control, FreePCs, DestroyPCs
  <1>4. ASSUME NEW p \in Threads, SignalScan(p)
        PROVE  IdsKept'
    BY <1>4, TimelineAssumption
       DEF SignalScan, At, Goto, devVars, tlVars, fenceVars, threadVars,
           IdsKept, IdNamesOneTimeline, TypeOK, Control, FreePCs, DestroyPCs
  <1>5. ASSUME NEW p \in Threads, SignalScanEnd(p)
        PROVE  IdsKept'
    BY <1>5, TimelineAssumption
       DEF SignalScanEnd, At, Goto, devVars, tlVars, fenceVars, threadVars,
           IdsKept, IdNamesOneTimeline, TypeOK, Control, FreePCs, DestroyPCs
  <1>6. ASSUME NEW p \in Threads, SignalFence(p)
        PROVE  IdsKept'
    BY <1>6, TimelineAssumption
       DEF SignalFence, At, Goto, dma_fence_put, devVars, tlVars, fenceVars,
           threadVars, IdsKept, IdNamesOneTimeline, TypeOK, Control, FreePCs,
           DestroyPCs
  <1>7. ASSUME NEW p \in Threads, SignalUnlock(p)
        PROVE  IdsKept'
    BY <1>7, TimelineAssumption
       DEF SignalUnlock, At, Goto, devVars, tlVars, fenceVars, threadVars,
           IdsKept, IdNamesOneTimeline, TypeOK, Control, FreePCs, DestroyPCs
  <1>8. ASSUME NEW p \in Threads, PutTimeline(p)
        PROVE  IdsKept'
    <2>1. /\ UNCHANGED <<idr, ftl>> /\ tl' = [tl EXCEPT ![p] = None]
          /\ kgsl_timeline_put(tl[p]) /\ pc[p] # "commit"
      BY <1>8 DEF PutTimeline, At, devVars, fenceVars
    <2>2. tl[p] \in Timelines
      BY <1>8, ThreadsTimeline DEF PutTimeline, At, FreePCs
    <2>3. \A q \in Threads :
            /\ pc'[q] = "commit" => pc[q] = "commit" /\ tl'[q] = tl[q]
            /\ pc'[q] \in DestroyPCs => pc[q] \in DestroyPCs /\ tl'[q] = tl[q]
            /\ tl'[q] \in {tl[q], None}
      BY <1>8 DEF PutTimeline, Goto, At, TypeOK, DestroyPCs
    <2>4. /\ \A id \in Ids : idr[id] \in Timelines => tid'[idr[id]] = tid[idr[id]]
          /\ \A q \in Threads : pc[q] = "commit" => tid'[tl[q]] = tid[tl[q]]
      BY <2>1, <2>2, IdsKeptPut
    <2>5. QED
      BY <2>1, <2>3, <2>4, IdsKeptIdle
  <1>9. ASSUME NEW p \in Threads, kgsl_timeline_fence_alloc(p)
        PROVE  IdsKept'
    BY <1>9, TimelineAssumption
       DEF kgsl_timeline_fence_alloc, At, Goto, FreeFences, devVars, tlVars,
           fenceVars, threadVars, IdsKept, IdNamesOneTimeline, TypeOK,
           Control, FreePCs, DestroyPCs
  <1>10. ASSUME NEW p \in Threads, FenceAllocFails(p)
        PROVE  IdsKept'
    <2>1. UNCHANGED <<idr, ftl>> /\ pc[p] = "f_alloc"
      BY <1>10 DEF FenceAllocFails, At, devVars, fenceVars
    <2>2. tl[p] \in Timelines
      BY <1>10, ThreadsTimeline DEF FenceAllocFails, At, FreePCs
    <2>3. \A q \in Threads :
            /\ pc'[q] = "commit" => pc[q] = "commit" /\ tl'[q] = tl[q]
            /\ pc'[q] \in DestroyPCs => pc[q] \in DestroyPCs /\ tl'[q] = tl[q]
            /\ tl'[q] \in {tl[q], None}
      BY <1>10 DEF FenceAllocFails, Goto, At, TypeOK, DestroyPCs
    <2>4. /\ \A id \in Ids : idr[id] \in Timelines => tid'[idr[id]] = tid[idr[id]]
          /\ \A q \in Threads : pc[q] = "commit" => tid'[tl[q]] = tid[tl[q]]
      <3>1. CASE UNCHANGED tid
        BY <3>1
      <3>2. CASE kgsl_timeline_put(tl[p])
        BY <2>1, <2>2, <3>2, IdsKeptPut
      <3>3. QED
        BY <1>10, <3>1, <3>2 DEF FenceAllocFails
    <2>5. QED
      BY <2>1, <2>3, <2>4, IdsKeptIdle
  <1>11. ASSUME NEW p \in Threads, FenceLock(p)
        PROVE  IdsKept'
    <2>1. UNCHANGED <<idr, tid, tl, ftl>>
      BY <1>11
         DEF FenceLock, At, Goto, devVars, tlVars, fenceVars, threadVars
    <2>2. \A q \in Threads : /\ pc'[q] = "commit" => pc[q] = "commit"
                             /\ pc'[q] \in DestroyPCs => pc[q] \in DestroyPCs
      BY <1>11
         DEF FenceLock, At, Goto, devVars, tlVars, fenceVars, threadVars,
             TypeOK, DestroyPCs
    <2>3. QED
      BY <2>1, <2>2, IdsKeptIdle
  <1>12. ASSUME NEW p \in Threads, kgsl_timeline_add_fence(p)
        PROVE  IdsKept'
    BY <1>12, TimelineAssumption
       DEF kgsl_timeline_add_fence, At, Goto, devVars, tlVars, fenceVars,
           threadVars, IdsKept, IdNamesOneTimeline, TypeOK, Control, FreePCs,
           DestroyPCs
  <1>13. ASSUME NEW p \in Threads, WaitCollect(p)
        PROVE  IdsKept'
    <2>1. /\ UNCHANGED <<idr, ftl>> /\ tl' = [tl EXCEPT ![p] = None]
          /\ kgsl_timeline_put(tl[p]) /\ pc[p] # "commit"
      BY <1>13 DEF WaitCollect, At, devVars, fenceVars
    <2>2. tl[p] \in Timelines
      BY <1>13, ThreadsTimeline DEF WaitCollect, At, FreePCs
    <2>3. \A q \in Threads :
            /\ pc'[q] = "commit" => pc[q] = "commit" /\ tl'[q] = tl[q]
            /\ pc'[q] \in DestroyPCs => pc[q] \in DestroyPCs /\ tl'[q] = tl[q]
            /\ tl'[q] \in {tl[q], None}
      BY <1>13 DEF WaitCollect, Goto, At, TypeOK, DestroyPCs
    <2>4. /\ \A id \in Ids : idr[id] \in Timelines => tid'[idr[id]] = tid[idr[id]]
          /\ \A q \in Threads : pc[q] = "commit" => tid'[tl[q]] = tid[tl[q]]
      BY <2>1, <2>2, IdsKeptPut
    <2>5. QED
      BY <2>1, <2>3, <2>4, IdsKeptIdle
  <1>14. ASSUME NEW p \in Threads, WaitStart(p)
        PROVE  IdsKept'
    BY <1>14, TimelineAssumption
       DEF WaitStart, At, Goto, devVars, tlVars, fenceVars, threadVars,
           IdsKept, IdNamesOneTimeline, TypeOK, Control, FreePCs, DestroyPCs
  <1>15. ASSUME NEW p \in Threads, WaitReturn(p)
        PROVE  IdsKept'
    BY <1>15, TimelineAssumption
       DEF WaitReturn, At, Goto, devVars, tlVars, fenceVars, threadVars,
           IdsKept, IdNamesOneTimeline, TypeOK, Control, FreePCs, DestroyPCs
  <1>16. ASSUME NEW p \in Threads, WaitPut(p)
        PROVE  IdsKept'
    <2>1. UNCHANGED <<idr, tid, tl, ftl>>
      BY <1>16
         DEF WaitPut, At, Goto, dma_fence_put, devVars, tlVars, fenceVars,
             threadVars
    <2>2. \A q \in Threads : /\ pc'[q] = "commit" => pc[q] = "commit"
                             /\ pc'[q] \in DestroyPCs => pc[q] \in DestroyPCs
      BY <1>16
         DEF WaitPut, At, Goto, dma_fence_put, devVars, tlVars, fenceVars,
             threadVars, TypeOK, DestroyPCs
    <2>3. QED
      BY <2>1, <2>2, IdsKeptIdle
  <1>17. ASSUME NEW p \in Threads, FenceGetInstall(p)
        PROVE  IdsKept'
    BY <1>17, TimelineAssumption
       DEF FenceGetInstall, At, Goto, devVars, tlVars, fenceVars, threadVars,
           IdsKept, IdNamesOneTimeline, TypeOK, Control, FreePCs, DestroyPCs
  <1>18. ASSUME NEW p \in Threads, kgsl_ioctl_timeline_fence_get(p)
        PROVE  IdsKept'
    BY <1>18, TimelineAssumption
       DEF kgsl_ioctl_timeline_fence_get, At, Goto, dma_fence_put, devVars,
           tlVars, fenceVars, threadVars, IdsKept, IdNamesOneTimeline, TypeOK,
           Control, FreePCs, DestroyPCs
  <1>19. ASSUME NEW p \in Threads, timeline_fence_release(p)
        PROVE  IdsKept'
    <2>1. /\ UNCHANGED <<idr, tl, pc>> /\ ftl' = [ftl EXCEPT ![rel[p]] = None]
          /\ kgsl_timeline_put(ftl[rel[p]])
      BY <1>19 DEF timeline_fence_release, devVars
    <2>2. rel[p] \in Fences /\ ftl[rel[p]] \in Timelines
      BY <1>19, ReleaseShape
    <2>3. \A g \in Fences : ftl'[g] \in {ftl[g], None}
      BY <2>1 DEF TypeOK
    <2>4. /\ \A id \in Ids : idr[id] \in Timelines => tid'[idr[id]] = tid[idr[id]]
          /\ \A q \in Threads : pc[q] = "commit" => tid'[tl[q]] = tid[tl[q]]
      BY <2>1, <2>2, IdsKeptPut
    <2>5. QED
      BY <2>1, <2>3, <2>4, IdsKeptIdle
  <1>20. ASSUME NEW p \in Threads, DestroyScan(p)
        PROVE  IdsKept'
    BY <1>20, TimelineAssumption
       DEF DestroyScan, At, Goto, devVars, tlVars, fenceVars, threadVars,
           IdsKept, IdNamesOneTimeline, TypeOK, Control, FreePCs, DestroyPCs
  <1>21. ASSUME NEW p \in Threads, DestroyScanEnd(p)
        PROVE  IdsKept'
    BY <1>21, TimelineAssumption
       DEF DestroyScanEnd, At, Goto, devVars, tlVars, fenceVars, threadVars,
           IdsKept, IdNamesOneTimeline, TypeOK, Control, FreePCs, DestroyPCs
  <1>22. ASSUME NEW p \in Threads, DestroyLock(p)
        PROVE  IdsKept'
    BY <1>22, TimelineAssumption
       DEF DestroyLock, At, Goto, devVars, tlVars, fenceVars, threadVars,
           IdsKept, IdNamesOneTimeline, TypeOK, Control, FreePCs, DestroyPCs
  <1>23. ASSUME NEW p \in Threads, DestroyFence(p)
        PROVE  IdsKept'
    BY <1>23, TimelineAssumption
       DEF DestroyFence, At, Goto, dma_fence_put, devVars, tlVars, fenceVars,
           threadVars, IdsKept, IdNamesOneTimeline, TypeOK, Control, FreePCs,
           DestroyPCs
  <1>24. ASSUME NEW p \in Threads, kgsl_timeline_alloc(p)
        PROVE  IdsKept'
    <2>1. PICK u \in FreeTimelines, i \in Ids :
            /\ idr[i] = None /\ idr' = [idr EXCEPT ![i] = Reserved]
            /\ tid' = [tid EXCEPT ![u] = i] /\ tl' = [tl EXCEPT ![p] = u]
      BY <1>24 DEF kgsl_timeline_alloc
    <2>2. UNCHANGED ftl /\ pc' = [pc EXCEPT ![p] = "commit"] /\ pc[p] = "idle"
      BY <1>24 DEF kgsl_timeline_alloc, At, Goto, fenceVars
    <2>3. /\ u \in Timelines /\ u # None /\ Reserved \notin Timelines
          /\ \A q \in Threads : tl[q] # u
          /\ \A g \in Fences : ftl[g] # u
          /\ \A id \in Ids : idr[id] # u
      BY FreeIsClean, TimelineAssumption
    <2>4. \A q \in Threads : pc'[q] = "commit" /\ q # p =>
            /\ pc[q] = "commit" /\ tl'[q] = tl[q] /\ tl[q] \in Timelines
            /\ tid'[tl'[q]] = tid[tl[q]] /\ tid[tl[q]] \in Ids
            /\ idr[tid[tl[q]]] = Reserved
      <3>1. SUFFICES ASSUME NEW q \in Threads, pc'[q] = "commit", q # p
                     PROVE  /\ pc[q] = "commit" /\ tl'[q] = tl[q] /\ tl[q] \in Timelines
                            /\ tid'[tl'[q]] = tid[tl[q]] /\ tid[tl[q]] \in Ids
                            /\ idr[tid[tl[q]]] = Reserved
        OBVIOUS
      <3>2. pc[q] = "commit" /\ tl'[q] = tl[q]
        BY <2>1, <2>2, <3>1 DEF TypeOK
      <3>3. tl[q] \in Timelines
        BY <3>2, ThreadsTimeline DEF FreePCs
      <3>4. QED
        BY <2>1, <2>3, <3>2, <3>3 DEF IdsKept, IdNamesOneTimeline, TypeOK
    <2>5. /\ pc'[p] = "commit" /\ tl'[p] = u /\ tid'[u] = i /\ idr'[i] = Reserved
          /\ idr[i] # Reserved
      BY <2>1, <2>2, <2>3, TimelineAssumption DEF TypeOK
    <2>6. IdNamesOneTimeline'
      <3>1. \A id \in Ids : idr'[id] \in Timelines => tid'[idr'[id]] = id
        BY <2>1, <2>3 DEF IdsKept, IdNamesOneTimeline, TypeOK
      <3>2. \A q \in Threads : pc'[q] = "commit" => idr'[tid'[tl'[q]]] = Reserved
        BY <2>1, <2>4, <2>5 DEF TypeOK
      <3>3. QED
        BY <3>1, <3>2 DEF IdNamesOneTimeline
    <2>7. \A q \in Threads : pc'[q] = "commit" =>
            /\ tid'[tl'[q]] \in Ids
            /\ \A r \in Threads : tl'[r] = tl'[q] => r = q
            /\ \A g \in Fences : ftl'[g] # tl'[q]
      <3>1. SUFFICES ASSUME NEW q \in Threads, pc'[q] = "commit"
                     PROVE  /\ tid'[tl'[q]] \in Ids
                            /\ \A r \in Threads : tl'[r] = tl'[q] => r = q
                            /\ \A g \in Fences : ftl'[g] # tl'[q]
        OBVIOUS
      <3>2. CASE q = p
        BY <2>1, <2>2, <2>3, <2>5, <3>2 DEF TypeOK
      <3>3. CASE q # p
        <4>1. /\ pc[q] = "commit" /\ tl'[q] = tl[q] /\ tid'[tl'[q]] \in Ids
          BY <2>4, <3>1, <3>3
        <4>2. QED
          BY <2>1, <2>2, <2>3, <4>1 DEF IdsKept, TypeOK
      <3>4. QED
        BY <3>2, <3>3
    <2>8. \A q, r \in Threads :
            pc'[q] = "commit" /\ pc'[r] = "commit" /\ tid'[tl'[q]] = tid'[tl'[r]] => q = r
      BY <2>4, <2>5 DEF IdsKept
    <2>9. \A q \in Threads : pc'[q] \in DestroyPCs => \A id \in Ids : idr'[id] # tl'[q]
      <3>1. SUFFICES ASSUME NEW q \in Threads, pc'[q] \in DestroyPCs, NEW id \in Ids
                     PROVE  idr'[id] # tl'[q]
        OBVIOUS
      <3>2. q # p /\ pc[q] \in DestroyPCs /\ tl'[q] = tl[q]
        BY <2>1, <2>2, <3>1 DEF TypeOK, DestroyPCs
      <3>3. tl[q] \in Timelines
        BY <3>2, ThreadsTimeline DEF DestroyPCs, FreePCs
      <3>4. QED
        BY <2>1, <2>3, <3>2, <3>3 DEF IdsKept, TypeOK
    <2>10. QED
      BY <2>6, <2>7, <2>8, <2>9 DEF IdsKept
  <1>25. ASSUME NEW p \in Threads, kgsl_ioctl_timeline_signal(p)
        PROVE  IdsKept'
    BY <1>25, TimelineAssumption
       DEF kgsl_ioctl_timeline_signal, At, Goto, kgsl_timeline_by_id, devVars,
           tlVars, fenceVars, threadVars, IdsKept, IdNamesOneTimeline, TypeOK,
           Control, FreePCs, DestroyPCs
  <1>26. ASSUME NEW p \in Threads, FenceLookup(p)
        PROVE  IdsKept'
    BY <1>26, TimelineAssumption
       DEF FenceLookup, At, Goto, kgsl_timeline_by_id, devVars, tlVars,
           fenceVars, threadVars, IdsKept, IdNamesOneTimeline, TypeOK,
           Control, FreePCs, DestroyPCs
  <1>27. ASSUME NEW p \in Threads, WaitError(p)
        PROVE  IdsKept'
    BY <1>27, TimelineAssumption
       DEF WaitError, At, Goto, devVars, tlVars, fenceVars, threadVars,
           IdsKept, IdNamesOneTimeline, TypeOK, Control, FreePCs, DestroyPCs
  <1>28. ASSUME NEW p \in Threads, WaitTimeout(p)
        PROVE  IdsKept'
    BY <1>28, TimelineAssumption
       DEF WaitTimeout, At, Goto, devVars, tlVars, fenceVars, threadVars,
           IdsKept, IdNamesOneTimeline, TypeOK, Control, FreePCs, DestroyPCs
  <1>29. ASSUME NEW p \in Threads, CloseFd(p)
        PROVE  IdsKept'
    BY <1>29, TimelineAssumption
       DEF CloseFd, At, Goto, dma_fence_put, devVars, tlVars, fenceVars,
           threadVars, IdsKept, IdNamesOneTimeline, TypeOK, Control, FreePCs,
           DestroyPCs
  <1>30. ASSUME NEW p \in Threads, kgsl_ioctl_timeline_query(p)
        PROVE  IdsKept'
    BY <1>30, TimelineAssumption
       DEF kgsl_ioctl_timeline_query, At, Goto, kgsl_timeline_by_id, devVars,
           tlVars, fenceVars, threadVars, IdsKept, IdNamesOneTimeline, TypeOK,
           Control, FreePCs, DestroyPCs
  <1>31. ASSUME NEW p \in Threads, kgsl_ioctl_timeline_destroy(p)
        PROVE  IdsKept'
    BY <1>31, TimelineAssumption
       DEF kgsl_ioctl_timeline_destroy, At, Goto, devVars, tlVars, fenceVars,
           threadVars, IdsKept, IdNamesOneTimeline, TypeOK, Control, FreePCs,
           DestroyPCs
  <1>32. ASSUME NEW f \in Fences, Poll(f)
        PROVE  IdsKept'
    BY <1>32, TimelineAssumption
       DEF Poll, At, Goto, devVars, tlVars, fenceVars, threadVars, IdsKept,
           IdNamesOneTimeline, TypeOK, Control, FreePCs, DestroyPCs
  <1>33. CASE UNCHANGED vars
    BY <1>33, TimelineAssumption
       DEF vars, devVars, tlVars, fenceVars, threadVars, IdsKept,
           IdNamesOneTimeline, TypeOK, Control, FreePCs, DestroyPCs
  <1>34. QED
    BY <1>1, <1>2, <1>3, <1>4, <1>5, <1>6, <1>7, <1>8, <1>9, <1>10, <1>11,
       <1>12, <1>13, <1>14, <1>15, <1>16, <1>17, <1>18, <1>19, <1>20, <1>21,
       <1>22, <1>23, <1>24, <1>25, <1>26, <1>27, <1>28, <1>29, <1>30, <1>31,
       <1>32, <1>33
       DEF Next, Step, Choose

\* A fence that is in use before and after a step waits for the same number
\* of the same timeline, whose value does not go back.
FencesKept ==
    \A f \in Fences : ftl[f] # None /\ ftl'[f] # None =>
        /\ ftl'[f] = ftl[f] /\ fseq'[f] = fseq[f]
        /\ value'[ftl[f]] >= value[ftl[f]]

\* A step that also leaves these values alone.
Steady ==
    \A f \in Fences : ftl[f] # None /\ ftl'[f] # None =>
        /\ ftl'[f] = ftl[f] /\ fseq'[f] = fseq[f]
        /\ value'[ftl[f]] = value[ftl[f]]

\* A put that is not the last one, or whose timeline has no fence, changes the
\* value of no fence's timeline.
LEMMA SteadyPut ==
    ASSUME TypeOK, NEW t \in Timelines, kgsl_timeline_put(t), UNCHANGED fseq,
           \A f \in Fences : ftl'[f] \in {ftl[f], None},
           ref[t] = 1 => \A f \in Fences : ftl[f] = t => ftl'[f] = None
    PROVE  Steady
  <1>1. SUFFICES ASSUME NEW f \in Fences, ftl[f] # None, ftl'[f] # None
                 PROVE  /\ ftl'[f] = ftl[f] /\ fseq'[f] = fseq[f]
                        /\ value'[ftl[f]] = value[ftl[f]]
    BY DEF Steady
  <1>2. ftl'[f] = ftl[f] /\ fseq'[f] = fseq[f] /\ ftl[f] \in Timelines
    BY <1>1 DEF TypeOK
  <1>3. CASE ftl[f] = t
    <2>1. ref[t] # 1
      BY <1>1, <1>3
    <2>2. value'[ftl[f]] = value[ftl[f]]
      BY <1>2, <1>3, <2>1 DEF kgsl_timeline_put, TypeOK
    <2>3. QED
      BY <1>2, <2>2
  <1>4. CASE ftl[f] # t
    <2>1. value'[ftl[f]] = value[ftl[f]]
      BY <1>2, <1>4 DEF kgsl_timeline_put, TypeOK
    <2>2. QED
      BY <1>2, <2>1
  <1>5. QED
    BY <1>3, <1>4

\* A step that touches neither a fence nor a value.
LEMMA SteadyIdle ==
    ASSUME UNCHANGED <<ftl, fseq, value>>
    PROVE  Steady
  BY DEF Steady

\* Only kgsl_timeline_signal changes the value of a timeline that has fences.
LEMMA SteadyStep ==
    ASSUME TypeOK, Control, Locks, Lists, Allocs, Releases, Users, Empties,
           [Next]_vars
    PROVE  Steady \/ (\E q \in Threads : SignalLock(q))
  <1>1. ASSUME NEW p \in Threads, kgsl_ioctl_timeline_create(p)
        PROVE  Steady \/ (\E q \in Threads : SignalLock(q))
    <2>1. UNCHANGED <<ftl, fseq, value>>
      BY <1>1
         DEF kgsl_ioctl_timeline_create, devVars, tlVars, fenceVars,
             threadVars
    <2>2. QED
      BY <2>1, SteadyIdle
  <1>2. ASSUME NEW p \in Threads, SignalLock(p)
        PROVE  Steady \/ (\E q \in Threads : SignalLock(q))
    BY <1>2
  <1>3. ASSUME NEW p \in Threads, ScanLock(p)
        PROVE  Steady \/ (\E q \in Threads : SignalLock(q))
    <2>1. UNCHANGED <<ftl, fseq, value>>
      BY <1>3 DEF ScanLock, devVars, tlVars, fenceVars, threadVars
    <2>2. QED
      BY <2>1, SteadyIdle
  <1>4. ASSUME NEW p \in Threads, SignalScan(p)
        PROVE  Steady \/ (\E q \in Threads : SignalLock(q))
    <2>1. UNCHANGED <<ftl, fseq, value>>
      BY <1>4 DEF SignalScan, devVars, tlVars, fenceVars, threadVars
    <2>2. QED
      BY <2>1, SteadyIdle
  <1>5. ASSUME NEW p \in Threads, SignalScanEnd(p)
        PROVE  Steady \/ (\E q \in Threads : SignalLock(q))
    <2>1. UNCHANGED <<ftl, fseq, value>>
      BY <1>5 DEF SignalScanEnd, devVars, tlVars, fenceVars, threadVars
    <2>2. QED
      BY <2>1, SteadyIdle
  <1>6. ASSUME NEW p \in Threads, SignalFence(p)
        PROVE  Steady \/ (\E q \in Threads : SignalLock(q))
    <2>1. UNCHANGED <<ftl, fseq, value>>
      BY <1>6 DEF SignalFence, devVars, tlVars, fenceVars, threadVars
    <2>2. QED
      BY <2>1, SteadyIdle
  <1>7. ASSUME NEW p \in Threads, SignalUnlock(p)
        PROVE  Steady \/ (\E q \in Threads : SignalLock(q))
    <2>1. UNCHANGED <<ftl, fseq, value>>
      BY <1>7 DEF SignalUnlock, devVars, tlVars, fenceVars, threadVars
    <2>2. QED
      BY <2>1, SteadyIdle
  <1>8. ASSUME NEW p \in Threads, PutTimeline(p)
        PROVE  Steady \/ (\E q \in Threads : SignalLock(q))
    <2>1. UNCHANGED <<ftl, fseq>> /\ kgsl_timeline_put(tl[p])
      BY <1>8 DEF PutTimeline, fenceVars
    <2>2. tl[p] \in Timelines /\ tl[p] # None
      BY <1>8, ThreadsTimeline, TimelineAssumption DEF PutTimeline, At, FreePCs
    <2>3. ref[tl[p]] = 1 => \A f \in Fences : ftl[f] # tl[p]
      BY <2>2 DEF Users
    <2>4. QED
      BY <2>1, <2>2, <2>3, SteadyPut
  <1>9. ASSUME NEW p \in Threads, kgsl_timeline_fence_alloc(p)
        PROVE  Steady \/ (\E q \in Threads : SignalLock(q))
    <2>1. PICK g \in Fences : /\ ftl[g] = None /\ ftl' = [ftl EXCEPT ![g] = tl[p]]
                              /\ fseq' = [fseq EXCEPT ![g] = seq[p]]
      BY <1>9 DEF kgsl_timeline_fence_alloc, FreeFences
    <2>2. UNCHANGED value
      BY <1>9 DEF kgsl_timeline_fence_alloc
    <2>3. SUFFICES ASSUME NEW f \in Fences, ftl[f] # None
                   PROVE  /\ ftl'[f] = ftl[f] /\ fseq'[f] = fseq[f]
                          /\ value'[ftl[f]] = value[ftl[f]]
      BY DEF Steady
    <2>4. QED
      BY <2>1, <2>2, <2>3 DEF TypeOK
  <1>10. ASSUME NEW p \in Threads, FenceAllocFails(p)
        PROVE  Steady \/ (\E q \in Threads : SignalLock(q))
    <2>1. UNCHANGED <<ftl, fseq>>
      BY <1>10 DEF FenceAllocFails, fenceVars
    <2>2. tl[p] \in Timelines /\ tl[p] # None
      BY <1>10, ThreadsTimeline, TimelineAssumption
         DEF FenceAllocFails, At, FreePCs
    <2>3. ref[tl[p]] = 1 => \A f \in Fences : ftl[f] # tl[p]
      BY <2>2 DEF Users
    <2>4. CASE kgsl_timeline_put(tl[p])
      BY <2>1, <2>2, <2>3, <2>4, SteadyPut
    <2>5. CASE UNCHANGED value
      BY <2>1, <2>5, SteadyIdle
    <2>6. QED
      BY <1>10, <2>4, <2>5 DEF FenceAllocFails
  <1>11. ASSUME NEW p \in Threads, FenceLock(p)
        PROVE  Steady \/ (\E q \in Threads : SignalLock(q))
    <2>1. UNCHANGED <<ftl, fseq, value>>
      BY <1>11 DEF FenceLock, devVars, tlVars, fenceVars, threadVars
    <2>2. QED
      BY <2>1, SteadyIdle
  <1>12. ASSUME NEW p \in Threads, kgsl_timeline_add_fence(p)
        PROVE  Steady \/ (\E q \in Threads : SignalLock(q))
    <2>1. UNCHANGED <<ftl, fseq, value>>
      BY <1>12
         DEF kgsl_timeline_add_fence, devVars, tlVars, fenceVars, threadVars
    <2>2. QED
      BY <2>1, SteadyIdle
  <1>13. ASSUME NEW p \in Threads, WaitCollect(p)
        PROVE  Steady \/ (\E q \in Threads : SignalLock(q))
    <2>1. UNCHANGED <<ftl, fseq>> /\ kgsl_timeline_put(tl[p])
      BY <1>13 DEF WaitCollect, fenceVars
    <2>2. tl[p] \in Timelines /\ tl[p] # None
      BY <1>13, ThreadsTimeline, TimelineAssumption DEF WaitCollect, At, FreePCs
    <2>3. ref[tl[p]] = 1 => \A f \in Fences : ftl[f] # tl[p]
      BY <2>2 DEF Users
    <2>4. QED
      BY <2>1, <2>2, <2>3, SteadyPut
  <1>14. ASSUME NEW p \in Threads, WaitStart(p)
        PROVE  Steady \/ (\E q \in Threads : SignalLock(q))
    <2>1. UNCHANGED <<ftl, fseq, value>>
      BY <1>14 DEF WaitStart, devVars, tlVars, fenceVars, threadVars
    <2>2. QED
      BY <2>1, SteadyIdle
  <1>15. ASSUME NEW p \in Threads, WaitReturn(p)
        PROVE  Steady \/ (\E q \in Threads : SignalLock(q))
    <2>1. UNCHANGED <<ftl, fseq, value>>
      BY <1>15 DEF WaitReturn, devVars, tlVars, fenceVars, threadVars
    <2>2. QED
      BY <2>1, SteadyIdle
  <1>16. ASSUME NEW p \in Threads, WaitPut(p)
        PROVE  Steady \/ (\E q \in Threads : SignalLock(q))
    <2>1. UNCHANGED <<ftl, fseq, value>>
      BY <1>16 DEF WaitPut, devVars, tlVars, fenceVars, threadVars
    <2>2. QED
      BY <2>1, SteadyIdle
  <1>17. ASSUME NEW p \in Threads, FenceGetInstall(p)
        PROVE  Steady \/ (\E q \in Threads : SignalLock(q))
    <2>1. UNCHANGED <<ftl, fseq, value>>
      BY <1>17 DEF FenceGetInstall, devVars, tlVars, fenceVars, threadVars
    <2>2. QED
      BY <2>1, SteadyIdle
  <1>18. ASSUME NEW p \in Threads, kgsl_ioctl_timeline_fence_get(p)
        PROVE  Steady \/ (\E q \in Threads : SignalLock(q))
    <2>1. UNCHANGED <<ftl, fseq, value>>
      BY <1>18
         DEF kgsl_ioctl_timeline_fence_get, devVars, tlVars, fenceVars,
             threadVars
    <2>2. QED
      BY <2>1, SteadyIdle
  <1>19. ASSUME NEW p \in Threads, timeline_fence_release(p)
        PROVE  Steady \/ (\E q \in Threads : SignalLock(q))
    <2>1. rel[p] \in Fences /\ ftl[rel[p]] \in Timelines /\ ftl[rel[p]] # None
      BY <1>19, ReleaseShape, TimelineAssumption
    <2>2. /\ ftl' = [ftl EXCEPT ![rel[p]] = None] /\ fseq' = [fseq EXCEPT ![rel[p]] = 0]
          /\ kgsl_timeline_put(ftl[rel[p]])
      BY <1>19 DEF timeline_fence_release
    <2>3. ref[ftl[rel[p]]] = 1 => \A g \in Fences : ftl[g] = ftl[rel[p]] => g = rel[p]
      BY <2>1 DEF Users
    <2>4. SUFFICES ASSUME NEW f \in Fences, ftl[f] # None, ftl'[f] # None
                   PROVE  /\ ftl'[f] = ftl[f] /\ fseq'[f] = fseq[f]
                          /\ value'[ftl[f]] = value[ftl[f]]
      BY DEF Steady
    <2>5. f # rel[p] /\ ftl'[f] = ftl[f] /\ fseq'[f] = fseq[f] /\ ftl[f] \in Timelines
      BY <2>1, <2>2, <2>4 DEF TypeOK
    <2>6. value'[ftl[f]] = value[ftl[f]]
      BY <2>1, <2>2, <2>3, <2>5 DEF kgsl_timeline_put, TypeOK
    <2>7. QED
      BY <2>5, <2>6
  <1>20. ASSUME NEW p \in Threads, DestroyScan(p)
        PROVE  Steady \/ (\E q \in Threads : SignalLock(q))
    <2>1. UNCHANGED <<ftl, fseq, value>>
      BY <1>20 DEF DestroyScan, devVars, tlVars, fenceVars, threadVars
    <2>2. QED
      BY <2>1, SteadyIdle
  <1>21. ASSUME NEW p \in Threads, DestroyScanEnd(p)
        PROVE  Steady \/ (\E q \in Threads : SignalLock(q))
    <2>1. UNCHANGED <<ftl, fseq, value>>
      BY <1>21 DEF DestroyScanEnd, devVars, tlVars, fenceVars, threadVars
    <2>2. QED
      BY <2>1, SteadyIdle
  <1>22. ASSUME NEW p \in Threads, DestroyLock(p)
        PROVE  Steady \/ (\E q \in Threads : SignalLock(q))
    <2>1. UNCHANGED <<ftl, fseq, value>>
      BY <1>22 DEF DestroyLock, devVars, tlVars, fenceVars, threadVars
    <2>2. QED
      BY <2>1, SteadyIdle
  <1>23. ASSUME NEW p \in Threads, DestroyFence(p)
        PROVE  Steady \/ (\E q \in Threads : SignalLock(q))
    <2>1. UNCHANGED <<ftl, fseq, value>>
      BY <1>23 DEF DestroyFence, devVars, tlVars, fenceVars, threadVars
    <2>2. QED
      BY <2>1, SteadyIdle
  <1>24. ASSUME NEW p \in Threads, kgsl_timeline_alloc(p)
        PROVE  Steady \/ (\E q \in Threads : SignalLock(q))
    <2>1. PICK u \in FreeTimelines, initial \in Seqno : value' = [value EXCEPT ![u] = initial]
      BY <1>24 DEF kgsl_timeline_alloc
    <2>2. \A f \in Fences : ftl[f] # u
      BY FreeIsClean
    <2>3. UNCHANGED <<ftl, fseq>>
      BY <1>24 DEF kgsl_timeline_alloc, fenceVars
    <2>4. SUFFICES ASSUME NEW f \in Fences, ftl[f] # None
                   PROVE  value'[ftl[f]] = value[ftl[f]]
      BY <2>3 DEF Steady
    <2>5. ftl[f] \in Timelines
      BY <2>4 DEF TypeOK
    <2>6. QED
      BY <2>1, <2>2, <2>5 DEF TypeOK
  <1>25. ASSUME NEW p \in Threads, kgsl_ioctl_timeline_signal(p)
        PROVE  Steady \/ (\E q \in Threads : SignalLock(q))
    <2>1. UNCHANGED <<ftl, fseq, value>>
      BY <1>25
         DEF kgsl_ioctl_timeline_signal, devVars, tlVars, fenceVars,
             threadVars
    <2>2. QED
      BY <2>1, SteadyIdle
  <1>26. ASSUME NEW p \in Threads, FenceLookup(p)
        PROVE  Steady \/ (\E q \in Threads : SignalLock(q))
    <2>1. UNCHANGED <<ftl, fseq, value>>
      BY <1>26 DEF FenceLookup, devVars, tlVars, fenceVars, threadVars
    <2>2. QED
      BY <2>1, SteadyIdle
  <1>27. ASSUME NEW p \in Threads, WaitError(p)
        PROVE  Steady \/ (\E q \in Threads : SignalLock(q))
    <2>1. UNCHANGED <<ftl, fseq, value>>
      BY <1>27 DEF WaitError, devVars, tlVars, fenceVars, threadVars
    <2>2. QED
      BY <2>1, SteadyIdle
  <1>28. ASSUME NEW p \in Threads, WaitTimeout(p)
        PROVE  Steady \/ (\E q \in Threads : SignalLock(q))
    <2>1. UNCHANGED <<ftl, fseq, value>>
      BY <1>28 DEF WaitTimeout, devVars, tlVars, fenceVars, threadVars
    <2>2. QED
      BY <2>1, SteadyIdle
  <1>29. ASSUME NEW p \in Threads, CloseFd(p)
        PROVE  Steady \/ (\E q \in Threads : SignalLock(q))
    <2>1. UNCHANGED <<ftl, fseq, value>>
      BY <1>29 DEF CloseFd, devVars, tlVars, fenceVars, threadVars
    <2>2. QED
      BY <2>1, SteadyIdle
  <1>30. ASSUME NEW p \in Threads, kgsl_ioctl_timeline_query(p)
        PROVE  Steady \/ (\E q \in Threads : SignalLock(q))
    <2>1. UNCHANGED <<ftl, fseq, value>>
      BY <1>30
         DEF kgsl_ioctl_timeline_query, devVars, tlVars, fenceVars, threadVars
    <2>2. QED
      BY <2>1, SteadyIdle
  <1>31. ASSUME NEW p \in Threads, kgsl_ioctl_timeline_destroy(p)
        PROVE  Steady \/ (\E q \in Threads : SignalLock(q))
    <2>1. UNCHANGED <<ftl, fseq, value>>
      BY <1>31
         DEF kgsl_ioctl_timeline_destroy, devVars, tlVars, fenceVars,
             threadVars
    <2>2. QED
      BY <2>1, SteadyIdle
  <1>32. ASSUME NEW f \in Fences, Poll(f)
        PROVE  Steady \/ (\E q \in Threads : SignalLock(q))
    <2>1. UNCHANGED <<ftl, fseq, value>>
      BY <1>32 DEF Poll, devVars, tlVars, fenceVars, threadVars
    <2>2. QED
      BY <2>1, SteadyIdle
  <1>33. CASE UNCHANGED vars
    <2>1. UNCHANGED <<ftl, fseq, value>>
      BY <1>33 DEF vars, devVars, tlVars, fenceVars, threadVars
    <2>2. QED
      BY <2>1, SteadyIdle
  <1>34. QED
    BY <1>1, <1>2, <1>3, <1>4, <1>5, <1>6, <1>7, <1>8, <1>9, <1>10, <1>11,
       <1>12, <1>13, <1>14, <1>15, <1>16, <1>17, <1>18, <1>19, <1>20, <1>21,
       <1>22, <1>23, <1>24, <1>25, <1>26, <1>27, <1>28, <1>29, <1>30, <1>31,
       <1>32, <1>33
       DEF Next, Step, Choose


\* No step moves a fence that is in use, or takes the value of its timeline
\* back.
LEMMA FencesKeptStep ==
    ASSUME TypeOK, Control, Locks, Lists, Allocs, Releases, Users, Empties, [Next]_vars
    PROVE  FencesKept
  <1>1. \A t \in Timelines : value[t] \in Int
    BY TimelineAssumption DEF TypeOK, Seqno
  <1>2. ASSUME Steady
        PROVE  FencesKept
    <2>1. \A f \in Fences : ftl[f] # None => value[ftl[f]] >= value[ftl[f]]
      BY <1>1 DEF TypeOK
    <2>2. QED
      BY <1>2, <2>1 DEF Steady, FencesKept
  <1>3. ASSUME NEW p \in Threads, SignalLock(p)
        PROVE  FencesKept
    <2>1. UNCHANGED <<ftl, fseq>>
      BY <1>3 DEF SignalLock, fenceVars
    <2>2. SUFFICES ASSUME NEW f \in Fences, ftl[f] # None
                   PROVE  value'[ftl[f]] >= value[ftl[f]]
      BY <2>1 DEF FencesKept
    <2>3. ftl[f] \in Timelines
      BY <2>2 DEF TypeOK
    <2>4. CASE UNCHANGED value
      BY <1>1, <2>3, <2>4
    <2>5. CASE seq[p] >= value[tl[p]] /\ value' = [value EXCEPT ![tl[p]] = seq[p]]
      <3>1. value'[ftl[f]] = IF ftl[f] = tl[p] THEN seq[p] ELSE value[ftl[f]]
        BY <2>3, <2>5 DEF TypeOK
      <3>2. QED
        BY <1>1, <2>3, <2>5, <3>1
    <2>6. QED
      BY <1>3, <2>4, <2>5 DEF SignalLock
  <1>4. QED
    BY <1>2, <1>3, SteadyStep


\* What has fired, fence by fence.
Fired(f) ==
    ftl[f] # None =>
        /\ sig[f] /\ err[f] => \A id \in Ids : idr[id] # ftl[f]
        /\ sig[f] /\ ~err[f] => fseq[f] <= value[ftl[f]]
        /\ err[f] => sig[f]

\* What signal has put on temp is reached.
TempReached ==
    \A p \in Threads : pc[p] \in {"s_scan", "s_signal"} =>
        \A f \in Range(temp[p]) : fseq[f] <= value[ftl[f]]

\* The entries of the idr.
LEMMA IdrRange ==
    ASSUME TypeOK, NEW t
    PROVE  t \in Range(idr) <=> \E id \in Ids : idr[id] = t
  BY DEF TypeOK, Range

\* The parts of Reached.
LEMMA ReachedParts ==
    ASSUME TypeOK
    PROVE  Reached <=> (\A f \in Fences : Fired(f)) /\ TempReached
  <1>1. \A f \in Fences : ftl[f] \in Range(idr) <=> \E id \in Ids : idr[id] = ftl[f]
    BY IdrRange
  <1>2. QED
    BY <1>1
       DEF Reached, NoEarlySignal, Fired, TempReached, timeline_fence_signaled

\* The same in the next state.
LEMMA ReachedPartsPrime ==
    ASSUME TypeOK', \A f \in Fences : Fired(f)', TempReached'
    PROVE  Reached'
  <1>1. \A t : t \in Range(idr') <=> \E id \in Ids : idr'[id] = t
    BY DEF TypeOK, Range
  <1>2. QED
    BY <1>1
       DEF Reached, NoEarlySignal, Fired, TempReached, timeline_fence_signaled

\* A fence that a step does not signal.
LEMMA FiredSame ==
    ASSUME TypeOK, TypeOK', FencesKept, NEW f \in Fences, Fired(f),
           ftl'[f] # None =>
             /\ ftl[f] # None /\ sig'[f] = sig[f] /\ err'[f] = err[f]
             /\ \A id \in Ids : idr'[id] = ftl[f] => idr[id] = ftl[f]
    PROVE  Fired(f)'
  <1>1. SUFFICES ASSUME ftl'[f] # None
                 PROVE  /\ sig'[f] /\ err'[f] => \A id \in Ids : idr'[id] # ftl'[f]
                        /\ sig'[f] /\ ~err'[f] => fseq'[f] <= value'[ftl'[f]]
                        /\ err'[f] => sig'[f]
    BY DEF Fired
  <1>2. /\ ftl'[f] = ftl[f] /\ fseq'[f] = fseq[f] /\ value'[ftl[f]] >= value[ftl[f]]
        /\ ftl[f] \in Timelines
    BY <1>1 DEF FencesKept, TypeOK
  <1>3. /\ value[ftl[f]] \in Int /\ value'[ftl[f]] \in Int /\ fseq[f] \in Int
    BY <1>2, TimelineAssumption DEF TypeOK, Seqno
  <1>4. fseq[f] <= value[ftl[f]] => fseq'[f] <= value'[ftl'[f]]
    BY <1>2, <1>3
  <1>5. QED
    BY <1>1, <1>2, <1>4, Zenon DEF Fired

\* A fence that a step signals once its number is reached.
LEMMA FiredSignal ==
    ASSUME TypeOK, TypeOK', FencesKept, NEW f \in Fences, Fired(f), ftl[f] # None,
           UNCHANGED <<ftl, err, idr>>, sig'[f], timeline_fence_signaled(f)
    PROVE  Fired(f)'
  <1>1. /\ ftl'[f] = ftl[f] /\ fseq'[f] = fseq[f] /\ value'[ftl[f]] >= value[ftl[f]]
        /\ ftl[f] \in Timelines
    BY DEF FencesKept, TypeOK
  <1>2. /\ value[ftl[f]] \in Int /\ value'[ftl[f]] \in Int /\ fseq[f] \in Int
    BY <1>1, TimelineAssumption DEF TypeOK, Seqno
  <1>3. fseq'[f] <= value'[ftl'[f]]
    BY <1>1, <1>2 DEF timeline_fence_signaled
  <1>4. err[f] => sig[f] /\ \A id \in Ids : idr[id] # ftl[f]
    BY Zenon DEF Fired
  <1>5. QED
    BY <1>1, <1>3, <1>4, Zenon DEF Fired

\* Nobody's list temp grows, and no fence on one is freed.
LEMMA TempKept ==
    ASSUME TypeOK, TypeOK', Users, Releases, FencesKept, TempReached,
           \A f \in Fences : ftl[f] # None /\ fref[f] > 0 => ftl'[f] # None,
           \A q \in Threads : pc'[q] \in {"s_scan", "s_signal"} =>
             \/ Range(temp'[q]) = {}
             \/ pc[q] \in {"s_scan", "s_signal"} /\ Range(temp'[q]) \subseteq Range(temp[q])
    PROVE  TempReached'
  <1>1. SUFFICES ASSUME NEW q \in Threads, pc'[q] \in {"s_scan", "s_signal"},
                        NEW f \in Range(temp'[q])
                 PROVE  fseq'[f] <= value'[ftl'[f]]
    BY DEF TempReached
  <1>2. pc[q] \in {"s_scan", "s_signal"} /\ f \in Range(temp[q])
    BY <1>1
  <1>3. f \in Fences /\ fref[f] > 0
    BY <1>2, ListsOfFences DEF Users, ScanRefs
  <1>4. ftl[f] # None /\ ftl'[f] # None
    BY <1>3 DEF Releases
  <1>5. /\ ftl'[f] = ftl[f] /\ fseq'[f] = fseq[f] /\ value'[ftl[f]] >= value[ftl[f]]
        /\ ftl[f] \in Timelines
    BY <1>3, <1>4 DEF FencesKept, TypeOK
  <1>6. /\ value[ftl[f]] \in Int /\ value'[ftl[f]] \in Int /\ fseq[f] \in Int
    BY <1>3, <1>5, TimelineAssumption DEF TypeOK, Seqno
  <1>7. fseq[f] <= value[ftl[f]]
    BY <1>2 DEF TempReached
  <1>8. QED
    BY <1>5, <1>6, <1>7

\* No step frees a fence that somebody holds.
FreedIsDead ==
    \A f \in Fences : ftl[f] # None /\ fref[f] > 0 => ftl'[f] # None

\* The memory of a fence is freed only when its last reference is gone.
LEMMA FreedIsDeadStep ==
    ASSUME TypeOK, Control, Locks, Lists, Allocs, Releases, Users, Empties,
           [Next]_vars
    PROVE  FreedIsDead
  <1>1. ASSUME NEW p \in Threads, kgsl_ioctl_timeline_create(p)
        PROVE  FreedIsDead
    <2>1. UNCHANGED ftl
      BY <1>1
         DEF kgsl_ioctl_timeline_create, devVars, tlVars, fenceVars,
             threadVars
    <2>2. QED
      BY <2>1 DEF FreedIsDead
  <1>2. ASSUME NEW p \in Threads, SignalLock(p)
        PROVE  FreedIsDead
    <2>1. UNCHANGED ftl
      BY <1>2 DEF SignalLock, devVars, tlVars, fenceVars, threadVars
    <2>2. QED
      BY <2>1 DEF FreedIsDead
  <1>3. ASSUME NEW p \in Threads, ScanLock(p)
        PROVE  FreedIsDead
    <2>1. UNCHANGED ftl
      BY <1>3 DEF ScanLock, devVars, tlVars, fenceVars, threadVars
    <2>2. QED
      BY <2>1 DEF FreedIsDead
  <1>4. ASSUME NEW p \in Threads, SignalScan(p)
        PROVE  FreedIsDead
    <2>1. UNCHANGED ftl
      BY <1>4 DEF SignalScan, devVars, tlVars, fenceVars, threadVars
    <2>2. QED
      BY <2>1 DEF FreedIsDead
  <1>5. ASSUME NEW p \in Threads, SignalScanEnd(p)
        PROVE  FreedIsDead
    <2>1. UNCHANGED ftl
      BY <1>5 DEF SignalScanEnd, devVars, tlVars, fenceVars, threadVars
    <2>2. QED
      BY <2>1 DEF FreedIsDead
  <1>6. ASSUME NEW p \in Threads, SignalFence(p)
        PROVE  FreedIsDead
    <2>1. UNCHANGED ftl
      BY <1>6 DEF SignalFence, devVars, tlVars, fenceVars, threadVars
    <2>2. QED
      BY <2>1 DEF FreedIsDead
  <1>7. ASSUME NEW p \in Threads, SignalUnlock(p)
        PROVE  FreedIsDead
    <2>1. UNCHANGED ftl
      BY <1>7 DEF SignalUnlock, devVars, tlVars, fenceVars, threadVars
    <2>2. QED
      BY <2>1 DEF FreedIsDead
  <1>8. ASSUME NEW p \in Threads, PutTimeline(p)
        PROVE  FreedIsDead
    <2>1. UNCHANGED ftl
      BY <1>8 DEF PutTimeline, devVars, tlVars, fenceVars, threadVars
    <2>2. QED
      BY <2>1 DEF FreedIsDead
  <1>9. ASSUME NEW p \in Threads, kgsl_timeline_fence_alloc(p)
        PROVE  FreedIsDead
    <2>1. PICK g \in Fences : ftl' = [ftl EXCEPT ![g] = tl[p]]
      BY <1>9 DEF kgsl_timeline_fence_alloc, FreeFences
    <2>2. tl[p] # None
      BY <1>9 DEF kgsl_timeline_fence_alloc, At, Control, FreePCs
    <2>3. QED
      BY <2>1, <2>2 DEF FreedIsDead, TypeOK
  <1>10. ASSUME NEW p \in Threads, FenceAllocFails(p)
        PROVE  FreedIsDead
    <2>1. UNCHANGED ftl
      BY <1>10 DEF FenceAllocFails, devVars, tlVars, fenceVars, threadVars
    <2>2. QED
      BY <2>1 DEF FreedIsDead
  <1>11. ASSUME NEW p \in Threads, FenceLock(p)
        PROVE  FreedIsDead
    <2>1. UNCHANGED ftl
      BY <1>11 DEF FenceLock, devVars, tlVars, fenceVars, threadVars
    <2>2. QED
      BY <2>1 DEF FreedIsDead
  <1>12. ASSUME NEW p \in Threads, kgsl_timeline_add_fence(p)
        PROVE  FreedIsDead
    <2>1. UNCHANGED ftl
      BY <1>12
         DEF kgsl_timeline_add_fence, devVars, tlVars, fenceVars, threadVars
    <2>2. QED
      BY <2>1 DEF FreedIsDead
  <1>13. ASSUME NEW p \in Threads, WaitCollect(p)
        PROVE  FreedIsDead
    <2>1. UNCHANGED ftl
      BY <1>13 DEF WaitCollect, devVars, tlVars, fenceVars, threadVars
    <2>2. QED
      BY <2>1 DEF FreedIsDead
  <1>14. ASSUME NEW p \in Threads, WaitStart(p)
        PROVE  FreedIsDead
    <2>1. UNCHANGED ftl
      BY <1>14 DEF WaitStart, devVars, tlVars, fenceVars, threadVars
    <2>2. QED
      BY <2>1 DEF FreedIsDead
  <1>15. ASSUME NEW p \in Threads, WaitReturn(p)
        PROVE  FreedIsDead
    <2>1. UNCHANGED ftl
      BY <1>15 DEF WaitReturn, devVars, tlVars, fenceVars, threadVars
    <2>2. QED
      BY <2>1 DEF FreedIsDead
  <1>16. ASSUME NEW p \in Threads, WaitPut(p)
        PROVE  FreedIsDead
    <2>1. UNCHANGED ftl
      BY <1>16 DEF WaitPut, devVars, tlVars, fenceVars, threadVars
    <2>2. QED
      BY <2>1 DEF FreedIsDead
  <1>17. ASSUME NEW p \in Threads, FenceGetInstall(p)
        PROVE  FreedIsDead
    <2>1. UNCHANGED ftl
      BY <1>17 DEF FenceGetInstall, devVars, tlVars, fenceVars, threadVars
    <2>2. QED
      BY <2>1 DEF FreedIsDead
  <1>18. ASSUME NEW p \in Threads, kgsl_ioctl_timeline_fence_get(p)
        PROVE  FreedIsDead
    <2>1. UNCHANGED ftl
      BY <1>18
         DEF kgsl_ioctl_timeline_fence_get, devVars, tlVars, fenceVars,
             threadVars
    <2>2. QED
      BY <2>1 DEF FreedIsDead
  <1>19. ASSUME NEW p \in Threads, timeline_fence_release(p)
        PROVE  FreedIsDead
    <2>1. rel[p] \in Fences /\ fref[rel[p]] = 0 /\ ftl' = [ftl EXCEPT ![rel[p]] = None]
      BY <1>19, ReleaseShape DEF timeline_fence_release
    <2>2. QED
      BY <2>1 DEF FreedIsDead, TypeOK
  <1>20. ASSUME NEW p \in Threads, DestroyScan(p)
        PROVE  FreedIsDead
    <2>1. UNCHANGED ftl
      BY <1>20 DEF DestroyScan, devVars, tlVars, fenceVars, threadVars
    <2>2. QED
      BY <2>1 DEF FreedIsDead
  <1>21. ASSUME NEW p \in Threads, DestroyScanEnd(p)
        PROVE  FreedIsDead
    <2>1. UNCHANGED ftl
      BY <1>21 DEF DestroyScanEnd, devVars, tlVars, fenceVars, threadVars
    <2>2. QED
      BY <2>1 DEF FreedIsDead
  <1>22. ASSUME NEW p \in Threads, DestroyLock(p)
        PROVE  FreedIsDead
    <2>1. UNCHANGED ftl
      BY <1>22 DEF DestroyLock, devVars, tlVars, fenceVars, threadVars
    <2>2. QED
      BY <2>1 DEF FreedIsDead
  <1>23. ASSUME NEW p \in Threads, DestroyFence(p)
        PROVE  FreedIsDead
    <2>1. UNCHANGED ftl
      BY <1>23 DEF DestroyFence, devVars, tlVars, fenceVars, threadVars
    <2>2. QED
      BY <2>1 DEF FreedIsDead
  <1>24. ASSUME NEW p \in Threads, kgsl_timeline_alloc(p)
        PROVE  FreedIsDead
    <2>1. UNCHANGED ftl
      BY <1>24
         DEF kgsl_timeline_alloc, FreeTimelines, devVars, tlVars, fenceVars,
             threadVars
    <2>2. QED
      BY <2>1 DEF FreedIsDead
  <1>25. ASSUME NEW p \in Threads, kgsl_ioctl_timeline_signal(p)
        PROVE  FreedIsDead
    <2>1. UNCHANGED ftl
      BY <1>25
         DEF kgsl_ioctl_timeline_signal, devVars, tlVars, fenceVars,
             threadVars
    <2>2. QED
      BY <2>1 DEF FreedIsDead
  <1>26. ASSUME NEW p \in Threads, FenceLookup(p)
        PROVE  FreedIsDead
    <2>1. UNCHANGED ftl
      BY <1>26 DEF FenceLookup, devVars, tlVars, fenceVars, threadVars
    <2>2. QED
      BY <2>1 DEF FreedIsDead
  <1>27. ASSUME NEW p \in Threads, WaitError(p)
        PROVE  FreedIsDead
    <2>1. UNCHANGED ftl
      BY <1>27 DEF WaitError, devVars, tlVars, fenceVars, threadVars
    <2>2. QED
      BY <2>1 DEF FreedIsDead
  <1>28. ASSUME NEW p \in Threads, WaitTimeout(p)
        PROVE  FreedIsDead
    <2>1. UNCHANGED ftl
      BY <1>28 DEF WaitTimeout, devVars, tlVars, fenceVars, threadVars
    <2>2. QED
      BY <2>1 DEF FreedIsDead
  <1>29. ASSUME NEW p \in Threads, CloseFd(p)
        PROVE  FreedIsDead
    <2>1. UNCHANGED ftl
      BY <1>29 DEF CloseFd, devVars, tlVars, fenceVars, threadVars
    <2>2. QED
      BY <2>1 DEF FreedIsDead
  <1>30. ASSUME NEW p \in Threads, kgsl_ioctl_timeline_query(p)
        PROVE  FreedIsDead
    <2>1. UNCHANGED ftl
      BY <1>30
         DEF kgsl_ioctl_timeline_query, devVars, tlVars, fenceVars, threadVars
    <2>2. QED
      BY <2>1 DEF FreedIsDead
  <1>31. ASSUME NEW p \in Threads, kgsl_ioctl_timeline_destroy(p)
        PROVE  FreedIsDead
    <2>1. UNCHANGED ftl
      BY <1>31
         DEF kgsl_ioctl_timeline_destroy, devVars, tlVars, fenceVars,
             threadVars
    <2>2. QED
      BY <2>1 DEF FreedIsDead
  <1>32. ASSUME NEW f \in Fences, Poll(f)
        PROVE  FreedIsDead
    <2>1. UNCHANGED ftl
      BY <1>32 DEF Poll, devVars, tlVars, fenceVars, threadVars
    <2>2. QED
      BY <2>1 DEF FreedIsDead
  <1>33. CASE UNCHANGED vars
    <2>1. UNCHANGED ftl
      BY <1>33 DEF vars, devVars, tlVars, fenceVars, threadVars
    <2>2. QED
      BY <2>1 DEF FreedIsDead
  <1>34. QED
    BY <1>1, <1>2, <1>3, <1>4, <1>5, <1>6, <1>7, <1>8, <1>9, <1>10, <1>11,
       <1>12, <1>13, <1>14, <1>15, <1>16, <1>17, <1>18, <1>19, <1>20, <1>21,
       <1>22, <1>23, <1>24, <1>25, <1>26, <1>27, <1>28, <1>29, <1>30, <1>31,
       <1>32, <1>33
       DEF Next, Step, Choose

\* What signal takes off the list is reached, and stays reached.
LEMMA TempReachedStep ==
    ASSUME TypeOK, Control, Locks, Lists, Allocs, Releases, Users, Empties,
           TypeOK', IdsKept, FencesKept, FreedIsDead, TempReached, [Next]_vars
    PROVE  TempReached'
  <1>1. ASSUME NEW p \in Threads, kgsl_ioctl_timeline_create(p)
        PROVE  TempReached'
    <2>1. UNCHANGED temp
      BY <1>1
         DEF kgsl_ioctl_timeline_create, At, Goto, devVars, tlVars, fenceVars,
             threadVars
    <2>2. \A q \in Threads : pc'[q] \in {"s_scan", "s_signal"} =>
            Range(temp[q]) = {} \/ pc[q] \in {"s_scan", "s_signal"}
      BY <1>1
         DEF kgsl_ioctl_timeline_create, At, Goto, devVars, tlVars, fenceVars,
             threadVars, TypeOK, Empties, TempPCs
    <2>3. QED
      BY <2>1, <2>2, TempKept DEF FreedIsDead
  <1>2. ASSUME NEW p \in Threads, SignalLock(p)
        PROVE  TempReached'
    <2>1. UNCHANGED temp
      BY <1>2 DEF SignalLock, At, Goto, devVars, tlVars, fenceVars, threadVars
    <2>2. \A q \in Threads : pc'[q] \in {"s_scan", "s_signal"} =>
            Range(temp[q]) = {} \/ pc[q] \in {"s_scan", "s_signal"}
      BY <1>2
         DEF SignalLock, At, Goto, devVars, tlVars, fenceVars, threadVars,
             TypeOK, Empties, TempPCs
    <2>3. QED
      BY <2>1, <2>2, TempKept DEF FreedIsDead
  <1>3. ASSUME NEW p \in Threads, ScanLock(p)
        PROVE  TempReached'
    <2>1. UNCHANGED temp
      BY <1>3 DEF ScanLock, At, Goto, devVars, tlVars, fenceVars, threadVars
    <2>2. \A q \in Threads : pc'[q] \in {"s_scan", "s_signal"} =>
            Range(temp[q]) = {} \/ pc[q] \in {"s_scan", "s_signal"}
      BY <1>3
         DEF ScanLock, At, Goto, devVars, tlVars, fenceVars, threadVars,
             TypeOK, Empties, TempPCs
    <2>3. QED
      BY <2>1, <2>2, TempKept DEF FreedIsDead
  <1>4. ASSUME NEW p \in Threads, SignalScan(p)
        PROVE  TempReached'
    <2> DEFINE f == fences[tl[p]][idx[p]]
    <2>1. f \in Fences /\ UNCHANGED <<pc, ftl, fseq, value>>
      BY <1>4, SignalScanShape DEF SignalScan
    <2>2. CASE timeline_fence_signaled(f) /\ With(temp, temp', Threads, p, f)
      <3>1. SUFFICES ASSUME NEW q \in Threads, pc[q] \in {"s_scan", "s_signal"},
                            NEW g \in Range(temp'[q])
                     PROVE  fseq[g] <= value[ftl[g]]
        BY <2>1 DEF TempReached
      <3>2. g \in Range(temp[q]) \/ g = f
        BY <2>2 DEF With
      <3>3. QED
        BY <2>2, <3>1, <3>2 DEF TempReached, timeline_fence_signaled
    <2>3. CASE UNCHANGED temp
      BY <2>1, <2>3 DEF TempReached
    <2>4. QED
      BY <1>4, <2>2, <2>3, SignalScanShape DEF SignalScan
  <1>5. ASSUME NEW p \in Threads, SignalScanEnd(p)
        PROVE  TempReached'
    <2>1. UNCHANGED temp
      BY <1>5
         DEF SignalScanEnd, At, Goto, devVars, tlVars, fenceVars, threadVars
    <2>2. \A q \in Threads : pc'[q] \in {"s_scan", "s_signal"} =>
            Range(temp[q]) = {} \/ pc[q] \in {"s_scan", "s_signal"}
      BY <1>5
         DEF SignalScanEnd, At, Goto, devVars, tlVars, fenceVars, threadVars,
             TypeOK, Empties, TempPCs
    <2>3. QED
      BY <2>1, <2>2, TempKept DEF FreedIsDead
  <1>6. ASSUME NEW p \in Threads, SignalFence(p)
        PROVE  TempReached'
    <2>1. temp[p] # <<>> /\ temp' = [temp EXCEPT ![p] = Tail(@)] /\ UNCHANGED pc
      BY <1>6 DEF SignalFence
    <2>2. Without(temp, temp', Threads, p, Head(temp[p]))
      BY <2>1, PopShape
    <2>3. \A q \in Threads : Range(temp'[q]) \subseteq Range(temp[q])
      BY <2>2 DEF Without
    <2>4. QED
      BY <2>1, <2>3, TempKept DEF FreedIsDead
  <1>7. ASSUME NEW p \in Threads, SignalUnlock(p)
        PROVE  TempReached'
    <2>1. UNCHANGED temp
      BY <1>7 DEF SignalUnlock, At, Goto, devVars, tlVars, fenceVars, threadVars
    <2>2. \A q \in Threads : pc'[q] \in {"s_scan", "s_signal"} =>
            Range(temp[q]) = {} \/ pc[q] \in {"s_scan", "s_signal"}
      BY <1>7
         DEF SignalUnlock, At, Goto, devVars, tlVars, fenceVars, threadVars,
             TypeOK, Empties, TempPCs
    <2>3. QED
      BY <2>1, <2>2, TempKept DEF FreedIsDead
  <1>8. ASSUME NEW p \in Threads, PutTimeline(p)
        PROVE  TempReached'
    <2>1. UNCHANGED temp
      BY <1>8 DEF PutTimeline, At, Goto, devVars, tlVars, fenceVars, threadVars
    <2>2. \A q \in Threads : pc'[q] \in {"s_scan", "s_signal"} =>
            Range(temp[q]) = {} \/ pc[q] \in {"s_scan", "s_signal"}
      BY <1>8
         DEF PutTimeline, At, Goto, devVars, tlVars, fenceVars, threadVars,
             TypeOK, Empties, TempPCs
    <2>3. QED
      BY <2>1, <2>2, TempKept DEF FreedIsDead
  <1>9. ASSUME NEW p \in Threads, kgsl_timeline_fence_alloc(p)
        PROVE  TempReached'
    <2>1. UNCHANGED temp
      BY <1>9
         DEF kgsl_timeline_fence_alloc, At, Goto, FreeFences, devVars, tlVars,
             fenceVars, threadVars
    <2>2. \A q \in Threads : pc'[q] \in {"s_scan", "s_signal"} =>
            Range(temp[q]) = {} \/ pc[q] \in {"s_scan", "s_signal"}
      BY <1>9
         DEF kgsl_timeline_fence_alloc, At, Goto, FreeFences, devVars, tlVars,
             fenceVars, threadVars, TypeOK, Empties, TempPCs
    <2>3. QED
      BY <2>1, <2>2, TempKept DEF FreedIsDead
  <1>10. ASSUME NEW p \in Threads, FenceAllocFails(p)
        PROVE  TempReached'
    <2>1. UNCHANGED temp
      BY <1>10
         DEF FenceAllocFails, At, Goto, devVars, tlVars, fenceVars, threadVars
    <2>2. \A q \in Threads : pc'[q] \in {"s_scan", "s_signal"} =>
            Range(temp[q]) = {} \/ pc[q] \in {"s_scan", "s_signal"}
      BY <1>10
         DEF FenceAllocFails, At, Goto, devVars, tlVars, fenceVars,
             threadVars, TypeOK, Empties, TempPCs
    <2>3. QED
      BY <2>1, <2>2, TempKept DEF FreedIsDead
  <1>11. ASSUME NEW p \in Threads, FenceLock(p)
        PROVE  TempReached'
    <2>1. UNCHANGED temp
      BY <1>11 DEF FenceLock, At, Goto, devVars, tlVars, fenceVars, threadVars
    <2>2. \A q \in Threads : pc'[q] \in {"s_scan", "s_signal"} =>
            Range(temp[q]) = {} \/ pc[q] \in {"s_scan", "s_signal"}
      BY <1>11
         DEF FenceLock, At, Goto, devVars, tlVars, fenceVars, threadVars,
             TypeOK, Empties, TempPCs
    <2>3. QED
      BY <2>1, <2>2, TempKept DEF FreedIsDead
  <1>12. ASSUME NEW p \in Threads, kgsl_timeline_add_fence(p)
        PROVE  TempReached'
    <2>1. UNCHANGED temp
      BY <1>12
         DEF kgsl_timeline_add_fence, At, Goto, devVars, tlVars, fenceVars,
             threadVars
    <2>2. \A q \in Threads : pc'[q] \in {"s_scan", "s_signal"} =>
            Range(temp[q]) = {} \/ pc[q] \in {"s_scan", "s_signal"}
      BY <1>12
         DEF kgsl_timeline_add_fence, At, Goto, devVars, tlVars, fenceVars,
             threadVars, TypeOK, Empties, TempPCs
    <2>3. QED
      BY <2>1, <2>2, TempKept DEF FreedIsDead
  <1>13. ASSUME NEW p \in Threads, WaitCollect(p)
        PROVE  TempReached'
    <2>1. UNCHANGED temp
      BY <1>13 DEF WaitCollect, At, Goto, devVars, tlVars, fenceVars, threadVars
    <2>2. \A q \in Threads : pc'[q] \in {"s_scan", "s_signal"} =>
            Range(temp[q]) = {} \/ pc[q] \in {"s_scan", "s_signal"}
      BY <1>13
         DEF WaitCollect, At, Goto, devVars, tlVars, fenceVars, threadVars,
             TypeOK, Empties, TempPCs
    <2>3. QED
      BY <2>1, <2>2, TempKept DEF FreedIsDead
  <1>14. ASSUME NEW p \in Threads, WaitStart(p)
        PROVE  TempReached'
    <2>1. UNCHANGED temp
      BY <1>14 DEF WaitStart, At, Goto, devVars, tlVars, fenceVars, threadVars
    <2>2. \A q \in Threads : pc'[q] \in {"s_scan", "s_signal"} =>
            Range(temp[q]) = {} \/ pc[q] \in {"s_scan", "s_signal"}
      BY <1>14
         DEF WaitStart, At, Goto, devVars, tlVars, fenceVars, threadVars,
             TypeOK, Empties, TempPCs
    <2>3. QED
      BY <2>1, <2>2, TempKept DEF FreedIsDead
  <1>15. ASSUME NEW p \in Threads, WaitReturn(p)
        PROVE  TempReached'
    <2>1. UNCHANGED temp
      BY <1>15 DEF WaitReturn, At, Goto, devVars, tlVars, fenceVars, threadVars
    <2>2. \A q \in Threads : pc'[q] \in {"s_scan", "s_signal"} =>
            Range(temp[q]) = {} \/ pc[q] \in {"s_scan", "s_signal"}
      BY <1>15
         DEF WaitReturn, At, Goto, devVars, tlVars, fenceVars, threadVars,
             TypeOK, Empties, TempPCs
    <2>3. QED
      BY <2>1, <2>2, TempKept DEF FreedIsDead
  <1>16. ASSUME NEW p \in Threads, WaitPut(p)
        PROVE  TempReached'
    <2>1. UNCHANGED temp
      BY <1>16 DEF WaitPut, At, Goto, devVars, tlVars, fenceVars, threadVars
    <2>2. \A q \in Threads : pc'[q] \in {"s_scan", "s_signal"} =>
            Range(temp[q]) = {} \/ pc[q] \in {"s_scan", "s_signal"}
      BY <1>16
         DEF WaitPut, At, Goto, devVars, tlVars, fenceVars, threadVars,
             TypeOK, Empties, TempPCs
    <2>3. QED
      BY <2>1, <2>2, TempKept DEF FreedIsDead
  <1>17. ASSUME NEW p \in Threads, FenceGetInstall(p)
        PROVE  TempReached'
    <2>1. UNCHANGED temp
      BY <1>17
         DEF FenceGetInstall, At, Goto, devVars, tlVars, fenceVars, threadVars
    <2>2. \A q \in Threads : pc'[q] \in {"s_scan", "s_signal"} =>
            Range(temp[q]) = {} \/ pc[q] \in {"s_scan", "s_signal"}
      BY <1>17
         DEF FenceGetInstall, At, Goto, devVars, tlVars, fenceVars,
             threadVars, TypeOK, Empties, TempPCs
    <2>3. QED
      BY <2>1, <2>2, TempKept DEF FreedIsDead
  <1>18. ASSUME NEW p \in Threads, kgsl_ioctl_timeline_fence_get(p)
        PROVE  TempReached'
    <2>1. UNCHANGED temp
      BY <1>18
         DEF kgsl_ioctl_timeline_fence_get, At, Goto, devVars, tlVars,
             fenceVars, threadVars
    <2>2. \A q \in Threads : pc'[q] \in {"s_scan", "s_signal"} =>
            Range(temp[q]) = {} \/ pc[q] \in {"s_scan", "s_signal"}
      BY <1>18
         DEF kgsl_ioctl_timeline_fence_get, At, Goto, devVars, tlVars,
             fenceVars, threadVars, TypeOK, Empties, TempPCs
    <2>3. QED
      BY <2>1, <2>2, TempKept DEF FreedIsDead
  <1>19. ASSUME NEW p \in Threads, timeline_fence_release(p)
        PROVE  TempReached'
    <2>1. UNCHANGED temp
      BY <1>19
         DEF timeline_fence_release, At, Goto, devVars, tlVars, fenceVars,
             threadVars
    <2>2. \A q \in Threads : pc'[q] \in {"s_scan", "s_signal"} =>
            Range(temp[q]) = {} \/ pc[q] \in {"s_scan", "s_signal"}
      BY <1>19
         DEF timeline_fence_release, At, Goto, devVars, tlVars, fenceVars,
             threadVars, TypeOK, Empties, TempPCs
    <2>3. QED
      BY <2>1, <2>2, TempKept DEF FreedIsDead
  <1>20. ASSUME NEW p \in Threads, DestroyScan(p)
        PROVE  TempReached'
    <2>1. UNCHANGED temp
      BY <1>20 DEF DestroyScan, At, Goto, devVars, tlVars, fenceVars, threadVars
    <2>2. \A q \in Threads : pc'[q] \in {"s_scan", "s_signal"} =>
            Range(temp[q]) = {} \/ pc[q] \in {"s_scan", "s_signal"}
      BY <1>20
         DEF DestroyScan, At, Goto, devVars, tlVars, fenceVars, threadVars,
             TypeOK, Empties, TempPCs
    <2>3. QED
      BY <2>1, <2>2, TempKept DEF FreedIsDead
  <1>21. ASSUME NEW p \in Threads, DestroyScanEnd(p)
        PROVE  TempReached'
    <2>1. pc' = [pc EXCEPT ![p] = "d_lock"]
      BY <1>21 DEF DestroyScanEnd, Goto
    <2>2. \A q \in Threads : q # p => Range(temp'[q]) = Range(temp[q])
      BY <1>21, DestroyScanEndShape
    <2>3. \A q \in Threads : pc'[q] \in {"s_scan", "s_signal"} => q # p /\ pc[q] = pc'[q]
      BY <2>1 DEF TypeOK
    <2>4. QED
      BY <2>2, <2>3, TempKept DEF FreedIsDead
  <1>22. ASSUME NEW p \in Threads, DestroyLock(p)
        PROVE  TempReached'
    <2>1. UNCHANGED temp
      BY <1>22 DEF DestroyLock, At, Goto, devVars, tlVars, fenceVars, threadVars
    <2>2. \A q \in Threads : pc'[q] \in {"s_scan", "s_signal"} =>
            Range(temp[q]) = {} \/ pc[q] \in {"s_scan", "s_signal"}
      BY <1>22
         DEF DestroyLock, At, Goto, devVars, tlVars, fenceVars, threadVars,
             TypeOK, Empties, TempPCs
    <2>3. QED
      BY <2>1, <2>2, TempKept DEF FreedIsDead
  <1>23. ASSUME NEW p \in Threads, DestroyFence(p)
        PROVE  TempReached'
    <2>1. temp[p] # <<>> /\ temp' = [temp EXCEPT ![p] = Tail(@)] /\ UNCHANGED pc
      BY <1>23 DEF DestroyFence
    <2>2. Without(temp, temp', Threads, p, Head(temp[p]))
      BY <2>1, PopShape
    <2>3. \A q \in Threads : Range(temp'[q]) \subseteq Range(temp[q])
      BY <2>2 DEF Without
    <2>4. QED
      BY <2>1, <2>3, TempKept DEF FreedIsDead
  <1>24. ASSUME NEW p \in Threads, kgsl_timeline_alloc(p)
        PROVE  TempReached'
    <2>1. UNCHANGED temp
      BY <1>24
         DEF kgsl_timeline_alloc, At, Goto, FreeTimelines, devVars, tlVars,
             fenceVars, threadVars
    <2>2. \A q \in Threads : pc'[q] \in {"s_scan", "s_signal"} =>
            Range(temp[q]) = {} \/ pc[q] \in {"s_scan", "s_signal"}
      BY <1>24
         DEF kgsl_timeline_alloc, At, Goto, FreeTimelines, devVars, tlVars,
             fenceVars, threadVars, TypeOK, Empties, TempPCs
    <2>3. QED
      BY <2>1, <2>2, TempKept DEF FreedIsDead
  <1>25. ASSUME NEW p \in Threads, kgsl_ioctl_timeline_signal(p)
        PROVE  TempReached'
    <2>1. UNCHANGED temp
      BY <1>25
         DEF kgsl_ioctl_timeline_signal, At, Goto, devVars, tlVars, fenceVars,
             threadVars
    <2>2. \A q \in Threads : pc'[q] \in {"s_scan", "s_signal"} =>
            Range(temp[q]) = {} \/ pc[q] \in {"s_scan", "s_signal"}
      BY <1>25
         DEF kgsl_ioctl_timeline_signal, At, Goto, devVars, tlVars, fenceVars,
             threadVars, TypeOK, Empties, TempPCs
    <2>3. QED
      BY <2>1, <2>2, TempKept DEF FreedIsDead
  <1>26. ASSUME NEW p \in Threads, FenceLookup(p)
        PROVE  TempReached'
    <2>1. UNCHANGED temp
      BY <1>26 DEF FenceLookup, At, Goto, devVars, tlVars, fenceVars, threadVars
    <2>2. \A q \in Threads : pc'[q] \in {"s_scan", "s_signal"} =>
            Range(temp[q]) = {} \/ pc[q] \in {"s_scan", "s_signal"}
      BY <1>26
         DEF FenceLookup, At, Goto, devVars, tlVars, fenceVars, threadVars,
             TypeOK, Empties, TempPCs
    <2>3. QED
      BY <2>1, <2>2, TempKept DEF FreedIsDead
  <1>27. ASSUME NEW p \in Threads, WaitError(p)
        PROVE  TempReached'
    <2>1. UNCHANGED temp
      BY <1>27 DEF WaitError, At, Goto, devVars, tlVars, fenceVars, threadVars
    <2>2. \A q \in Threads : pc'[q] \in {"s_scan", "s_signal"} =>
            Range(temp[q]) = {} \/ pc[q] \in {"s_scan", "s_signal"}
      BY <1>27
         DEF WaitError, At, Goto, devVars, tlVars, fenceVars, threadVars,
             TypeOK, Empties, TempPCs
    <2>3. QED
      BY <2>1, <2>2, TempKept DEF FreedIsDead
  <1>28. ASSUME NEW p \in Threads, WaitTimeout(p)
        PROVE  TempReached'
    <2>1. UNCHANGED temp
      BY <1>28 DEF WaitTimeout, At, Goto, devVars, tlVars, fenceVars, threadVars
    <2>2. \A q \in Threads : pc'[q] \in {"s_scan", "s_signal"} =>
            Range(temp[q]) = {} \/ pc[q] \in {"s_scan", "s_signal"}
      BY <1>28
         DEF WaitTimeout, At, Goto, devVars, tlVars, fenceVars, threadVars,
             TypeOK, Empties, TempPCs
    <2>3. QED
      BY <2>1, <2>2, TempKept DEF FreedIsDead
  <1>29. ASSUME NEW p \in Threads, CloseFd(p)
        PROVE  TempReached'
    <2>1. UNCHANGED temp
      BY <1>29 DEF CloseFd, At, Goto, devVars, tlVars, fenceVars, threadVars
    <2>2. \A q \in Threads : pc'[q] \in {"s_scan", "s_signal"} =>
            Range(temp[q]) = {} \/ pc[q] \in {"s_scan", "s_signal"}
      BY <1>29
         DEF CloseFd, At, Goto, devVars, tlVars, fenceVars, threadVars,
             TypeOK, Empties, TempPCs
    <2>3. QED
      BY <2>1, <2>2, TempKept DEF FreedIsDead
  <1>30. ASSUME NEW p \in Threads, kgsl_ioctl_timeline_query(p)
        PROVE  TempReached'
    <2>1. UNCHANGED temp
      BY <1>30
         DEF kgsl_ioctl_timeline_query, At, Goto, devVars, tlVars, fenceVars,
             threadVars
    <2>2. \A q \in Threads : pc'[q] \in {"s_scan", "s_signal"} =>
            Range(temp[q]) = {} \/ pc[q] \in {"s_scan", "s_signal"}
      BY <1>30
         DEF kgsl_ioctl_timeline_query, At, Goto, devVars, tlVars, fenceVars,
             threadVars, TypeOK, Empties, TempPCs
    <2>3. QED
      BY <2>1, <2>2, TempKept DEF FreedIsDead
  <1>31. ASSUME NEW p \in Threads, kgsl_ioctl_timeline_destroy(p)
        PROVE  TempReached'
    <2>1. UNCHANGED temp
      BY <1>31
         DEF kgsl_ioctl_timeline_destroy, At, Goto, devVars, tlVars,
             fenceVars, threadVars
    <2>2. \A q \in Threads : pc'[q] \in {"s_scan", "s_signal"} =>
            Range(temp[q]) = {} \/ pc[q] \in {"s_scan", "s_signal"}
      BY <1>31
         DEF kgsl_ioctl_timeline_destroy, At, Goto, devVars, tlVars,
             fenceVars, threadVars, TypeOK, Empties, TempPCs
    <2>3. QED
      BY <2>1, <2>2, TempKept DEF FreedIsDead
  <1>32. ASSUME NEW f \in Fences, Poll(f)
        PROVE  TempReached'
    <2>1. UNCHANGED temp
      BY <1>32 DEF Poll, At, Goto, devVars, tlVars, fenceVars, threadVars
    <2>2. \A q \in Threads : pc'[q] \in {"s_scan", "s_signal"} =>
            Range(temp[q]) = {} \/ pc[q] \in {"s_scan", "s_signal"}
      BY <1>32
         DEF Poll, At, Goto, devVars, tlVars, fenceVars, threadVars, TypeOK,
             Empties, TempPCs
    <2>3. QED
      BY <2>1, <2>2, TempKept DEF FreedIsDead
  <1>33. CASE UNCHANGED vars
    <2>1. UNCHANGED <<pc, temp>>
      BY <1>33 DEF vars, threadVars
    <2>2. QED
      BY <2>1, TempKept DEF FreedIsDead
  <1>34. QED
    BY <1>1, <1>2, <1>3, <1>4, <1>5, <1>6, <1>7, <1>8, <1>9, <1>10, <1>11,
       <1>12, <1>13, <1>14, <1>15, <1>16, <1>17, <1>18, <1>19, <1>20, <1>21,
       <1>22, <1>23, <1>24, <1>25, <1>26, <1>27, <1>28, <1>29, <1>30, <1>31,
       <1>32, <1>33
       DEF Next, Step, Choose

\* A fence fires without an error only when its number is reached, and with
\* one only when the id is gone.
LEMMA FiredStep ==
    ASSUME TypeOK, Control, Locks, Lists, Allocs, Releases, Users, Empties,
           TypeOK', IdsKept, FencesKept, FreedIsDead, TempReached, \A h \in
           Fences : Fired(h), [Next]_vars
    PROVE  \A h \in Fences : Fired(h)'
  <1>1. ASSUME NEW p \in Threads, kgsl_ioctl_timeline_create(p)
        PROVE  \A h \in Fences : Fired(h)'
    <2>1. UNCHANGED <<ftl, sig, err>> /\ idr' = [idr EXCEPT ![tid[tl[p]]] = tl[p]]
      BY <1>1 DEF kgsl_ioctl_timeline_create, fenceVars
    <2>2. \A g \in Fences : ftl[g] # tl[p]
      BY <1>1 DEF kgsl_ioctl_timeline_create, At, IdsKept
    <2>3. \A g \in Fences, id \in Ids : idr'[id] = ftl[g] => idr[id] = ftl[g]
      BY <2>1, <2>2 DEF TypeOK
    <2>4. QED
      BY <2>1, <2>3, FiredSame
  <1>2. ASSUME NEW p \in Threads, SignalLock(p)
        PROVE  \A h \in Fences : Fired(h)'
    <2>1. UNCHANGED <<ftl, sig, err, idr>>
      BY <1>2 DEF SignalLock, devVars, tlVars, fenceVars, threadVars
    <2>2. QED
      BY <2>1, FiredSame
  <1>3. ASSUME NEW p \in Threads, ScanLock(p)
        PROVE  \A h \in Fences : Fired(h)'
    <2>1. UNCHANGED <<ftl, sig, err, idr>>
      BY <1>3 DEF ScanLock, devVars, tlVars, fenceVars, threadVars
    <2>2. QED
      BY <2>1, FiredSame
  <1>4. ASSUME NEW p \in Threads, SignalScan(p)
        PROVE  \A h \in Fences : Fired(h)'
    <2>1. UNCHANGED <<ftl, sig, err, idr>>
      BY <1>4 DEF SignalScan, devVars, tlVars, fenceVars, threadVars
    <2>2. QED
      BY <2>1, FiredSame
  <1>5. ASSUME NEW p \in Threads, SignalScanEnd(p)
        PROVE  \A h \in Fences : Fired(h)'
    <2>1. UNCHANGED <<ftl, sig, err, idr>>
      BY <1>5 DEF SignalScanEnd, devVars, tlVars, fenceVars, threadVars
    <2>2. QED
      BY <2>1, FiredSame
  <1>6. ASSUME NEW p \in Threads, SignalFence(p)
        PROVE  \A h \in Fences : Fired(h)'
    <2>0. PICK f \in Fences : f = Head(temp[p]) /\ f \in Range(temp[p])
      BY <1>6, PopShape DEF SignalFence
    <2>1. UNCHANGED <<ftl, err, idr>> /\ sig' = [sig EXCEPT ![f] = TRUE]
      BY <1>6, <2>0 DEF SignalFence, devVars
    <2>2. f \in Range(temp[p])
      BY <2>0
    <2>3. timeline_fence_signaled(f)
      BY <1>6, <2>2 DEF SignalFence, At, TempReached, timeline_fence_signaled
    <2>4. ftl[f] # None
      BY <2>2 DEF Users, ScanRefs, Releases

    <2>5. sig'[f] /\ \A h \in Fences : h # f => sig'[h] = sig[h]
      BY <2>1, <2>2, <2>3, <2>4 DEF TypeOK
    <2>6. Fired(f)'
      BY <2>1, <2>2, <2>3, <2>4, <2>5, FiredSignal
    <2>7. \A h \in Fences : h # f => Fired(h)'
      BY <2>1, <2>5, FiredSame
    <2>8. QED
      BY <2>6, <2>7
  <1>7. ASSUME NEW p \in Threads, SignalUnlock(p)
        PROVE  \A h \in Fences : Fired(h)'
    <2>1. UNCHANGED <<ftl, sig, err, idr>>
      BY <1>7 DEF SignalUnlock, devVars, tlVars, fenceVars, threadVars
    <2>2. QED
      BY <2>1, FiredSame
  <1>8. ASSUME NEW p \in Threads, PutTimeline(p)
        PROVE  \A h \in Fences : Fired(h)'
    <2>1. UNCHANGED <<ftl, sig, err, idr>>
      BY <1>8 DEF PutTimeline, devVars, tlVars, fenceVars, threadVars
    <2>2. QED
      BY <2>1, FiredSame
  <1>9. ASSUME NEW p \in Threads, kgsl_timeline_fence_alloc(p)
        PROVE  \A h \in Fences : Fired(h)'
    <2>1. PICK g \in Fences : /\ ftl[g] = None /\ ftl' = [ftl EXCEPT ![g] = tl[p]]
                              /\ sig' = [sig EXCEPT ![g] = FALSE]
                              /\ err' = [err EXCEPT ![g] = FALSE]
      BY <1>9 DEF kgsl_timeline_fence_alloc, FreeFences
    <2>2. UNCHANGED idr
      BY <1>9 DEF kgsl_timeline_fence_alloc, devVars
    <2>3. ~sig'[g] /\ ~err'[g]
      BY <2>1 DEF TypeOK
    <2>4. Fired(g)'
      BY <2>3, Zenon DEF Fired
    <2>5. \A h \in Fences : h # g => ftl'[h] = ftl[h] /\ sig'[h] = sig[h] /\ err'[h] = err[h]
      BY <2>1 DEF TypeOK
    <2>6. \A h \in Fences : h # g => Fired(h)'
      BY <2>2, <2>5, FiredSame
    <2>7. QED
      BY <2>4, <2>6
  <1>10. ASSUME NEW p \in Threads, FenceAllocFails(p)
        PROVE  \A h \in Fences : Fired(h)'
    <2>1. UNCHANGED <<ftl, sig, err, idr>>
      BY <1>10 DEF FenceAllocFails, devVars, tlVars, fenceVars, threadVars
    <2>2. QED
      BY <2>1, FiredSame
  <1>11. ASSUME NEW p \in Threads, FenceLock(p)
        PROVE  \A h \in Fences : Fired(h)'
    <2>0. /\ cur[p] \in Fences /\ ftl[cur[p]] # None
      <3>1. cur[p] # None /\ tl[p] # None
        BY <1>11 DEF FenceLock, At, Control, AllocPCs, FreePCs
      <3>2. QED
        BY <3>1 DEF TypeOK, Allocs
    <2>1. UNCHANGED <<ftl, err, idr>>
      BY <1>11 DEF FenceLock, devVars
    <2>2. PICK f \in Fences : f = cur[p] /\ ftl[f] # None
      BY <2>0
    <2>3. CASE UNCHANGED sig
      BY <2>1, <2>3, FiredSame
    <2>4. CASE timeline_fence_signaled(f) /\ sig' = [sig EXCEPT ![f] = TRUE]
      <3>1. sig'[f] /\ \A h \in Fences : h # f => sig'[h] = sig[h]
        BY <2>2, <2>4 DEF TypeOK
      <3>2. Fired(f)'
        BY <2>1, <2>2, <2>4, <3>1, FiredSignal
      <3>3. \A h \in Fences : h # f => Fired(h)'
        BY <2>1, <3>1, FiredSame
      <3>4. QED
        BY <3>2, <3>3
    <2>5. QED
      BY <1>11, <2>2, <2>3, <2>4 DEF FenceLock
  <1>12. ASSUME NEW p \in Threads, kgsl_timeline_add_fence(p)
        PROVE  \A h \in Fences : Fired(h)'
    <2>1. UNCHANGED <<ftl, sig, err, idr>>
      BY <1>12
         DEF kgsl_timeline_add_fence, devVars, tlVars, fenceVars, threadVars
    <2>2. QED
      BY <2>1, FiredSame
  <1>13. ASSUME NEW p \in Threads, WaitCollect(p)
        PROVE  \A h \in Fences : Fired(h)'
    <2>1. UNCHANGED <<ftl, sig, err, idr>>
      BY <1>13 DEF WaitCollect, devVars, tlVars, fenceVars, threadVars
    <2>2. QED
      BY <2>1, FiredSame
  <1>14. ASSUME NEW p \in Threads, WaitStart(p)
        PROVE  \A h \in Fences : Fired(h)'
    <2>1. UNCHANGED <<ftl, sig, err, idr>>
      BY <1>14 DEF WaitStart, devVars, tlVars, fenceVars, threadVars
    <2>2. QED
      BY <2>1, FiredSame
  <1>15. ASSUME NEW p \in Threads, WaitReturn(p)
        PROVE  \A h \in Fences : Fired(h)'
    <2>1. UNCHANGED <<ftl, sig, err, idr>>
      BY <1>15 DEF WaitReturn, devVars, tlVars, fenceVars, threadVars
    <2>2. QED
      BY <2>1, FiredSame
  <1>16. ASSUME NEW p \in Threads, WaitPut(p)
        PROVE  \A h \in Fences : Fired(h)'
    <2>1. UNCHANGED <<ftl, sig, err, idr>>
      BY <1>16 DEF WaitPut, devVars, tlVars, fenceVars, threadVars
    <2>2. QED
      BY <2>1, FiredSame
  <1>17. ASSUME NEW p \in Threads, FenceGetInstall(p)
        PROVE  \A h \in Fences : Fired(h)'
    <2>1. UNCHANGED <<ftl, sig, err, idr>>
      BY <1>17 DEF FenceGetInstall, devVars, tlVars, fenceVars, threadVars
    <2>2. QED
      BY <2>1, FiredSame
  <1>18. ASSUME NEW p \in Threads, kgsl_ioctl_timeline_fence_get(p)
        PROVE  \A h \in Fences : Fired(h)'
    <2>1. UNCHANGED <<ftl, sig, err, idr>>
      BY <1>18
         DEF kgsl_ioctl_timeline_fence_get, devVars, tlVars, fenceVars,
             threadVars
    <2>2. QED
      BY <2>1, FiredSame
  <1>19. ASSUME NEW p \in Threads, timeline_fence_release(p)
        PROVE  \A h \in Fences : Fired(h)'
    <2>1. /\ UNCHANGED idr /\ ftl' = [ftl EXCEPT ![rel[p]] = None]
          /\ sig' = [sig EXCEPT ![rel[p]] = FALSE] /\ err' = [err EXCEPT ![rel[p]] = FALSE]
      BY <1>19 DEF timeline_fence_release, devVars
    <2>2. rel[p] \in Fences
      BY <1>19, ReleaseShape
    <2>3. \A h \in Fences : ftl'[h] # None =>
            ftl'[h] = ftl[h] /\ sig'[h] = sig[h] /\ err'[h] = err[h]
      BY <2>1, <2>2 DEF TypeOK
    <2>4. QED
      BY <2>1, <2>3, FiredSame
  <1>20. ASSUME NEW p \in Threads, DestroyScan(p)
        PROVE  \A h \in Fences : Fired(h)'
    <2>1. UNCHANGED <<ftl, sig, err, idr>>
      BY <1>20 DEF DestroyScan, devVars, tlVars, fenceVars, threadVars
    <2>2. QED
      BY <2>1, FiredSame
  <1>21. ASSUME NEW p \in Threads, DestroyScanEnd(p)
        PROVE  \A h \in Fences : Fired(h)'
    <2>1. UNCHANGED <<ftl, sig, err, idr>>
      BY <1>21 DEF DestroyScanEnd, devVars, tlVars, fenceVars, threadVars
    <2>2. QED
      BY <2>1, FiredSame
  <1>22. ASSUME NEW p \in Threads, DestroyLock(p)
        PROVE  \A h \in Fences : Fired(h)'
    <2>1. UNCHANGED <<ftl, sig, err, idr>>
      BY <1>22 DEF DestroyLock, devVars, tlVars, fenceVars, threadVars
    <2>2. QED
      BY <2>1, FiredSame
  <1>23. ASSUME NEW p \in Threads, DestroyFence(p)
        PROVE  \A h \in Fences : Fired(h)'
    <2>0. PICK f \in Fences : f = Head(temp[p]) /\ f \in Range(temp[p])
      BY <1>23, PopShape DEF DestroyFence
    <2>1. /\ UNCHANGED <<ftl, idr>> /\ sig' = [sig EXCEPT ![f] = TRUE]
          /\ err' = [err EXCEPT ![f] = TRUE]
      BY <1>23, <2>0 DEF DestroyFence, devVars
    <2>2. f \in Range(temp[p])
      BY <2>0
    <2>3. ftl[f] = tl[p]
      BY <2>2 DEF Lists, ListSets
    <2>4. \A id \in Ids : idr[id] # ftl[f]
      BY <1>23, <2>3 DEF DestroyFence, At, IdsKept, DestroyPCs
    <2>5. /\ sig'[f] /\ err'[f]
          /\ \A h \in Fences : h # f => sig'[h] = sig[h] /\ err'[h] = err[h]
      BY <2>1, <2>2 DEF TypeOK
    <2>6. Fired(f)'
      BY <2>1, <2>4, <2>5, Zenon DEF Fired
    <2>7. \A h \in Fences : h # f => Fired(h)'
      BY <2>1, <2>5, FiredSame
    <2>8. QED
      BY <2>6, <2>7
  <1>24. ASSUME NEW p \in Threads, kgsl_timeline_alloc(p)
        PROVE  \A h \in Fences : Fired(h)'
    <2>1. UNCHANGED <<ftl, sig, err>> /\ \E i \in Ids : idr' = [idr EXCEPT ![i] = Reserved]
      BY <1>24 DEF kgsl_timeline_alloc, fenceVars
    <2>2. \A g \in Fences : ftl[g] # Reserved
      BY TimelineAssumption DEF TypeOK
    <2>3. \A g \in Fences, id \in Ids : idr'[id] = ftl[g] => idr[id] = ftl[g]
      BY <2>1, <2>2 DEF TypeOK
    <2>4. QED
      BY <2>1, <2>3, FiredSame
  <1>25. ASSUME NEW p \in Threads, kgsl_ioctl_timeline_signal(p)
        PROVE  \A h \in Fences : Fired(h)'
    <2>1. UNCHANGED <<ftl, sig, err, idr>>
      BY <1>25
         DEF kgsl_ioctl_timeline_signal, devVars, tlVars, fenceVars,
             threadVars
    <2>2. QED
      BY <2>1, FiredSame
  <1>26. ASSUME NEW p \in Threads, FenceLookup(p)
        PROVE  \A h \in Fences : Fired(h)'
    <2>1. UNCHANGED <<ftl, sig, err, idr>>
      BY <1>26 DEF FenceLookup, devVars, tlVars, fenceVars, threadVars
    <2>2. QED
      BY <2>1, FiredSame
  <1>27. ASSUME NEW p \in Threads, WaitError(p)
        PROVE  \A h \in Fences : Fired(h)'
    <2>1. UNCHANGED <<ftl, sig, err, idr>>
      BY <1>27 DEF WaitError, devVars, tlVars, fenceVars, threadVars
    <2>2. QED
      BY <2>1, FiredSame
  <1>28. ASSUME NEW p \in Threads, WaitTimeout(p)
        PROVE  \A h \in Fences : Fired(h)'
    <2>1. UNCHANGED <<ftl, sig, err, idr>>
      BY <1>28 DEF WaitTimeout, devVars, tlVars, fenceVars, threadVars
    <2>2. QED
      BY <2>1, FiredSame
  <1>29. ASSUME NEW p \in Threads, CloseFd(p)
        PROVE  \A h \in Fences : Fired(h)'
    <2>1. UNCHANGED <<ftl, sig, err, idr>>
      BY <1>29 DEF CloseFd, devVars, tlVars, fenceVars, threadVars
    <2>2. QED
      BY <2>1, FiredSame
  <1>30. ASSUME NEW p \in Threads, kgsl_ioctl_timeline_query(p)
        PROVE  \A h \in Fences : Fired(h)'
    <2>1. UNCHANGED <<ftl, sig, err, idr>>
      BY <1>30
         DEF kgsl_ioctl_timeline_query, devVars, tlVars, fenceVars, threadVars
    <2>2. QED
      BY <2>1, FiredSame
  <1>31. ASSUME NEW p \in Threads, kgsl_ioctl_timeline_destroy(p)
        PROVE  \A h \in Fences : Fired(h)'
    <2>1. UNCHANGED <<ftl, sig, err>> /\ \E i \in Ids : idr' = [idr EXCEPT ![i] = None]
      BY <1>31 DEF kgsl_ioctl_timeline_destroy, fenceVars
    <2>2. \A g \in Fences, id \in Ids : ftl[g] # None /\ idr'[id] = ftl[g] => idr[id] = ftl[g]
      BY <2>1 DEF TypeOK
    <2>3. QED
      BY <2>1, <2>2, FiredSame
  <1>32. ASSUME NEW f \in Fences, Poll(f)
        PROVE  \A h \in Fences : Fired(h)'
    <2>1. UNCHANGED <<ftl, err, idr>> /\ sig' = [sig EXCEPT ![f] = TRUE]
      BY <1>32 DEF Poll, devVars
    <2>2. timeline_fence_signaled(f)
      BY <1>32 DEF Poll
    <2>3. ftl[f] # None
      BY <1>32 DEF Poll, Pollable, Users, Releases

    <2>4. sig'[f] /\ \A h \in Fences : h # f => sig'[h] = sig[h]
      BY <2>1, <2>2, <2>3 DEF TypeOK
    <2>5. Fired(f)'
      BY <2>1, <2>2, <2>3, <2>4, FiredSignal
    <2>6. \A h \in Fences : h # f => Fired(h)'
      BY <2>1, <2>4, FiredSame
    <2>7. QED
      BY <2>5, <2>6
  <1>33. CASE UNCHANGED vars
    <2>1. UNCHANGED <<ftl, sig, err, idr>>
      BY <1>33 DEF vars, devVars, tlVars, fenceVars, threadVars
    <2>2. QED
      BY <2>1, FiredSame
  <1>34. QED
    BY <1>1, <1>2, <1>3, <1>4, <1>5, <1>6, <1>7, <1>8, <1>9, <1>10, <1>11,
       <1>12, <1>13, <1>14, <1>15, <1>16, <1>17, <1>18, <1>19, <1>20, <1>21,
       <1>22, <1>23, <1>24, <1>25, <1>26, <1>27, <1>28, <1>29, <1>30, <1>31,
       <1>32, <1>33
       DEF Next, Step, Choose


\* Every step keeps Reached.
LEMMA ReachedStep ==
    ASSUME TypeOK, TypeOK', Control, Locks, Lists, Allocs, Releases, Users, Empties,
           IdsKept, Reached, [Next]_vars
    PROVE  Reached'
  <1>1. FencesKept /\ FreedIsDead
    BY FencesKeptStep, FreedIsDeadStep
  <1>2. (\A f \in Fences : Fired(f)) /\ TempReached
    BY ReachedParts
  <1>3. TempReached'
    BY <1>1, <1>2, TempReachedStep
  <1>4. \A f \in Fences : Fired(f)'
    BY <1>1, <1>2, FiredStep
  <1>5. QED
    BY <1>3, <1>4, ReachedPartsPrime

\* What keeps a fence that has not signaled from being forgotten: its place,
\* and the thread that owes it the signal once its number is reached.
Live(f) == ftl[f] # None /\ fref[f] > 0 /\ ~sig[f]

\* The thread q has f in its hands.
PlacedBy(q, f) ==
    \/ f \in Range(temp[q])
    \/ cur[q] = f /\ pc[q] \in {"f_lock", "f_add"}

\* The thread q is going to signal f once it is reached.
OwedBy(q, f) ==
    \/ pc[q] = "f_lock" /\ cur[q] = f
    \/ f \in Range(temp[q])
    \/ pc[q] = "s_scan_lock" /\ f \in Range(fences[tl[q]])
    \/ /\ pc[q] = "s_scan"
       /\ \E i \in idx[q] .. Len(fences[tl[q]]) : fences[tl[q]][i] = f

\* A fence that waits has a place, and its signal is owed once it is reached.
Cover(f) ==
    Live(f) =>
        /\ f \in Range(fences[ftl[f]]) \/ \E q \in Threads : PlacedBy(q, f)
        /\ timeline_fence_signaled(f) => \E q \in Threads : OwedBy(q, f)

\* A fence is added only when it is still to come.
Adding == \A q \in Threads : pc[q] = "f_add" => ~timeline_fence_signaled(cur[q])

\* The parts of Covered.
LEMMA CoveredParts == Covered <=> (\A f \in Fences : Cover(f)) /\ Adding
  BY
     DEF Covered, NoLostSignal, SignalOwed, Cover, Live, PlacedBy, OwedBy,
         Adding

\* The same in the next state.
LEMMA CoveredPartsPrime ==
    ASSUME \A f \in Fences : Cover(f)', Adding'
    PROVE  Covered'
  BY
     DEF Covered, NoLostSignal, SignalOwed, Cover, Live, PlacedBy, OwedBy,
         Adding

\* Only p moves.
Alone(p) ==
    \A q \in Threads : q # p =>
        /\ pc'[q] = pc[q] /\ tl'[q] = tl[q] /\ cur'[q] = cur[q]
        /\ idx'[q] = idx[q] /\ temp'[q] = temp[q]

\* A step of p that takes f off no list, and disturbs no other scan.
ListedStays(p, f) ==
    /\ \A t \in Timelines : f \in Range(fences[t]) => f \in Range(fences'[t])
    /\ \A q \in Threads : q # p /\ pc[q] = "s_scan" => fences'[tl[q]] = fences[tl[q]]

\* Such a step of p, which itself forgets nothing, keeps f covered.
LEMMA CoverMove ==
    ASSUME TypeOK, Control, Steady, NEW p \in Threads, NEW f \in Fences, Cover(f),
           Live(f)' => Live(f), Alone(p), ListedStays(p, f),
           PlacedBy(p, f) => f \in Range(fences'[ftl[f]]) \/ PlacedBy(p, f)',
           timeline_fence_signaled(f) /\ OwedBy(p, f) => OwedBy(p, f)'
    PROVE  Cover(f)'
  <1>1. SUFFICES ASSUME Live(f)'
                 PROVE  /\ f \in Range(fences'[ftl'[f]]) \/ \E q \in Threads : PlacedBy(q, f)'
                        /\ timeline_fence_signaled(f)' => \E q \in Threads : OwedBy(q, f)'
    BY DEF Cover
  <1>2. /\ Live(f) /\ ftl'[f] = ftl[f] /\ ftl[f] \in Timelines
        /\ timeline_fence_signaled(f)' <=> timeline_fence_signaled(f)
    BY <1>1 DEF Live, Steady, timeline_fence_signaled, TypeOK
  <1>3. \A q \in Threads : q # p /\ PlacedBy(q, f) => PlacedBy(q, f)'
    BY DEF PlacedBy, Alone
  <1>4. \A q \in Threads : q # p /\ OwedBy(q, f) => OwedBy(q, f)'
    <2>1. SUFFICES ASSUME NEW q \in Threads, q # p, OwedBy(q, f)
                   PROVE  OwedBy(q, f)'
      OBVIOUS
    <2>2. /\ pc'[q] = pc[q] /\ tl'[q] = tl[q] /\ cur'[q] = cur[q]
          /\ idx'[q] = idx[q] /\ temp'[q] = temp[q]
      BY <2>1 DEF Alone
    <2>3. CASE pc[q] = "s_scan_lock" /\ f \in Range(fences[tl[q]])
      <3>1. tl[q] \in Timelines
        BY <2>3 DEF Control, FreePCs, TypeOK
      <3>2. QED
        BY <2>2, <2>3, <3>1 DEF ListedStays, OwedBy
    <2>4. CASE pc[q] = "s_scan"
      <3>1. fences'[tl[q]] = fences[tl[q]]
        BY <2>1, <2>4 DEF ListedStays
      <3>2. QED
        BY <2>1, <2>2, <3>1 DEF OwedBy
    <2>5. CASE f \in Range(temp[q]) \/ (pc[q] = "f_lock" /\ cur[q] = f)
      BY <2>2, <2>5 DEF OwedBy
    <2>6. QED
      BY <2>1, <2>3, <2>4, <2>5 DEF OwedBy
  <1>5. f \in Range(fences'[ftl'[f]]) \/ \E q \in Threads : PlacedBy(q, f)'
    <2>1. CASE f \in Range(fences[ftl[f]])
      BY <1>2, <2>1 DEF ListedStays
    <2>2. CASE \E q \in Threads : PlacedBy(q, f)
      BY <1>2, <1>3, <2>2
    <2>3. QED
      BY <1>2, <2>1, <2>2 DEF Cover
  <1>6. timeline_fence_signaled(f)' => \E q \in Threads : OwedBy(q, f)'
    BY <1>2, <1>4 DEF Cover
  <1>7. QED
    BY <1>5, <1>6

\* The same when no list changes.
LEMMA CoverIdle ==
    ASSUME TypeOK, Control, Steady, NEW p \in Threads, NEW f \in Fences, Cover(f),
           Live(f)' => Live(f), Alone(p), UNCHANGED fences,
           PlacedBy(p, f) => PlacedBy(p, f)', OwedBy(p, f) => OwedBy(p, f)'
    PROVE  Cover(f)'
  <1>1. ListedStays(p, f)
    BY DEF ListedStays
  <1>2. QED
    BY <1>1, CoverMove

\* A thread outside signal and destroy that allocates no fence owes nothing.
LEMMA OwesNothing ==
    ASSUME Empties, NEW p \in Threads, NEW f,
           pc[p] \notin TempPCs \cup {"f_lock", "f_add", "s_scan_lock"}
    PROVE  ~PlacedBy(p, f) /\ ~OwedBy(p, f)
  BY DEF Empties, PlacedBy, OwedBy, TempPCs

\* A step that pins and puts fences, and perhaps signals some.
LEMMA LiveBefore ==
    ASSUME UNCHANGED ftl, \A h \in Fences : fref'[h] > 0 => fref[h] > 0,
           \A h \in Fences : sig[h] => sig'[h]
    PROVE  \A h \in Fences : Live(h)' => Live(h)
  BY DEF Live

\* A put brings no fence back to life.
LEMMA PutKills ==
    ASSUME TypeOK, NEW p, NEW g \in Fences, dma_fence_put(p, g), NEW h \in Fences
    PROVE  fref'[h] > 0 => fref[h] > 0
  <1>1. fref'[h] = IF h = g THEN fref[h] - 1 ELSE fref[h]
    BY DEF dma_fence_put, TypeOK
  <1>2. fref[h] \in Nat
    BY DEF TypeOK
  <1>3. QED
    BY <1>1, <1>2

\* Nor does a pin, which needs a reference that is not 0.
LEMMA PinFinds ==
    ASSUME TypeOK, NEW g \in Fences, fref[g] > 0, fref' = [fref EXCEPT ![g] = @ + 1],
           NEW h \in Fences
    PROVE  fref'[h] > 0 => fref[h] > 0
  BY DEF TypeOK

\* A thread that scans the list of t is the only one inside fence_lock.
LEMMA ScanIsOne ==
    ASSUME TypeOK, Control, Locks, NEW p \in Threads, NEW q \in Threads,
           pc[p] \in ScanPCs, pc[q] \in ScanPCs, tl[p] = tl[q]
    PROVE  p = q
  <1>1. tl[p] \in Timelines
    BY DEF Control, ScanPCs, FreePCs, TypeOK
  <1>2. fence_lock[tl[p]] = p /\ fence_lock[tl[p]] = q
    BY <1>1 DEF Locks
  <1>3. QED
    BY <1>2

\* Every step but the one that changes the value keeps the fences covered.
LEMMA CoverStep ==
    ASSUME TypeOK, Control, Locks, Lists, Allocs, Releases, Users, Empties,
           TypeOK', Steady, \A h \in Fences : Cover(h), Adding, [Next]_vars
    PROVE  \A h \in Fences : Cover(h)'
  <1>1. ASSUME NEW p \in Threads, kgsl_ioctl_timeline_create(p)
        PROVE  \A h \in Fences : Cover(h)'
    <2>1. UNCHANGED fences /\ Alone(p)
      BY <1>1
         DEF kgsl_ioctl_timeline_create, devVars, tlVars, fenceVars,
             threadVars, Goto, kgsl_timeline_by_id, Alone, TypeOK
    <2>2. ASSUME NEW h \in Fences
          PROVE  Live(h)' => Live(h)
      BY <1>1
         DEF kgsl_ioctl_timeline_create, devVars, tlVars, fenceVars,
             threadVars, Live
    <2>3. pc[p] \notin TempPCs \cup {"f_lock", "f_add", "s_scan_lock"}
      BY <1>1 DEF kgsl_ioctl_timeline_create, At, TempPCs
    <2>4. ASSUME NEW h \in Fences
          PROVE  ~PlacedBy(p, h) /\ ~OwedBy(p, h)
      BY <2>3, OwesNothing
    <2>5. QED
      BY <2>1, <2>2, <2>4, CoverIdle
  <1>2. ASSUME NEW p \in Threads, SignalLock(p)
        PROVE  \A h \in Fences : Cover(h)'
    <2>1. UNCHANGED fences /\ Alone(p)
      BY <1>2
         DEF SignalLock, devVars, tlVars, fenceVars, threadVars, Goto,
             kgsl_timeline_by_id, Alone, TypeOK
    <2>2. ASSUME NEW h \in Fences
          PROVE  Live(h)' => Live(h)
      BY <1>2 DEF SignalLock, devVars, tlVars, fenceVars, threadVars, Live
    <2>3. pc[p] \notin TempPCs \cup {"f_lock", "f_add", "s_scan_lock"}
      BY <1>2 DEF SignalLock, At, TempPCs
    <2>4. ASSUME NEW h \in Fences
          PROVE  ~PlacedBy(p, h) /\ ~OwedBy(p, h)
      BY <2>3, OwesNothing
    <2>5. QED
      BY <2>1, <2>2, <2>4, CoverIdle
  <1>3. ASSUME NEW p \in Threads, ScanLock(p)
        PROVE  \A h \in Fences : Cover(h)'
    <2>1. UNCHANGED fences /\ Alone(p)
      BY <1>3 DEF ScanLock, Goto, Alone, TypeOK
    <2>2. \A h \in Fences : Live(h)' => Live(h)
      BY <1>3 DEF ScanLock, fenceVars, Live
    <2>3. Range(temp[p]) = {} /\ pc[p] \in {"s_scan_lock", "d_scan_lock"}
      BY <1>3 DEF ScanLock, At, Empties, TempPCs
    <2>4. \A h \in Fences : ~PlacedBy(p, h)
      BY <2>3 DEF PlacedBy
    <2>5. ASSUME NEW h \in Fences, OwedBy(p, h)
          PROVE  OwedBy(p, h)'
      <3>1. pc[p] = "s_scan_lock" /\ h \in Range(fences[tl[p]])
        BY <2>3, <2>5 DEF OwedBy
      <3>2. fences[tl[p]] \in Seq(Fences)
        BY <3>1 DEF Control, FreePCs, TypeOK
      <3>3. PICK i \in 1 .. Len(fences[tl[p]]) : fences[tl[p]][i] = h
        BY <3>1, <3>2, RangeIs
      <3>4. pc'[p] = "s_scan" /\ idx'[p] = 1 /\ UNCHANGED <<tl, fences>>
        BY <1>3, <3>1 DEF ScanLock, Goto, TypeOK
      <3>5. QED
        BY <3>3, <3>4 DEF OwedBy
    <2>6. QED
      BY <2>1, <2>2, <2>4, <2>5, CoverIdle
  <1>4. ASSUME NEW p \in Threads, SignalScan(p)
        PROVE  \A h \in Fences : Cover(h)'
    <2>1. PICK g \in Fences : g = fences[tl[p]][idx[p]]
      BY <1>4, SignalScanShape
    <2>2. /\ UNCHANGED <<ftl, sig, cur, pc, tl>> /\ Alone(p) /\ pc[p] = "s_scan"
      BY <1>4 DEF SignalScan, At, Alone, TypeOK
    <2>3. /\ tl[p] \in Timelines /\ idx[p] \in 1 .. Len(fences[tl[p]])
          /\ fences[tl[p]] \in Seq(Fences) /\ Len(fences[tl[p]]) \in Nat
      BY <1>4, SignalScanShape, ListsOfFences DEF TypeOK
    <2>4. \A h \in Fences : fref'[h] > 0 => fref[h] > 0
      <3>1. CASE fref[g] > 0 /\ fref' = [fref EXCEPT ![g] = @ + 1]
        BY <3>1, PinFinds
      <3>2. CASE UNCHANGED fref
        BY <3>2
      <3>3. QED
        BY <1>4, <2>1, <3>1, <3>2 DEF SignalScan
    <2>5. \A h \in Fences : Live(h)' => Live(h)
      BY <2>2, <2>4, LiveBefore
    <2>6. CASE /\ Without(fences, fences', Timelines, tl[p], g) /\ idx' = idx
               /\ With(temp, temp', Threads, p, g)
               /\ fences' = [fences EXCEPT ![tl[p]] = RemoveAt(@, idx[p])]
      <3>1. PlacedBy(p, g)' /\ OwedBy(p, g)'
        BY <2>6 DEF PlacedBy, OwedBy, With
      <3>2. Cover(g)'
        BY <3>1 DEF Cover
      <3>3. ASSUME NEW h \in Fences, h # g
            PROVE  Cover(h)'
        <4>1. \A q \in Threads : q # p /\ pc[q] = "s_scan" =>
                tl[q] # tl[p] /\ tl[q] \in Timelines
          BY <2>2, ScanIsOne DEF ScanPCs, Control, FreePCs, TypeOK
        <4>2. \A u \in Timelines : u # tl[p] => fences'[u] = fences[u]
          BY <2>6 DEF TypeOK
        <4>3. ListedStays(p, h)
          <5>1. \A u \in Timelines : h \in Range(fences[u]) => h \in Range(fences'[u])
            BY <2>6, <3>3 DEF Without
          <5>2. QED
            BY <4>1, <4>2, <5>1 DEF ListedStays
        <4>4. h \in Range(temp[p]) => h \in Range(temp'[p])
          BY <2>6 DEF With
        <4>5. PlacedBy(p, h) => PlacedBy(p, h)'
          BY <2>2, <4>4 DEF PlacedBy
        <4>6. OwedBy(p, h) => OwedBy(p, h)'
          <5>1. CASE h \in Range(temp[p])
            BY <4>4, <5>1 DEF OwedBy
          <5>2. ASSUME NEW i \in idx[p] .. Len(fences[tl[p]]), fences[tl[p]][i] = h
                PROVE  OwedBy(p, h)'
            <6>1. /\ Len(fences'[tl[p]]) = Len(fences[tl[p]]) - 1
                  /\ \A k \in 1 .. Len(fences[tl[p]]) - 1 :
                       fences'[tl[p]][k] = IF k < idx[p] THEN fences[tl[p]][k]
                                           ELSE fences[tl[p]][k + 1]
              <7>1. fences'[tl[p]] = RemoveAt(fences[tl[p]], idx[p])
                BY <2>3, <2>6 DEF TypeOK
              <7>2. QED
                BY <2>3, <7>1, RemoveAtIs
            <6>2. i # idx[p]
              BY <2>1, <3>3, <5>2
            <6>3. /\ i - 1 \in idx[p] .. Len(fences'[tl[p]])
                  /\ i - 1 \in 1 .. Len(fences[tl[p]]) - 1
                  /\ ~(i - 1 < idx[p]) /\ (i - 1) + 1 = i
              BY <2>3, <5>2, <6>1, <6>2
            <6>4. fences'[tl[p]][i - 1] = h
              BY <5>2, <6>1, <6>3
            <6>5. QED
              BY <2>2, <2>6, <6>3, <6>4 DEF OwedBy
          <5>3. QED
            BY <2>2, <5>1, <5>2 DEF OwedBy
        <4>7. QED
          BY <2>2, <2>5, <4>3, <4>5, <4>6, CoverMove
      <3>4. QED
        BY <3>2, <3>3
    <2>7. CASE /\ ~(timeline_fence_signaled(g) /\ fref[g] > 0) /\ UNCHANGED <<fref, fences, temp>>
               /\ idx' = [idx EXCEPT ![p] = @ + 1]
      <3>1. ASSUME NEW h \in Fences
            PROVE  Cover(h)'
        <4>1. PlacedBy(p, h) => PlacedBy(p, h)'
          BY <2>2, <2>7 DEF PlacedBy
        <4>2. CASE h = g /\ Live(h)
          <5>1. ~timeline_fence_signaled(h)
            BY <2>7, <4>2 DEF Live
          <5>2. ListedStays(p, h)
            BY <2>7 DEF ListedStays
          <5>3. QED
            BY <2>2, <2>5, <4>1, <5>1, <5>2, CoverMove
        <4>3. CASE ~Live(h)
          BY <2>5, <4>3 DEF Cover
        <4>4. CASE h # g
          <5>1. OwedBy(p, h) => OwedBy(p, h)'
            <6>1. CASE h \in Range(temp[p])
              BY <2>7, <6>1 DEF OwedBy
            <6>2. ASSUME NEW i \in idx[p] .. Len(fences[tl[p]]), fences[tl[p]][i] = h
                  PROVE  OwedBy(p, h)'
              <7>1. i # idx[p] /\ idx'[p] = idx[p] + 1
                BY <2>1, <2>7, <4>4, <6>2 DEF TypeOK
              <7>2. i \in idx'[p] .. Len(fences'[tl[p]])
                BY <2>3, <2>7, <6>2, <7>1
              <7>3. QED
                BY <2>2, <2>7, <6>2, <7>2 DEF OwedBy
            <6>3. QED
              BY <2>2, <6>1, <6>2 DEF OwedBy
          <5>2. QED
            BY <2>2, <2>5, <2>7, <4>1, <5>1, CoverIdle
        <4>5. QED
          BY <4>2, <4>3, <4>4
      <3>2. QED
        BY <3>1
    <2>8. QED
      BY <1>4, <2>1, <2>6, <2>7, SignalScanShape DEF SignalScan
  <1>5. ASSUME NEW p \in Threads, SignalScanEnd(p)
        PROVE  \A h \in Fences : Cover(h)'
    <2>1. UNCHANGED fences /\ Alone(p) /\ UNCHANGED <<temp, cur>>
      BY <1>5 DEF SignalScanEnd, Goto, Alone, TypeOK
    <2>2. \A h \in Fences : Live(h)' => Live(h)
      BY <1>5 DEF SignalScanEnd, fenceVars, Live
    <2>3. pc[p] = "s_scan" /\ idx[p] > Len(fences[tl[p]])
      BY <1>5 DEF SignalScanEnd, At
    <2>4. idx[p] \in Int /\ Len(fences[tl[p]]) \in Int
      BY <2>3, ListsOfFences DEF Control, FreePCs, TypeOK
    <2>5. \A h \in Fences : OwedBy(p, h) \/ PlacedBy(p, h) => h \in Range(temp[p])
      BY <2>3, <2>4 DEF OwedBy, PlacedBy
    <2>6. QED
      BY <2>1, <2>2, <2>5, CoverIdle DEF OwedBy, PlacedBy
  <1>6. ASSUME NEW p \in Threads, SignalFence(p)
        PROVE  \A h \in Fences : Cover(h)'
    <2>1. /\ UNCHANGED <<fences, ftl>> /\ Alone(p)
          /\ temp[p] # <<>> /\ temp' = [temp EXCEPT ![p] = Tail(@)]
          /\ sig' = [sig EXCEPT ![Head(temp[p])] = TRUE]
      BY <1>6 DEF SignalFence, tlVars, Alone, TypeOK
    <2>2. PICK g \in Fences : g = Head(temp[p])
      BY <2>1, PopShape
    <2>3. Without(temp, temp', Threads, p, g)
      BY <2>1, <2>2, PopShape
    <2>4. sig'[g] /\ \A h \in Fences : sig[h] => sig'[h]
      BY <2>1, <2>2 DEF TypeOK
    <2>5. \A h \in Fences : fref'[h] > 0 => fref[h] > 0
      BY <1>6, <2>2, PutKills DEF SignalFence
    <2>6. \A h \in Fences : Live(h)' => Live(h)
      BY <2>1, <2>4, <2>5, LiveBefore
    <2>7. Cover(g)'
      BY <2>4 DEF Cover, Live
    <2>8. ASSUME NEW h \in Fences, h # g
          PROVE  Cover(h)'
      <3>1. OwedBy(p, h) \/ PlacedBy(p, h) => h \in Range(temp[p])
        BY <1>6 DEF SignalFence, At, OwedBy, PlacedBy
      <3>2. h \in Range(temp[p]) => h \in Range(temp'[p])
        BY <2>3, <2>8 DEF Without
      <3>3. (OwedBy(p, h) => OwedBy(p, h)') /\ (PlacedBy(p, h) => PlacedBy(p, h)')
        BY <3>1, <3>2 DEF OwedBy, PlacedBy
      <3>4. QED
        BY <2>1, <2>6, <3>3, CoverIdle
    <2>9. QED
      BY <2>7, <2>8
  <1>7. ASSUME NEW p \in Threads, SignalUnlock(p)
        PROVE  \A h \in Fences : Cover(h)'
    <2>1. UNCHANGED fences /\ Alone(p) /\ UNCHANGED <<temp, cur>>
      BY <1>7 DEF SignalUnlock, Goto, Alone, TypeOK
    <2>2. \A h \in Fences : Live(h)' => Live(h)
      BY <1>7 DEF SignalUnlock, fenceVars, Live
    <2>3. pc[p] \in {"s_signal", "d_signal", "d_lock"}
      BY <1>7 DEF SignalUnlock, At
    <2>4. \A h \in Fences : OwedBy(p, h) \/ PlacedBy(p, h) => h \in Range(temp[p])
      BY <2>3 DEF OwedBy, PlacedBy
    <2>5. QED
      BY <2>1, <2>2, <2>4, CoverIdle DEF OwedBy, PlacedBy
  <1>8. ASSUME NEW p \in Threads, PutTimeline(p)
        PROVE  \A h \in Fences : Cover(h)'
    <2>1. UNCHANGED fences /\ Alone(p)
      BY <1>8
         DEF PutTimeline, devVars, tlVars, fenceVars, threadVars, Goto,
             kgsl_timeline_by_id, Alone, TypeOK
    <2>2. ASSUME NEW h \in Fences
          PROVE  Live(h)' => Live(h)
      BY <1>8 DEF PutTimeline, devVars, tlVars, fenceVars, threadVars, Live
    <2>3. pc[p] \notin TempPCs \cup {"f_lock", "f_add", "s_scan_lock"}
      BY <1>8 DEF PutTimeline, At, TempPCs
    <2>4. ASSUME NEW h \in Fences
          PROVE  ~PlacedBy(p, h) /\ ~OwedBy(p, h)
      BY <2>3, OwesNothing
    <2>5. QED
      BY <2>1, <2>2, <2>4, CoverIdle
  <1>9. ASSUME NEW p \in Threads, kgsl_timeline_fence_alloc(p)
        PROVE  \A h \in Fences : Cover(h)'
    <2>1. UNCHANGED fences /\ Alone(p)
      BY <1>9 DEF kgsl_timeline_fence_alloc, Goto, Alone, TypeOK
    <2>2. PICK g \in Fences : /\ ftl' = [ftl EXCEPT ![g] = tl[p]]
                              /\ fref' = [fref EXCEPT ![g] = 1]
                              /\ sig' = [sig EXCEPT ![g] = FALSE]
                              /\ cur' = [cur EXCEPT ![p] = g]
      BY <1>9 DEF kgsl_timeline_fence_alloc, FreeFences
    <2>3. pc[p] = "f_alloc" /\ pc'[p] = "f_lock" /\ cur'[p] = g
      BY <1>9, <2>2 DEF kgsl_timeline_fence_alloc, At, Goto, TypeOK
    <2>4. PlacedBy(p, g)' /\ OwedBy(p, g)'
      BY <2>3 DEF PlacedBy, OwedBy
    <2>5. Cover(g)'
      BY <2>4 DEF Cover
    <2>6. ASSUME NEW h \in Fences, h # g
          PROVE  Cover(h)'
      <3>1. Live(h)' => Live(h)
        BY <2>2, <2>6 DEF Live, TypeOK
      <3>2. ~PlacedBy(p, h) /\ ~OwedBy(p, h)
        BY <2>3, OwesNothing DEF TempPCs
      <3>3. QED
        BY <2>1, <3>1, <3>2, CoverIdle
    <2>7. QED
      BY <2>5, <2>6
  <1>10. ASSUME NEW p \in Threads, FenceAllocFails(p)
        PROVE  \A h \in Fences : Cover(h)'
    <2>1. UNCHANGED fences /\ Alone(p)
      BY <1>10
         DEF FenceAllocFails, devVars, tlVars, fenceVars, threadVars, Goto,
             kgsl_timeline_by_id, Alone, TypeOK
    <2>2. ASSUME NEW h \in Fences
          PROVE  Live(h)' => Live(h)
      BY <1>10 DEF FenceAllocFails, devVars, tlVars, fenceVars, threadVars, Live
    <2>3. pc[p] \notin TempPCs \cup {"f_lock", "f_add", "s_scan_lock"}
      BY <1>10 DEF FenceAllocFails, At, TempPCs
    <2>4. ASSUME NEW h \in Fences
          PROVE  ~PlacedBy(p, h) /\ ~OwedBy(p, h)
      BY <2>3, OwesNothing
    <2>5. QED
      BY <2>1, <2>2, <2>4, CoverIdle
  <1>11. ASSUME NEW p \in Threads, FenceLock(p)
        PROVE  \A h \in Fences : Cover(h)'
    <2>1. UNCHANGED <<fences, ftl, fref>> /\ Alone(p)
      BY <1>11 DEF FenceLock, Goto, Alone, TypeOK
    <2>2. PICK g \in Fences : g = cur[p] /\ pc[p] = "f_lock"
      BY <1>11 DEF FenceLock, At, Control, AllocPCs, TypeOK
    <2>3. UNCHANGED <<cur, temp, value, fseq>> /\ Range(temp[p]) = {}
      BY <1>11, <2>2 DEF FenceLock, Empties, TempPCs
    <2>4. \A h \in Fences : h # g => ~PlacedBy(p, h) /\ ~OwedBy(p, h)
      BY <2>2, <2>3 DEF PlacedBy, OwedBy
    <2>5. CASE timeline_fence_signaled(g) /\ sig' = [sig EXCEPT ![g] = TRUE]
      <3>1. sig'[g] /\ \A h \in Fences : sig[h] => sig'[h]
        BY <2>5 DEF TypeOK
      <3>2. Cover(g)'
        BY <3>1 DEF Cover, Live
      <3>3. \A h \in Fences : Live(h)' => Live(h)
        BY <2>1, <3>1 DEF Live
      <3>4. \A h \in Fences : h # g => Cover(h)'
        BY <2>1, <2>4, <3>3, CoverIdle
      <3>5. QED
        BY <3>2, <3>4
    <2>6. CASE ~timeline_fence_signaled(g) /\ UNCHANGED sig /\ pc' = [pc EXCEPT ![p] = "f_add"]
      <3>1. \A h \in Fences : Live(h)' => Live(h)
        BY <2>1, <2>6 DEF Live
      <3>2. \A h \in Fences : h # g => Cover(h)'
        BY <2>1, <2>4, <3>1, CoverIdle
      <3>3. PlacedBy(p, g)' /\ ~timeline_fence_signaled(g)'
        BY <2>1, <2>2, <2>3, <2>6 DEF PlacedBy, timeline_fence_signaled, TypeOK
      <3>4. Cover(g)'
        BY <3>3 DEF Cover
      <3>5. QED
        BY <3>2, <3>4
    <2>7. QED
      BY <1>11, <2>2, <2>5, <2>6 DEF FenceLock, Goto
  <1>12. ASSUME NEW p \in Threads, kgsl_timeline_add_fence(p)
        PROVE  \A h \in Fences : Cover(h)'
    <2>1. UNCHANGED <<ftl, fref, sig, temp, cur>> /\ Alone(p)
      BY <1>12 DEF kgsl_timeline_add_fence, fenceVars, Goto, Alone, TypeOK
    <2>2. /\ cur[p] \in Fences /\ ftl[cur[p]] = tl[p] /\ tl[p] \in Timelines
          /\ With(fences, fences', Timelines, tl[p], cur[p])
      BY <1>12, AddShape
    <2>3. PICK g \in Fences : g = cur[p]
      BY <2>2
    <2>4. /\ pc[p] = "f_add" /\ fence_lock[tl[p]] = None /\ Range(temp[p]) = {}
          /\ \A t \in Timelines : t # tl[p] => fences'[t] = fences[t]
      BY <1>12 DEF kgsl_timeline_add_fence, At, Empties, TempPCs, TypeOK
    <2>5. \A h \in Fences : ListedStays(p, h)
      <3>1. \A q \in Threads : pc[q] = "s_scan" => tl[q] # tl[p] /\ tl[q] \in Timelines
        <4>1. \A q \in Threads : pc[q] = "s_scan" => tl[q] \in Timelines
          BY DEF Control, FreePCs, TypeOK
        <4>2. \A q \in Threads : pc[q] = "s_scan" => fence_lock[tl[q]] = q
          BY <4>1 DEF Locks, ScanPCs
        <4>3. QED
          BY <2>4, <4>1, <4>2, TimelineAssumption
      <3>2. QED
        BY <2>2, <2>4, <3>1 DEF ListedStays, With
    <2>6. \A h \in Fences : Live(h)' => Live(h)
      BY <2>1 DEF Live
    <2>7. \A h \in Fences : ~OwedBy(p, h)
      BY <2>4 DEF OwedBy
    <2>8. \A h \in Fences : PlacedBy(p, h) => h \in Range(fences'[ftl[h]])
      BY <2>2, <2>3, <2>4 DEF PlacedBy, With
    <2>9. QED
      BY <2>1, <2>5, <2>6, <2>7, <2>8, CoverMove
  <1>13. ASSUME NEW p \in Threads, WaitCollect(p)
        PROVE  \A h \in Fences : Cover(h)'
    <2>1. UNCHANGED fences /\ Alone(p)
      BY <1>13
         DEF WaitCollect, devVars, tlVars, fenceVars, threadVars, Goto,
             kgsl_timeline_by_id, Alone, TypeOK
    <2>2. ASSUME NEW h \in Fences
          PROVE  Live(h)' => Live(h)
      BY <1>13 DEF WaitCollect, devVars, tlVars, fenceVars, threadVars, Live
    <2>3. pc[p] \notin TempPCs \cup {"f_lock", "f_add", "s_scan_lock"}
      BY <1>13 DEF WaitCollect, At, TempPCs
    <2>4. ASSUME NEW h \in Fences
          PROVE  ~PlacedBy(p, h) /\ ~OwedBy(p, h)
      BY <2>3, OwesNothing
    <2>5. QED
      BY <2>1, <2>2, <2>4, CoverIdle
  <1>14. ASSUME NEW p \in Threads, WaitStart(p)
        PROVE  \A h \in Fences : Cover(h)'
    <2>1. UNCHANGED fences /\ Alone(p)
      BY <1>14
         DEF WaitStart, devVars, tlVars, fenceVars, threadVars, Goto,
             kgsl_timeline_by_id, Alone, TypeOK
    <2>2. ASSUME NEW h \in Fences
          PROVE  Live(h)' => Live(h)
      BY <1>14 DEF WaitStart, devVars, tlVars, fenceVars, threadVars, Live
    <2>3. pc[p] \notin TempPCs \cup {"f_lock", "f_add", "s_scan_lock"}
      BY <1>14 DEF WaitStart, At, TempPCs
    <2>4. ASSUME NEW h \in Fences
          PROVE  ~PlacedBy(p, h) /\ ~OwedBy(p, h)
      BY <2>3, OwesNothing
    <2>5. QED
      BY <2>1, <2>2, <2>4, CoverIdle
  <1>15. ASSUME NEW p \in Threads, WaitReturn(p)
        PROVE  \A h \in Fences : Cover(h)'
    <2>1. UNCHANGED fences /\ Alone(p)
      BY <1>15
         DEF WaitReturn, devVars, tlVars, fenceVars, threadVars, Goto,
             kgsl_timeline_by_id, Alone, TypeOK
    <2>2. ASSUME NEW h \in Fences
          PROVE  Live(h)' => Live(h)
      BY <1>15 DEF WaitReturn, devVars, tlVars, fenceVars, threadVars, Live
    <2>3. pc[p] \notin TempPCs \cup {"f_lock", "f_add", "s_scan_lock"}
      BY <1>15 DEF WaitReturn, At, TempPCs
    <2>4. ASSUME NEW h \in Fences
          PROVE  ~PlacedBy(p, h) /\ ~OwedBy(p, h)
      BY <2>3, OwesNothing
    <2>5. QED
      BY <2>1, <2>2, <2>4, CoverIdle
  <1>16. ASSUME NEW p \in Threads, WaitPut(p)
        PROVE  \A h \in Fences : Cover(h)'
    <2>1. UNCHANGED fences /\ Alone(p)
      BY <1>16
         DEF WaitPut, devVars, tlVars, fenceVars, threadVars, Goto,
             kgsl_timeline_by_id, Alone, TypeOK
    <2>2. \A h \in Fences : Live(h)' => Live(h)
      <3>1. UNCHANGED <<ftl, sig>>
        BY <1>16 DEF WaitPut
      <3>2. \A h \in Fences : fref'[h] > 0 => fref[h] > 0
        BY <1>16, WaitPutShape, PutKills
      <3>3. QED
        BY <3>1, <3>2, LiveBefore
    <2>3. pc[p] \notin TempPCs \cup {"f_lock", "f_add", "s_scan_lock"}
      BY <1>16 DEF WaitPut, At, TempPCs
    <2>4. ASSUME NEW h \in Fences
          PROVE  ~PlacedBy(p, h) /\ ~OwedBy(p, h)
      BY <2>3, OwesNothing
    <2>5. QED
      BY <2>1, <2>2, <2>4, CoverIdle
  <1>17. ASSUME NEW p \in Threads, FenceGetInstall(p)
        PROVE  \A h \in Fences : Cover(h)'
    <2>1. UNCHANGED fences /\ Alone(p)
      BY <1>17
         DEF FenceGetInstall, devVars, tlVars, fenceVars, threadVars, Goto,
             kgsl_timeline_by_id, Alone, TypeOK
    <2>2. \A h \in Fences : Live(h)' => Live(h)
      <3>1. UNCHANGED <<ftl, sig>>
        BY <1>17 DEF FenceGetInstall
      <3>2. cur[p] # None
        BY <1>17 DEF FenceGetInstall, At, Control, AllocPCs
      <3>3. cur[p] \in Fences /\ fref[cur[p]] > 0
        BY <3>2 DEF TypeOK, Users
      <3>4. \A h \in Fences : fref'[h] > 0 => fref[h] > 0
        BY <1>17, <3>3, PinFinds DEF FenceGetInstall
      <3>5. QED
        BY <3>1, <3>4, LiveBefore
    <2>3. pc[p] \notin TempPCs \cup {"f_lock", "f_add", "s_scan_lock"}
      BY <1>17 DEF FenceGetInstall, At, TempPCs
    <2>4. ASSUME NEW h \in Fences
          PROVE  ~PlacedBy(p, h) /\ ~OwedBy(p, h)
      BY <2>3, OwesNothing
    <2>5. QED
      BY <2>1, <2>2, <2>4, CoverIdle
  <1>18. ASSUME NEW p \in Threads, kgsl_ioctl_timeline_fence_get(p)
        PROVE  \A h \in Fences : Cover(h)'
    <2>1. UNCHANGED fences /\ Alone(p)
      BY <1>18
         DEF kgsl_ioctl_timeline_fence_get, devVars, tlVars, fenceVars,
             threadVars, Goto, kgsl_timeline_by_id, Alone, TypeOK
    <2>2. \A h \in Fences : Live(h)' => Live(h)
      <3>1. UNCHANGED <<ftl, sig>> /\ dma_fence_put(p, cur[p])
        BY <1>18 DEF kgsl_ioctl_timeline_fence_get
      <3>2. cur[p] \in Fences
        BY <1>18
           DEF kgsl_ioctl_timeline_fence_get, At, Control, AllocPCs, TypeOK
      <3>3. \A h \in Fences : fref'[h] > 0 => fref[h] > 0
        BY <3>1, <3>2, PutKills
      <3>4. QED
        BY <3>1, <3>3, LiveBefore
    <2>3. pc[p] \notin TempPCs \cup {"f_lock", "f_add", "s_scan_lock"}
      BY <1>18 DEF kgsl_ioctl_timeline_fence_get, At, TempPCs
    <2>4. ASSUME NEW h \in Fences
          PROVE  ~PlacedBy(p, h) /\ ~OwedBy(p, h)
      BY <2>3, OwesNothing
    <2>5. QED
      BY <2>1, <2>2, <2>4, CoverIdle
  <1>19. ASSUME NEW p \in Threads, timeline_fence_release(p)
        PROVE  \A h \in Fences : Cover(h)'
    <2>1. PICK g \in Fences : g = rel[p] /\ ftl[g] \in Timelines
      BY <1>19, ReleaseShape
    <2>2. /\ UNCHANGED <<temp, cur, pc, idx, tl, fref>> /\ fence_lock[ftl[g]] = None
          /\ ftl' = [ftl EXCEPT ![g] = None] /\ sig' = [sig EXCEPT ![g] = FALSE]
      BY <1>19, <2>1 DEF timeline_fence_release
    <2>3. /\ Without(fences, fences', Timelines, ftl[g], g)
          /\ \A u \in Timelines : u # ftl[g] => fences'[u] = fences[u]
      BY <1>19, <2>1, ReleaseShape
    <2>4. Cover(g)'
      BY <2>2 DEF Cover, Live, TypeOK
    <2>5. ASSUME NEW h \in Fences, h # g
          PROVE  Cover(h)'
      <3>1. Live(h)' => Live(h)
        BY <2>2, <2>5 DEF Live, TypeOK
      <3>2. \A q \in Threads : pc[q] \in {"s_scan", "s_scan_lock"} => tl[q] \in Timelines
        BY DEF Control, FreePCs, TypeOK
      <3>3. \A q \in Threads : pc[q] = "s_scan" => tl[q] # ftl[g]
        BY <2>1, <2>2, TimelineAssumption DEF Locks, ScanPCs
      <3>4. ListedStays(p, h)
        BY <2>3, <2>5, <3>2, <3>3 DEF ListedStays, Without
      <3>5. PlacedBy(p, h) => PlacedBy(p, h)'
        BY <2>2 DEF PlacedBy
      <3>6. OwedBy(p, h) => OwedBy(p, h)'
        <4>1. CASE pc[p] = "s_scan_lock"
          <5>1. h \in Range(fences[tl[p]]) => h \in Range(fences'[tl[p]])
            BY <3>2, <3>4, <4>1 DEF ListedStays
          <5>2. QED
            BY <2>2, <4>1, <5>1 DEF OwedBy
        <4>2. CASE pc[p] = "s_scan"
          <5>1. fences'[tl[p]] = fences[tl[p]]
            BY <2>3, <3>2, <3>3, <4>2
          <5>2. QED
            BY <2>2, <4>2, <5>1 DEF OwedBy
        <4>3. CASE pc[p] \notin {"s_scan", "s_scan_lock"}
          BY <2>2, <4>3 DEF OwedBy
        <4>4. QED
          BY <4>1, <4>2, <4>3
      <3>7. Alone(p)
        BY <2>2 DEF Alone
      <3>8. QED
        BY <3>1, <3>4, <3>5, <3>6, <3>7, CoverMove
    <2>6. QED
      BY <2>4, <2>5
  <1>20. ASSUME NEW p \in Threads, DestroyScan(p)
        PROVE  \A h \in Fences : Cover(h)'
    <2>1. PICK g \in Fences : g = fences[tl[p]][idx[p]]
      BY <1>20, DestroyScanShape
    <2>2. /\ UNCHANGED <<ftl, sig, temp, cur, pc, tl>> /\ Alone(p) /\ pc[p] = "d_scan"
      BY <1>20 DEF DestroyScan, At, Alone, TypeOK
    <2>3. \A h \in Fences : fref'[h] > 0 => fref[h] > 0
      <3>1. CASE fref[g] > 0 /\ fref' = [fref EXCEPT ![g] = @ + 1]
        BY <3>1, PinFinds
      <3>2. CASE UNCHANGED fref
        BY <3>2
      <3>3. QED
        BY <1>20, <2>1, <3>1, <3>2 DEF DestroyScan
    <2>4. \A h \in Fences : Live(h)' => Live(h)
      BY <2>2, <2>3, LiveBefore
    <2>5. \A h \in Fences : (OwedBy(p, h) => OwedBy(p, h)') /\ (PlacedBy(p, h) => PlacedBy(p, h)')
      BY <2>2 DEF OwedBy, PlacedBy
    <2>6. CASE UNCHANGED fences
      BY <2>2, <2>4, <2>5, <2>6, CoverIdle
    <2>7. CASE /\ fref[g] = 0 /\ UNCHANGED fref
               /\ Without(fences, fences', Timelines, tl[p], g)
      <3>1. Cover(g)'
        BY <2>7 DEF Cover, Live
      <3>2. ASSUME NEW h \in Fences, h # g
            PROVE  Cover(h)'
        <4>1. \A q \in Threads : q # p /\ pc[q] = "s_scan" =>
                tl[q] # tl[p] /\ tl[q] \in Timelines
          BY <2>2, ScanIsOne DEF ScanPCs, Control, FreePCs, TypeOK
        <4>2. \A u \in Timelines : u # tl[p] => fences'[u] = fences[u]
          BY <1>20 DEF DestroyScan, TypeOK
        <4>3. ListedStays(p, h)
          BY <2>7, <3>2, <4>1, <4>2 DEF ListedStays, Without
        <4>4. QED
          BY <2>2, <2>4, <2>5, <4>3, CoverMove
      <3>3. QED
        BY <3>1, <3>2
    <2>8. QED
      BY <1>20, <2>1, <2>6, <2>7, DestroyScanShape
  <1>21. ASSUME NEW p \in Threads, DestroyScanEnd(p)
        PROVE  \A h \in Fences : Cover(h)'
    <2>1. /\ UNCHANGED <<ftl, fref, sig, cur, tl, fseq, value>> /\ Alone(p) /\ pc[p] = "d_scan"
      BY <1>21 DEF DestroyScanEnd, fenceVars, At, Goto, Alone, TypeOK
    <2>2. /\ tl[p] \in Timelines /\ Range(temp[p]) = {}
          /\ Range(temp'[p]) = Range(fences[tl[p]])
      BY <1>21, DestroyScanEndShape
    <2>3. \A u \in Timelines : u # tl[p] => fences'[u] = fences[u]
      BY <1>21 DEF DestroyScanEnd, TypeOK
    <2>4. \A h \in Fences : Live(h)' => Live(h)
      BY <2>1 DEF Live
    <2>5. ASSUME NEW h \in Fences
          PROVE  Cover(h)'
      <3>1. CASE h \in Range(fences[tl[p]])
        <4>1. PlacedBy(p, h)' /\ OwedBy(p, h)'
          BY <2>2, <3>1 DEF PlacedBy, OwedBy
        <4>2. QED
          BY <4>1 DEF Cover
      <3>2. CASE h \notin Range(fences[tl[p]])
        <4>1. \A q \in Threads : q # p /\ pc[q] = "s_scan" =>
                tl[q] # tl[p] /\ tl[q] \in Timelines
          BY <2>1, ScanIsOne DEF ScanPCs, Control, FreePCs, TypeOK
        <4>2. ListedStays(p, h)
          BY <2>3, <3>2, <4>1 DEF ListedStays
        <4>3. ~PlacedBy(p, h) /\ ~OwedBy(p, h)
          BY <2>1, <2>2 DEF PlacedBy, OwedBy
        <4>4. QED
          BY <2>1, <2>4, <4>2, <4>3, CoverMove
      <3>3. QED
        BY <3>1, <3>2
    <2>6. QED
      BY <2>5
  <1>22. ASSUME NEW p \in Threads, DestroyLock(p)
        PROVE  \A h \in Fences : Cover(h)'
    <2>1. UNCHANGED fences /\ Alone(p) /\ UNCHANGED <<temp, cur>>
      BY <1>22 DEF DestroyLock, Goto, Alone, TypeOK
    <2>2. \A h \in Fences : Live(h)' => Live(h)
      BY <1>22 DEF DestroyLock, fenceVars, Live
    <2>3. pc[p] \in {"s_signal", "d_signal", "d_lock"}
      BY <1>22 DEF DestroyLock, At
    <2>4. \A h \in Fences : OwedBy(p, h) \/ PlacedBy(p, h) => h \in Range(temp[p])
      BY <2>3 DEF OwedBy, PlacedBy
    <2>5. QED
      BY <2>1, <2>2, <2>4, CoverIdle DEF OwedBy, PlacedBy
  <1>23. ASSUME NEW p \in Threads, DestroyFence(p)
        PROVE  \A h \in Fences : Cover(h)'
    <2>1. /\ UNCHANGED <<fences, ftl>> /\ Alone(p)
          /\ temp[p] # <<>> /\ temp' = [temp EXCEPT ![p] = Tail(@)]
          /\ sig' = [sig EXCEPT ![Head(temp[p])] = TRUE]
      BY <1>23 DEF DestroyFence, tlVars, Alone, TypeOK
    <2>2. PICK g \in Fences : g = Head(temp[p])
      BY <2>1, PopShape
    <2>3. Without(temp, temp', Threads, p, g)
      BY <2>1, <2>2, PopShape
    <2>4. sig'[g] /\ \A h \in Fences : sig[h] => sig'[h]
      BY <2>1, <2>2 DEF TypeOK
    <2>5. \A h \in Fences : fref'[h] > 0 => fref[h] > 0
      BY <1>23, <2>2, PutKills DEF DestroyFence
    <2>6. \A h \in Fences : Live(h)' => Live(h)
      BY <2>1, <2>4, <2>5, LiveBefore
    <2>7. Cover(g)'
      BY <2>4 DEF Cover, Live
    <2>8. ASSUME NEW h \in Fences, h # g
          PROVE  Cover(h)'
      <3>1. OwedBy(p, h) \/ PlacedBy(p, h) => h \in Range(temp[p])
        BY <1>23 DEF DestroyFence, At, OwedBy, PlacedBy
      <3>2. h \in Range(temp[p]) => h \in Range(temp'[p])
        BY <2>3, <2>8 DEF Without
      <3>3. (OwedBy(p, h) => OwedBy(p, h)') /\ (PlacedBy(p, h) => PlacedBy(p, h)')
        BY <3>1, <3>2 DEF OwedBy, PlacedBy
      <3>4. QED
        BY <2>1, <2>6, <3>3, CoverIdle
    <2>9. QED
      BY <2>7, <2>8
  <1>24. ASSUME NEW p \in Threads, kgsl_timeline_alloc(p)
        PROVE  \A h \in Fences : Cover(h)'
    <2>1. UNCHANGED fences
      BY <1>24, AllocShape
    <2>2. Alone(p)
      BY <1>24 DEF kgsl_timeline_alloc, Goto, Alone, TypeOK
    <2>3. \A h \in Fences : Live(h)' => Live(h)
      BY <1>24 DEF kgsl_timeline_alloc, fenceVars, Live
    <2>4. pc[p] \notin TempPCs \cup {"f_lock", "f_add", "s_scan_lock"}
      BY <1>24 DEF kgsl_timeline_alloc, At, TempPCs
    <2>5. ASSUME NEW h \in Fences
          PROVE  ~PlacedBy(p, h) /\ ~OwedBy(p, h)
      BY <2>4, OwesNothing
    <2>6. QED
      BY <2>1, <2>2, <2>3, <2>5, CoverIdle
  <1>25. ASSUME NEW p \in Threads, kgsl_ioctl_timeline_signal(p)
        PROVE  \A h \in Fences : Cover(h)'
    <2>1. UNCHANGED fences /\ Alone(p)
      BY <1>25
         DEF kgsl_ioctl_timeline_signal, devVars, tlVars, fenceVars,
             threadVars, Goto, kgsl_timeline_by_id, Alone, TypeOK
    <2>2. ASSUME NEW h \in Fences
          PROVE  Live(h)' => Live(h)
      BY <1>25
         DEF kgsl_ioctl_timeline_signal, devVars, tlVars, fenceVars,
             threadVars, Live
    <2>3. pc[p] \notin TempPCs \cup {"f_lock", "f_add", "s_scan_lock"}
      BY <1>25 DEF kgsl_ioctl_timeline_signal, At, TempPCs
    <2>4. ASSUME NEW h \in Fences
          PROVE  ~PlacedBy(p, h) /\ ~OwedBy(p, h)
      BY <2>3, OwesNothing
    <2>5. QED
      BY <2>1, <2>2, <2>4, CoverIdle
  <1>26. ASSUME NEW p \in Threads, FenceLookup(p)
        PROVE  \A h \in Fences : Cover(h)'
    <2>1. UNCHANGED fences /\ Alone(p)
      BY <1>26
         DEF FenceLookup, devVars, tlVars, fenceVars, threadVars, Goto,
             kgsl_timeline_by_id, Alone, TypeOK
    <2>2. ASSUME NEW h \in Fences
          PROVE  Live(h)' => Live(h)
      BY <1>26 DEF FenceLookup, devVars, tlVars, fenceVars, threadVars, Live
    <2>3. pc[p] \notin TempPCs \cup {"f_lock", "f_add", "s_scan_lock"}
      BY <1>26 DEF FenceLookup, At, TempPCs
    <2>4. ASSUME NEW h \in Fences
          PROVE  ~PlacedBy(p, h) /\ ~OwedBy(p, h)
      BY <2>3, OwesNothing
    <2>5. QED
      BY <2>1, <2>2, <2>4, CoverIdle
  <1>27. ASSUME NEW p \in Threads, WaitError(p)
        PROVE  \A h \in Fences : Cover(h)'
    <2>1. UNCHANGED fences /\ Alone(p)
      BY <1>27
         DEF WaitError, devVars, tlVars, fenceVars, threadVars, Goto,
             kgsl_timeline_by_id, Alone, TypeOK
    <2>2. ASSUME NEW h \in Fences
          PROVE  Live(h)' => Live(h)
      BY <1>27 DEF WaitError, devVars, tlVars, fenceVars, threadVars, Live
    <2>3. pc[p] \notin TempPCs \cup {"f_lock", "f_add", "s_scan_lock"}
      BY <1>27 DEF WaitError, At, TempPCs
    <2>4. ASSUME NEW h \in Fences
          PROVE  ~PlacedBy(p, h) /\ ~OwedBy(p, h)
      BY <2>3, OwesNothing
    <2>5. QED
      BY <2>1, <2>2, <2>4, CoverIdle
  <1>28. ASSUME NEW p \in Threads, WaitTimeout(p)
        PROVE  \A h \in Fences : Cover(h)'
    <2>1. UNCHANGED fences /\ Alone(p)
      BY <1>28
         DEF WaitTimeout, devVars, tlVars, fenceVars, threadVars, Goto,
             kgsl_timeline_by_id, Alone, TypeOK
    <2>2. ASSUME NEW h \in Fences
          PROVE  Live(h)' => Live(h)
      BY <1>28 DEF WaitTimeout, devVars, tlVars, fenceVars, threadVars, Live
    <2>3. pc[p] \notin TempPCs \cup {"f_lock", "f_add", "s_scan_lock"}
      BY <1>28 DEF WaitTimeout, At, TempPCs
    <2>4. ASSUME NEW h \in Fences
          PROVE  ~PlacedBy(p, h) /\ ~OwedBy(p, h)
      BY <2>3, OwesNothing
    <2>5. QED
      BY <2>1, <2>2, <2>4, CoverIdle
  <1>29. ASSUME NEW p \in Threads, CloseFd(p)
        PROVE  \A h \in Fences : Cover(h)'
    <2>1. UNCHANGED fences /\ Alone(p)
      BY <1>29
         DEF CloseFd, devVars, tlVars, fenceVars, threadVars, Goto,
             kgsl_timeline_by_id, Alone, TypeOK
    <2>2. \A h \in Fences : Live(h)' => Live(h)
      <3>1. UNCHANGED <<ftl, sig>> /\ \E g \in fd : dma_fence_put(p, g)
        BY <1>29 DEF CloseFd
      <3>2. fd \subseteq Fences
        BY DEF TypeOK
      <3>3. \A h \in Fences : fref'[h] > 0 => fref[h] > 0
        BY <3>1, <3>2, PutKills
      <3>4. QED
        BY <3>1, <3>3, LiveBefore
    <2>3. pc[p] \notin TempPCs \cup {"f_lock", "f_add", "s_scan_lock"}
      BY <1>29 DEF CloseFd, At, TempPCs
    <2>4. ASSUME NEW h \in Fences
          PROVE  ~PlacedBy(p, h) /\ ~OwedBy(p, h)
      BY <2>3, OwesNothing
    <2>5. QED
      BY <2>1, <2>2, <2>4, CoverIdle
  <1>30. ASSUME NEW p \in Threads, kgsl_ioctl_timeline_query(p)
        PROVE  \A h \in Fences : Cover(h)'
    <2>1. UNCHANGED fences /\ Alone(p)
      BY <1>30
         DEF kgsl_ioctl_timeline_query, devVars, tlVars, fenceVars,
             threadVars, Goto, kgsl_timeline_by_id, Alone, TypeOK
    <2>2. ASSUME NEW h \in Fences
          PROVE  Live(h)' => Live(h)
      BY <1>30
         DEF kgsl_ioctl_timeline_query, devVars, tlVars, fenceVars,
             threadVars, Live
    <2>3. pc[p] \notin TempPCs \cup {"f_lock", "f_add", "s_scan_lock"}
      BY <1>30 DEF kgsl_ioctl_timeline_query, At, TempPCs
    <2>4. ASSUME NEW h \in Fences
          PROVE  ~PlacedBy(p, h) /\ ~OwedBy(p, h)
      BY <2>3, OwesNothing
    <2>5. QED
      BY <2>1, <2>2, <2>4, CoverIdle
  <1>31. ASSUME NEW p \in Threads, kgsl_ioctl_timeline_destroy(p)
        PROVE  \A h \in Fences : Cover(h)'
    <2>1. UNCHANGED fences /\ Alone(p)
      BY <1>31
         DEF kgsl_ioctl_timeline_destroy, devVars, tlVars, fenceVars,
             threadVars, Goto, kgsl_timeline_by_id, Alone, TypeOK
    <2>2. ASSUME NEW h \in Fences
          PROVE  Live(h)' => Live(h)
      BY <1>31
         DEF kgsl_ioctl_timeline_destroy, devVars, tlVars, fenceVars,
             threadVars, Live
    <2>3. pc[p] \notin TempPCs \cup {"f_lock", "f_add", "s_scan_lock"}
      BY <1>31 DEF kgsl_ioctl_timeline_destroy, At, TempPCs
    <2>4. ASSUME NEW h \in Fences
          PROVE  ~PlacedBy(p, h) /\ ~OwedBy(p, h)
      BY <2>3, OwesNothing
    <2>5. QED
      BY <2>1, <2>2, <2>4, CoverIdle
  <1>32. ASSUME NEW f \in Fences, Poll(f)
        PROVE  \A h \in Fences : Cover(h)'
    <2>1. UNCHANGED <<fences, ftl, fref, pc, tl, cur, idx, temp>> /\ sig' = [sig EXCEPT ![f] = TRUE]
      BY <1>32 DEF Poll, tlVars, threadVars
    <2>2. UNCHANGED <<fseq, value>>
      BY <1>32 DEF Poll, tlVars
    <2>3. \A h \in Fences : sig[h] => sig'[h]
      BY <2>1 DEF TypeOK
    <2>4. \A h \in Fences : Live(h)' => Live(h)
      BY <2>1, <2>3 DEF Live
    <2>5. QED
      BY <2>1, <2>2, <2>4 DEF Cover, PlacedBy, OwedBy, timeline_fence_signaled
  <1>33. CASE UNCHANGED vars
    BY <1>33
       DEF vars, devVars, tlVars, fenceVars, threadVars, Cover, Live,
           PlacedBy, OwedBy,
               timeline_fence_signaled
  <1>34. QED
    BY <1>1, <1>2, <1>3, <1>4, <1>5, <1>6, <1>7, <1>8, <1>9, <1>10, <1>11,
       <1>12, <1>13, <1>14, <1>15, <1>16, <1>17, <1>18, <1>19, <1>20, <1>21,
       <1>22, <1>23, <1>24, <1>25, <1>26, <1>27, <1>28, <1>29, <1>30, <1>31,
       <1>32, <1>33
       DEF Next, Step, Choose


\* The step of kgsl_timeline_signal that sets the value: every fence that it
\* reaches is on the list that the same thread is about to scan, or is owed a
\* signal already.
LEMMA CoverSignal ==
    ASSUME TypeOK, TypeOK', Control, Locks, Lists, Allocs, Empties,
           NEW p \in Threads, SignalLock(p), \A h \in Fences : Cover(h), Adding
    PROVE  (\A h \in Fences : Cover(h)') /\ Adding'
  <1>1. /\ UNCHANGED <<fences, ftl, fseq, fref, sig, temp, cur, tl, idx>> /\ Alone(p)
        /\ pc[p] = "s_lock" /\ lock[tl[p]] = None
    BY DEF SignalLock, fenceVars, At, Goto, Alone, TypeOK
  <1>2. tl[p] \in Timelines
    BY <1>1 DEF Control, FreePCs, TypeOK
  <1>3. \A h \in Fences : (Live(h)' <=> Live(h)) /\ ~PlacedBy(p, h) /\ ~OwedBy(p, h)
    BY <1>1, OwesNothing DEF Live, TempPCs
  <1>4. /\ \A q \in Threads, h \in Fences : PlacedBy(q, h) => q # p /\ PlacedBy(q, h)'
        /\ \A q \in Threads, h \in Fences : OwedBy(q, h) => q # p /\ OwedBy(q, h)'
    BY <1>1, <1>3 DEF Alone, PlacedBy, OwedBy
  <1>5. \A q \in Threads : pc[q] = "f_add" => q # p /\ tl[q] # tl[p] /\ ftl[cur[q]] = tl[q]
    <2>1. \A q \in Threads : pc[q] = "f_add" => tl[q] \in Timelines /\ cur[q] # None
      BY DEF Control, FreePCs, AllocPCs, TypeOK
    <2>2. \A q \in Threads : pc[q] = "f_add" => lock[tl[q]] = q
      BY <2>1 DEF Locks, LockPCs
    <2>3. QED
      BY <1>1, <2>1, <2>2, TimelineAssumption DEF Allocs
  <1>6. CASE UNCHANGED value /\ pc' = [pc EXCEPT ![p] = "put"]
    <2>1. \A h \in Fences : timeline_fence_signaled(h)' <=> timeline_fence_signaled(h)
      BY <1>1, <1>6 DEF timeline_fence_signaled
    <2>2. \A h \in Fences : Cover(h)'
      BY <1>1, <1>3, <1>4, <2>1 DEF Cover
    <2>3. \A q \in Threads : pc'[q] = "f_add" => pc[q] = "f_add"
      BY <1>6 DEF TypeOK
    <2>4. QED
      BY <1>1, <1>6, <2>2, <2>3 DEF Adding, timeline_fence_signaled
  <1>7. CASE value' = [value EXCEPT ![tl[p]] = seq[p]] /\ pc' = [pc EXCEPT ![p] = "s_scan_lock"]
    <2>1. \A t \in Timelines : t # tl[p] => value'[t] = value[t]
      BY <1>7 DEF TypeOK
    <2>2. pc'[p] = "s_scan_lock" /\ \A q \in Threads : pc'[q] = "f_add" => pc[q] = "f_add"
      BY <1>7 DEF TypeOK
    <2>3. Adding'
      <3>1. \A q \in Threads : pc[q] = "f_add" => tl[q] \in Timelines
        BY DEF Control, FreePCs, TypeOK
      <3>2. QED
        BY <1>1, <1>5, <2>1, <2>2, <3>1 DEF Adding, timeline_fence_signaled
    <2>4. ASSUME NEW h \in Fences, Live(h)'
          PROVE  /\ h \in Range(fences'[ftl'[h]]) \/ \E q \in Threads : PlacedBy(q, h)'
                 /\ timeline_fence_signaled(h)' => \E q \in Threads : OwedBy(q, h)'
      <3>1. Live(h) /\ ftl[h] \in Timelines
        BY <1>3, <2>4 DEF Live, TypeOK
      <3>2. h \in Range(fences[ftl[h]]) \/ \E q \in Threads : PlacedBy(q, h)
        BY <3>1 DEF Cover
      <3>3. h \in Range(fences'[ftl'[h]]) \/ \E q \in Threads : PlacedBy(q, h)'
        BY <1>1, <1>4, <3>2
      <3>4. CASE ftl[h] # tl[p]
        <4>1. timeline_fence_signaled(h)' => timeline_fence_signaled(h)
          BY <1>1, <2>1, <3>1, <3>4 DEF timeline_fence_signaled
        <4>2. QED
          BY <1>4, <3>1, <3>3, <4>1 DEF Cover
      <3>5. CASE ftl[h] = tl[p]
        <4>1. CASE h \in Range(fences[ftl[h]])
          <5>1. OwedBy(p, h)'
            BY <1>1, <2>2, <3>5, <4>1 DEF OwedBy
          <5>2. QED
            BY <3>3, <5>1
        <4>2. ASSUME NEW q \in Threads, PlacedBy(q, h)
              PROVE  OwedBy(q, h)'
          <5>1. ~(cur[q] = h /\ pc[q] = "f_add")
            BY <1>5, <3>5
          <5>2. OwedBy(q, h)
            BY <4>2, <5>1 DEF PlacedBy, OwedBy
          <5>3. QED
            BY <1>4, <5>2
        <4>3. QED
          BY <3>2, <3>3, <4>1, <4>2
      <3>6. QED
        BY <3>4, <3>5
    <2>5. QED
      BY <2>3, <2>4 DEF Cover
  <1>8. QED
    BY <1>6, <1>7 DEF SignalLock, Goto

\* A thread stays at the insertion, or comes to it with a fence still to come.
AddingKept(q) ==
    pc'[q] = "f_add" =>
        /\ cur'[q] = cur[q] /\ pc[q] \in {"f_lock", "f_add"}
        /\ ~timeline_fence_signaled(cur[q])

\* The other steps leave the fences that are being added alone.
LEMMA AddingFromKept ==
    ASSUME TypeOK, Control, Users, Releases, Steady, FreedIsDead, Adding,
           \A q \in Threads : AddingKept(q)
    PROVE  Adding'
  <1>1. SUFFICES ASSUME NEW q \in Threads, pc'[q] = "f_add"
                 PROVE  ~timeline_fence_signaled(cur[q])'
    BY DEF Adding
  <1>2. /\ cur'[q] = cur[q] /\ pc[q] \in {"f_lock", "f_add"}
        /\ ~timeline_fence_signaled(cur[q])
    BY <1>1 DEF AddingKept
  <1>3. cur[q] \in Fences /\ fref[cur[q]] > 0
    BY <1>2, ThreadsTimeline DEF AllocPCs
  <1>4. ftl[cur[q]] # None /\ ftl'[cur[q]] # None
    BY <1>3 DEF Releases, FreedIsDead
  <1>5. QED
    BY <1>2, <1>3, <1>4 DEF Steady, timeline_fence_signaled

\* Every step but the one that changes the value keeps the fences that are
\* being added ahead of it.
LEMMA AddingStep ==
    ASSUME TypeOK, Control, Locks, Lists, Allocs, Releases, Users, Empties,
           Steady, FreedIsDead, Adding, [Next]_vars
    PROVE  Adding'
  <1>1. ASSUME NEW p \in Threads, kgsl_ioctl_timeline_create(p)
        PROVE  Adding'
    <2>1. \A q \in Threads : AddingKept(q)
      BY <1>1
         DEF kgsl_ioctl_timeline_create, devVars, tlVars, fenceVars,
             threadVars, At, Goto, TypeOK, Adding, AddingKept
    <2>2. QED
      BY <2>1, AddingFromKept
  <1>2. ASSUME NEW p \in Threads, SignalLock(p)
        PROVE  Adding'
    <2>1. \A q \in Threads : AddingKept(q)
      BY <1>2
         DEF SignalLock, devVars, tlVars, fenceVars, threadVars, At, Goto,
             TypeOK, Adding, AddingKept
    <2>2. QED
      BY <2>1, AddingFromKept
  <1>3. ASSUME NEW p \in Threads, ScanLock(p)
        PROVE  Adding'
    <2>1. \A q \in Threads : AddingKept(q)
      BY <1>3
         DEF ScanLock, devVars, tlVars, fenceVars, threadVars, At, Goto,
             TypeOK, Adding, AddingKept
    <2>2. QED
      BY <2>1, AddingFromKept
  <1>4. ASSUME NEW p \in Threads, SignalScan(p)
        PROVE  Adding'
    <2>1. \A q \in Threads : AddingKept(q)
      BY <1>4
         DEF SignalScan, devVars, tlVars, fenceVars, threadVars, At, Goto,
             TypeOK, Adding, AddingKept
    <2>2. QED
      BY <2>1, AddingFromKept
  <1>5. ASSUME NEW p \in Threads, SignalScanEnd(p)
        PROVE  Adding'
    <2>1. \A q \in Threads : AddingKept(q)
      BY <1>5
         DEF SignalScanEnd, devVars, tlVars, fenceVars, threadVars, At, Goto,
             TypeOK, Adding, AddingKept
    <2>2. QED
      BY <2>1, AddingFromKept
  <1>6. ASSUME NEW p \in Threads, SignalFence(p)
        PROVE  Adding'
    <2>1. \A q \in Threads : AddingKept(q)
      BY <1>6
         DEF SignalFence, devVars, tlVars, fenceVars, threadVars, At, Goto,
             TypeOK, Adding, AddingKept
    <2>2. QED
      BY <2>1, AddingFromKept
  <1>7. ASSUME NEW p \in Threads, SignalUnlock(p)
        PROVE  Adding'
    <2>1. \A q \in Threads : AddingKept(q)
      BY <1>7
         DEF SignalUnlock, devVars, tlVars, fenceVars, threadVars, At, Goto,
             TypeOK, Adding, AddingKept
    <2>2. QED
      BY <2>1, AddingFromKept
  <1>8. ASSUME NEW p \in Threads, PutTimeline(p)
        PROVE  Adding'
    <2>1. \A q \in Threads : AddingKept(q)
      BY <1>8
         DEF PutTimeline, devVars, tlVars, fenceVars, threadVars, At, Goto,
             TypeOK, Adding, AddingKept
    <2>2. QED
      BY <2>1, AddingFromKept
  <1>9. ASSUME NEW p \in Threads, kgsl_timeline_fence_alloc(p)
        PROVE  Adding'
    <2>1. \A q \in Threads : AddingKept(q)
      BY <1>9
         DEF kgsl_timeline_fence_alloc, FreeFences, devVars, tlVars,
             fenceVars, threadVars, At, Goto, TypeOK, Adding, AddingKept
    <2>2. QED
      BY <2>1, AddingFromKept
  <1>10. ASSUME NEW p \in Threads, FenceAllocFails(p)
        PROVE  Adding'
    <2>1. \A q \in Threads : AddingKept(q)
      BY <1>10
         DEF FenceAllocFails, devVars, tlVars, fenceVars, threadVars, At,
             Goto, TypeOK, Adding, AddingKept
    <2>2. QED
      BY <2>1, AddingFromKept
  <1>11. ASSUME NEW p \in Threads, FenceLock(p)
        PROVE  Adding'
    <2>1. \A q \in Threads : AddingKept(q)
      BY <1>11
         DEF FenceLock, devVars, tlVars, fenceVars, threadVars, At, Goto,
             TypeOK, Adding, AddingKept
    <2>2. QED
      BY <2>1, AddingFromKept
  <1>12. ASSUME NEW p \in Threads, kgsl_timeline_add_fence(p)
        PROVE  Adding'
    <2>1. \A q \in Threads : AddingKept(q)
      BY <1>12
         DEF kgsl_timeline_add_fence, devVars, tlVars, fenceVars, threadVars,
             At, Goto, TypeOK, Adding, AddingKept
    <2>2. QED
      BY <2>1, AddingFromKept
  <1>13. ASSUME NEW p \in Threads, WaitCollect(p)
        PROVE  Adding'
    <2>1. \A q \in Threads : AddingKept(q)
      BY <1>13
         DEF WaitCollect, devVars, tlVars, fenceVars, threadVars, At, Goto,
             TypeOK, Adding, AddingKept
    <2>2. QED
      BY <2>1, AddingFromKept
  <1>14. ASSUME NEW p \in Threads, WaitStart(p)
        PROVE  Adding'
    <2>1. \A q \in Threads : AddingKept(q)
      BY <1>14
         DEF WaitStart, devVars, tlVars, fenceVars, threadVars, At, Goto,
             TypeOK, Adding, AddingKept
    <2>2. QED
      BY <2>1, AddingFromKept
  <1>15. ASSUME NEW p \in Threads, WaitReturn(p)
        PROVE  Adding'
    <2>1. \A q \in Threads : AddingKept(q)
      BY <1>15
         DEF WaitReturn, devVars, tlVars, fenceVars, threadVars, At, Goto,
             TypeOK, Adding, AddingKept
    <2>2. QED
      BY <2>1, AddingFromKept
  <1>16. ASSUME NEW p \in Threads, WaitPut(p)
        PROVE  Adding'
    <2>1. \A q \in Threads : AddingKept(q)
      BY <1>16
         DEF WaitPut, devVars, tlVars, fenceVars, threadVars, At, Goto,
             TypeOK, Adding, AddingKept
    <2>2. QED
      BY <2>1, AddingFromKept
  <1>17. ASSUME NEW p \in Threads, FenceGetInstall(p)
        PROVE  Adding'
    <2>1. \A q \in Threads : AddingKept(q)
      BY <1>17
         DEF FenceGetInstall, devVars, tlVars, fenceVars, threadVars, At,
             Goto, TypeOK, Adding, AddingKept
    <2>2. QED
      BY <2>1, AddingFromKept
  <1>18. ASSUME NEW p \in Threads, kgsl_ioctl_timeline_fence_get(p)
        PROVE  Adding'
    <2>1. \A q \in Threads : AddingKept(q)
      BY <1>18
         DEF kgsl_ioctl_timeline_fence_get, devVars, tlVars, fenceVars,
             threadVars, At, Goto, TypeOK, Adding, AddingKept
    <2>2. QED
      BY <2>1, AddingFromKept
  <1>19. ASSUME NEW p \in Threads, timeline_fence_release(p)
        PROVE  Adding'
    <2>1. \A q \in Threads : AddingKept(q)
      BY <1>19
         DEF timeline_fence_release, devVars, tlVars, fenceVars, threadVars,
             At, Goto, TypeOK, Adding, AddingKept
    <2>2. QED
      BY <2>1, AddingFromKept
  <1>20. ASSUME NEW p \in Threads, DestroyScan(p)
        PROVE  Adding'
    <2>1. \A q \in Threads : AddingKept(q)
      BY <1>20
         DEF DestroyScan, devVars, tlVars, fenceVars, threadVars, At, Goto,
             TypeOK, Adding, AddingKept
    <2>2. QED
      BY <2>1, AddingFromKept
  <1>21. ASSUME NEW p \in Threads, DestroyScanEnd(p)
        PROVE  Adding'
    <2>1. \A q \in Threads : AddingKept(q)
      BY <1>21
         DEF DestroyScanEnd, devVars, tlVars, fenceVars, threadVars, At, Goto,
             TypeOK, Adding, AddingKept
    <2>2. QED
      BY <2>1, AddingFromKept
  <1>22. ASSUME NEW p \in Threads, DestroyLock(p)
        PROVE  Adding'
    <2>1. \A q \in Threads : AddingKept(q)
      BY <1>22
         DEF DestroyLock, devVars, tlVars, fenceVars, threadVars, At, Goto,
             TypeOK, Adding, AddingKept
    <2>2. QED
      BY <2>1, AddingFromKept
  <1>23. ASSUME NEW p \in Threads, DestroyFence(p)
        PROVE  Adding'
    <2>1. \A q \in Threads : AddingKept(q)
      BY <1>23
         DEF DestroyFence, devVars, tlVars, fenceVars, threadVars, At, Goto,
             TypeOK, Adding, AddingKept
    <2>2. QED
      BY <2>1, AddingFromKept
  <1>24. ASSUME NEW p \in Threads, kgsl_timeline_alloc(p)
        PROVE  Adding'
    <2>1. \A q \in Threads : AddingKept(q)
      BY <1>24
         DEF kgsl_timeline_alloc, FreeTimelines, devVars, tlVars, fenceVars,
             threadVars, At, Goto, TypeOK, Adding, AddingKept
    <2>2. QED
      BY <2>1, AddingFromKept
  <1>25. ASSUME NEW p \in Threads, kgsl_ioctl_timeline_signal(p)
        PROVE  Adding'
    <2>1. \A q \in Threads : AddingKept(q)
      BY <1>25
         DEF kgsl_ioctl_timeline_signal, devVars, tlVars, fenceVars,
             threadVars, At, Goto, TypeOK, Adding, AddingKept
    <2>2. QED
      BY <2>1, AddingFromKept
  <1>26. ASSUME NEW p \in Threads, FenceLookup(p)
        PROVE  Adding'
    <2>1. \A q \in Threads : AddingKept(q)
      BY <1>26
         DEF FenceLookup, devVars, tlVars, fenceVars, threadVars, At, Goto,
             TypeOK, Adding, AddingKept
    <2>2. QED
      BY <2>1, AddingFromKept
  <1>27. ASSUME NEW p \in Threads, WaitError(p)
        PROVE  Adding'
    <2>1. \A q \in Threads : AddingKept(q)
      BY <1>27
         DEF WaitError, devVars, tlVars, fenceVars, threadVars, At, Goto,
             TypeOK, Adding, AddingKept
    <2>2. QED
      BY <2>1, AddingFromKept
  <1>28. ASSUME NEW p \in Threads, WaitTimeout(p)
        PROVE  Adding'
    <2>1. \A q \in Threads : AddingKept(q)
      BY <1>28
         DEF WaitTimeout, devVars, tlVars, fenceVars, threadVars, At, Goto,
             TypeOK, Adding, AddingKept
    <2>2. QED
      BY <2>1, AddingFromKept
  <1>29. ASSUME NEW p \in Threads, CloseFd(p)
        PROVE  Adding'
    <2>1. \A q \in Threads : AddingKept(q)
      BY <1>29
         DEF CloseFd, devVars, tlVars, fenceVars, threadVars, At, Goto,
             TypeOK, Adding, AddingKept
    <2>2. QED
      BY <2>1, AddingFromKept
  <1>30. ASSUME NEW p \in Threads, kgsl_ioctl_timeline_query(p)
        PROVE  Adding'
    <2>1. \A q \in Threads : AddingKept(q)
      BY <1>30
         DEF kgsl_ioctl_timeline_query, devVars, tlVars, fenceVars,
             threadVars, At, Goto, TypeOK, Adding, AddingKept
    <2>2. QED
      BY <2>1, AddingFromKept
  <1>31. ASSUME NEW p \in Threads, kgsl_ioctl_timeline_destroy(p)
        PROVE  Adding'
    <2>1. \A q \in Threads : AddingKept(q)
      BY <1>31
         DEF kgsl_ioctl_timeline_destroy, devVars, tlVars, fenceVars,
             threadVars, At, Goto, TypeOK, Adding, AddingKept
    <2>2. QED
      BY <2>1, AddingFromKept
  <1>32. ASSUME NEW f \in Fences, Poll(f)
        PROVE  Adding'
    <2>1. \A q \in Threads : AddingKept(q)
      BY <1>32
         DEF Poll, devVars, tlVars, fenceVars, threadVars, At, Goto, TypeOK,
             Adding, AddingKept
    <2>2. QED
      BY <2>1, AddingFromKept
  <1>33. CASE UNCHANGED vars
    <2>1. \A q \in Threads : AddingKept(q)
      BY <1>33
         DEF vars, devVars, tlVars, fenceVars, threadVars, At, Goto, TypeOK,
             Adding, AddingKept
    <2>2. QED
      BY <2>1, AddingFromKept
  <1>34. QED
    BY <1>1, <1>2, <1>3, <1>4, <1>5, <1>6, <1>7, <1>8, <1>9, <1>10, <1>11,
       <1>12, <1>13, <1>14, <1>15, <1>16, <1>17, <1>18, <1>19, <1>20, <1>21,
       <1>22, <1>23, <1>24, <1>25, <1>26, <1>27, <1>28, <1>29, <1>30, <1>31,
       <1>32, <1>33
       DEF Next, Step, Choose


\* Every step keeps Covered.
LEMMA CoveredStep ==
    ASSUME TypeOK, TypeOK', Control, Locks, Lists, Allocs, Releases, Users, Empties,
           Covered, [Next]_vars
    PROVE  Covered'
  <1>1. (\A f \in Fences : Cover(f)) /\ Adding
    BY CoveredParts
  <1>2. ASSUME NEW p \in Threads, SignalLock(p)
        PROVE  (\A f \in Fences : Cover(f)') /\ Adding'
    BY <1>1, <1>2, CoverSignal
  <1>3. ASSUME Steady
        PROVE  (\A f \in Fences : Cover(f)') /\ Adding'
    <2>1. FreedIsDead
      BY FreedIsDeadStep
    <2>2. \A f \in Fences : Cover(f)'
      BY <1>1, <1>3, CoverStep
    <2>3. Adding'
      BY <1>1, <1>3, <2>1, AddingStep
    <2>4. QED
      BY <2>2, <2>3
  <1>4. QED
    BY <1>2, <1>3, SteadyStep, CoveredPartsPrime

-----------------------------------------------------------------------------
(***************************************************************************)
(* The invariant and the theorems.                                         *)
(***************************************************************************)
\* The inductive invariant.
IInv ==
    /\ TypeOK /\ Control /\ Locks /\ Lists /\ Allocs /\ Releases
    /\ TimelineRefCount /\ FenceRefCount
    /\ IdsKept /\ Reached /\ Covered

\* Nobody uses anything at first.
LEMMA InitIInv ==
    ASSUME Init
    PROVE  IInv
  <1>1. /\ None \notin Timelines /\ None \notin Fences /\ None \notin Threads
        /\ None \notin Ids /\ Reserved # None
        /\ IsFiniteSet(Threads) /\ IsFiniteSet(Fences) /\ IsFiniteSet(Ids)
    BY TimelineAssumption
  <1>2. TypeOK
    <2>1. 0 \in Seqno /\ <<>> \in Seq(Fences)
      BY TimelineAssumption DEF Seqno
    <2>2. QED
      BY <2>1 DEF Init, TypeOK, PCs
  <1>3. Control /\ Locks
    BY <1>1 DEF Init, Control, Locks, FreePCs, AllocPCs, LockPCs, ScanPCs
  <1>4. Range(<<>>) = {} /\ Distinct(<<>>)
    BY EmptyRange DEF Distinct
  <1>5. /\ \A t \in Timelines : fences[t] = <<>>
        /\ \A p \in Threads : /\ temp[p] = <<>> /\ got[p] = <<>> /\ cur[p] = None
                              /\ rel[p] = None /\ tl[p] = None /\ pc[p] = "idle"
        /\ \A f \in Fences : ftl[f] = None /\ fref[f] = 0
        /\ \A id \in Ids : idr[id] = None
        /\ \A t \in Timelines : ref[t] = 0
        /\ fd = {}
    BY DEF Init
  <1>6. Lists
    BY <1>4, <1>5 DEF Lists, ListSets, ScanInside, ScanPCs
  <1>7. Allocs
    BY <1>5 DEF Allocs
  <1>8. Releases
    BY <1>5 DEF Releases
  <1>9. Cardinality({}) = 0
    BY FS_EmptySet
  <1>10. TimelineRefCount
    <2>1. \A t \in Timelines : IdrRefs(t) = {} /\ ThreadRefs(t) = {} /\ FenceRefs(t) = {}
      BY <1>1, <1>5 DEF IdrRefs, ThreadRefs, FenceRefs
    <2>2. ASSUME NEW t \in Timelines
          PROVE  /\ ref[t] = 0 /\ Cardinality(IdrRefs(t)) = 0
                 /\ Cardinality(ThreadRefs(t)) = 0 /\ Cardinality(FenceRefs(t)) = 0
      BY <1>5, <1>9, <2>1
    <2>3. QED
      BY <2>2 DEF TimelineRefCount
  <1>11. FenceRefCount
    <2>1. \A p \in Threads : ScanRefs(p) = {} /\ Range(got[p]) = {}
      BY <1>4, <1>5 DEF ScanRefs
    <2>2. ASSUME NEW f \in Fences
          PROVE  /\ {p \in Threads : cur[p] = f} = {}
                 /\ {p \in Threads : f \in Range(got[p])} = {}
                 /\ {p \in Threads : f \in ScanRefs(p)} = {}
                 /\ f \notin fd
      BY <1>1, <1>5, <2>1
    <2>3. ASSUME NEW f \in Fences
          PROVE  /\ fref[f] = 0 /\ Cardinality({p \in Threads : cur[p] = f}) = 0
                 /\ Cardinality({p \in Threads : f \in Range(got[p])}) = 0
                 /\ Cardinality({p \in Threads : f \in ScanRefs(p)}) = 0
                 /\ f \notin fd
      BY <1>5, <1>9, <2>2, Zenon
    <2>4. QED
      BY <2>3 DEF FenceRefCount
  <1>12. IdsKept
    BY <1>1, <1>5 DEF IdsKept, IdNamesOneTimeline, DestroyPCs
  <1>13. Reached
    BY <1>5 DEF Reached, NoEarlySignal
  <1>14. Covered
    BY <1>5 DEF Covered, NoLostSignal
  <1>15. QED
    BY <1>2, <1>3, <1>6, <1>7, <1>8, <1>10, <1>11, <1>12, <1>13, <1>14 DEF IInv

\* Every step keeps the invariant: what the counts say of the users of a
\* timeline and of a fence is what each part needs.
LEMMA NextIInv ==
    ASSUME IInv, [Next]_vars
    PROVE  IInv'
  <1>1. /\ TypeOK /\ Control /\ Locks /\ Lists /\ Allocs /\ Releases
        /\ TimelineRefCount /\ FenceRefCount
        /\ IdsKept /\ Reached /\ Covered
    BY DEF IInv
  <1>2. Users /\ Empties
    BY <1>1, CountsGiveUsers, ControlGivesEmpties
  <1>3. TypeOK'
    BY <1>1, <1>2, TypeStep
  <1>4. Control' /\ Locks'
    BY <1>1, <1>2, ControlStep, LocksStep
  <1>5. Lists'
    BY <1>1, <1>2, ListSetsStep, ScanInsideStep DEF Lists
  <1>6. Allocs' /\ Releases'
    BY <1>1, <1>2, AllocsStep, ReleasesStep
  <1>7. TimelineRefCount' /\ FenceRefCount'
    BY <1>1, <1>2, TimelineRefCountStep, FenceRefCountStep
  <1>8. IdsKept'
    BY <1>1, <1>2, IdsKeptStep
  <1>9. Reached'
    BY <1>1, <1>2, <1>3, ReachedStep
  <1>10. Covered'
    BY <1>1, <1>2, <1>3, CoveredStep
  <1>11. QED
    BY <1>3, <1>4, <1>5, <1>6, <1>7, <1>8, <1>9, <1>10 DEF IInv

\* The invariant of the whole of kgsl_timeline.c: the counts, the locks, the
\* lists, the ids and the signals hold together in every reachable state.
THEOREM TimelineInvariant == Spec => []IInv
  <1>1. Init => IInv
    BY InitIInv
  <1>2. IInv /\ [Next]_vars => IInv'
    BY NextIInv
  <1>3. QED
    BY <1>1, <1>2, PTL DEF Spec

\* Every variable keeps its type, the counts included: no kref goes below 0.
THEOREM TimelineTypes == Spec => []TypeOK
  <1>1. IInv => TypeOK
    BY DEF IInv
  <1>2. QED
    BY <1>1, TimelineInvariant, PTL

\* The kref of a timeline is exact (kgsl_timeline_get and kgsl_timeline_put):
\* neither a use after free nor a leak, whatever the threads interleave.
THEOREM TimelineCounted == Spec => []TimelineRefCount
  <1>1. IInv => TimelineRefCount
    BY DEF IInv
  <1>2. QED
    BY <1>1, TimelineInvariant, PTL

\* The kref of a fence is exact, the references that the scans of signal and
\* destroy take with kref_get_unless_zero included.
THEOREM FencesCounted == Spec => []FenceRefCount
  <1>1. IInv => FenceRefCount
    BY DEF IInv
  <1>2. QED
    BY <1>1, TimelineInvariant, PTL

\* The list walks never meet freed memory: a fence on a list or pinned by a
\* scan is allocated, and a count of 0 is inside one timeline_fence_release.
THEOREM ListsHoldNoFreedFence == Spec => []NoFreedFenceListed
  <1>1. ASSUME IInv
        PROVE  NoFreedFenceListed
    <2>1. /\ TypeOK /\ Control /\ Lists /\ Releases /\ Users
      BY <1>1, CountsGiveUsers DEF IInv
    <2>2. ASSUME NEW f \in Fences
          PROVE  Cardinality({p \in Threads : rel[p] = f})
                     = (IF ftl[f] # None /\ fref[f] = 0 THEN 1 ELSE 0)
      <3>1. f # None
        BY TimelineAssumption
      <3>2. CASE ftl[f] # None /\ fref[f] = 0
        <4>1. PICK p \in Threads : rel[p] = f
          BY <2>1, <3>2 DEF Releases
        <4>2. {q \in Threads : rel[q] = f} = {p}
          BY <2>1, <3>1, <4>1 DEF Releases
        <4>3. QED
          BY <3>2, <4>2, FS_Singleton
      <3>3. CASE ~(ftl[f] # None /\ fref[f] = 0)
        <4>1. {q \in Threads : rel[q] = f} = {}
          BY <2>1, <3>1, <3>3 DEF Releases
        <4>2. QED
          BY <3>3, <4>1, FS_EmptySet
      <3>4. QED
        BY <3>2, <3>3
    <2>3. \A t \in Timelines : \A f \in Range(fences[t]) : ftl[f] = t
      BY <2>1 DEF Lists, ListSets
    <2>4. ASSUME NEW p \in Threads, NEW f \in ScanRefs(p) \cup Range(got[p])
          PROVE  ftl[f] # None /\ fref[f] > 0
      <3>1. f \in Fences
        BY <2>1, ScanRefsType, ListsOfFences
      <3>2. fref[f] > 0
        BY <2>1 DEF Users
      <3>3. QED
        BY <2>1, <3>1, <3>2 DEF Releases
    <2>5. QED
      BY <2>2, <2>3, <2>4 DEF NoFreedFenceListed
  <1>2. QED
    BY <1>1, TimelineInvariant, PTL

\* No fence is forgotten: whoever moves the timeline to its number signals it
\* or finds that somebody else is about to (the comment at
\* kgsl_timeline.c:310).
THEOREM NoSignalLost == Spec => []NoLostSignal
  <1>1. IInv => NoLostSignal
    BY DEF IInv, Covered
  <1>2. QED
    BY <1>1, TimelineInvariant, PTL

\* No fence fires before its number is reached, and one fires with an error
\* only when the id of its timeline is gone.
THEOREM NoSignalEarly == Spec => []NoEarlySignal
  <1>1. IInv => NoEarlySignal
    BY DEF IInv, Reached
  <1>2. QED
    BY <1>1, TimelineInvariant, PTL

\* The WARN_ON of kgsl_timeline_destroy never fires.
THEOREM DestroyedIsEmpty == Spec => []NoFencesAtDestroy
  <1>1. ASSUME IInv
        PROVE  NoFencesAtDestroy
    <2>1. TypeOK /\ Control /\ Locks /\ Lists /\ Users
      BY <1>1, CountsGiveUsers DEF IInv
    <2>2. QED
      BY <2>1, FreeIsClean DEF NoFencesAtDestroy
  <1>2. QED
    BY <1>1, TimelineInvariant, PTL

\* The idr never maps an id to a timeline that was not given this id, and an
\* id that is being created stays reserved (kgsl_timeline.c:133, 340).
THEOREM IdsName == Spec => []IdNamesOneTimeline
  <1>1. IInv => IdNamesOneTimeline
    BY DEF IInv, IdsKept
  <1>2. QED
    BY <1>1, TimelineInvariant, PTL
=============================================================================
