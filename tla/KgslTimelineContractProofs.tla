---------------------- MODULE KgslTimelineContractProofs ----------------------
(***************************************************************************)
(* The driver keeps the safety part of TimelineContract, for any number of *)
(* threads, timelines, fences and ids: every step of a thread is one step  *)
(* of the contract, or none.                                               *)
(***************************************************************************)
EXTENDS KgslTimelineProofs

\* The timelines that can be found by their id or will be, and those in use.
Published == {t \in Timelines :
                \/ t \in Range(idr)
                \/ \E p \in Threads : pc[p] = "commit" /\ tl[p] = t}
InUse == {t \in Timelines : ref[t] > 0}

\* A step that the contract does not see.
Unseen == UNCHANGED <<Published, InUse, value, ftl, fseq, FenceState>>

\* The steps of the contract, in terms of the driver.
Seen ==
    \/ Unseen
    \/ \E t \in Timelines, n \in Seqno :
        \/ Contract!Create(t, n) \/ Contract!Advance(t, n)
    \/ \E t \in Timelines : Contract!Destroy(t) \/ Contract!Retire(t)
    \/ \E f \in Fences, t \in Timelines, n \in Seqno : Contract!NewFence(f, t, n)
    \/ \E f \in Fences :
        Contract!Fire(f) \/ Contract!Fail(f) \/ Contract!Drop(f) \/ Contract!Release(f)

\* They are the steps of the contract.
LEMMA SeenIsStep ==
    ASSUME Seen
    PROVE  [Contract!Next]_(Contract!avars)
  <1>1. ASSUME Unseen
        PROVE  UNCHANGED Contract!avars
    BY <1>1 DEF Unseen, Published, InUse, Contract!avars
  <1>2. Seqno = Contract!Seqno
    BY DEF Seqno, Contract!Seqno
  <1>3. QED
    BY <1>1, <1>2 DEF Seen, Contract!Next

\* The state of one fence.
StateOf(f) ==
    IF ftl[f] = None \/ fref[f] = 0 THEN "free"
    ELSE IF ~sig[f] THEN "pending"
    ELSE IF err[f] THEN "failed" ELSE "done"

\* FenceState is this, fence by fence.
LEMMA StateIs ==
    /\ FenceState = [f \in Fences |-> StateOf(f)]
    /\ FenceState' = [f \in Fences |-> StateOf(f)']
  BY DEF FenceState, StateOf

\* A step that changes the state of no fence.
LEMMA StateSame ==
    ASSUME \A f \in Fences : StateOf(f)' = StateOf(f)
    PROVE  FenceState' = FenceState
  BY StateIs

\* A step that changes the state of g.
LEMMA StateMove ==
    ASSUME NEW g \in Fences, NEW s, StateOf(g)' = s,
           \A f \in Fences : f # g => StateOf(f)' = StateOf(f)
    PROVE  FenceState' = [FenceState EXCEPT ![g] = s] /\ FenceState[g] = StateOf(g)
  BY StateIs

\* A step that leaves the fences alone.
LEMMA StateIdle ==
    ASSUME UNCHANGED <<ftl, fref, sig, err>>
    PROVE  FenceState' = FenceState
  BY DEF FenceState

\* A step in which nobody creates, commits or removes an id.
LEMMA PublishedIdle ==
    ASSUME UNCHANGED idr,
           \A q \in Threads :
             /\ pc'[q] = "commit" <=> pc[q] = "commit"
             /\ pc[q] = "commit" => tl'[q] = tl[q]
    PROVE  Published' = Published
  BY DEF Published

\* A timeline is in use after a reference is taken if it was before.
LEMMA InUseGet ==
    ASSUME TypeOK, NEW u \in Timelines, ref[u] > 0, ref' = [ref EXCEPT ![u] = @ + 1]
    PROVE  InUse' = InUse
  BY DEF InUse, TypeOK

\* The end of an ioctl puts the timeline: the contract sees the last put.
LEMMA SeenPut ==
    ASSUME TypeOK, Users, NEW p \in Threads, tl[p] \in Timelines, pc[p] # "commit",
           kgsl_timeline_put(tl[p]), UNCHANGED <<Published, ftl, fseq, FenceState>>
    PROVE  Seen
  <1>1. PICK t \in Timelines : t = tl[p]
    OBVIOUS
  <1>2. t # None /\ ref[t] > 0 /\ ref[t] \in Nat
    BY <1>1, TimelineAssumption DEF Users, TypeOK
  <1>3. ref' = [ref EXCEPT ![t] = @ - 1]
    BY <1>1 DEF kgsl_timeline_put
  <1>4. CASE ref[t] = 1
    <2>1. InUse' = InUse \ {t} /\ t \in InUse
      BY <1>2, <1>3, <1>4 DEF InUse, TypeOK
    <2>2. value' = [value EXCEPT ![t] = 0]
      BY <1>1, <1>4 DEF kgsl_timeline_put
    <2>3. /\ \A f \in Fences : ftl[f] # t
          /\ \A id \in Ids : idr[id] # t
          /\ \A q \in Threads : tl[q] = t => q = p
      BY <1>1, <1>2, <1>4 DEF Users
    <2>4. t \notin Published
      BY <2>3, IdrRange DEF Published
    <2>5. Contract!Retire(t)
      BY <2>1, <2>2, <2>3, <2>4 DEF Contract!Retire, InUse, Published
    <2>6. QED
      BY <2>5 DEF Seen
  <1>5. CASE ref[t] # 1
    <2>1. InUse' = InUse
      BY <1>2, <1>3, <1>5 DEF InUse, TypeOK
    <2>2. value' = value
      BY <1>1, <1>5 DEF kgsl_timeline_put, TypeOK
    <2>3. QED
      BY <2>1, <2>2 DEF Seen, Unseen
  <1>6. QED
    BY <1>4, <1>5

\* A reference on a fence is put: the contract sees the last put.
LEMMA SeenDrop ==
    ASSUME TypeOK, NEW p \in Threads, NEW g \in Fences, fref[g] > 0, ftl[g] # None,
           dma_fence_put(p, g), UNCHANGED <<Published, ref, value, ftl, fseq, sig, err>>
    PROVE  Seen
  <1>1. fref[g] \in Nat /\ fref'[g] = fref[g] - 1 /\ \A f \in Fences : f # g => fref'[f] = fref[f]
    BY DEF TypeOK, dma_fence_put
  <1>2. \A f \in Fences : f # g => StateOf(f)' = StateOf(f)
    BY <1>1 DEF StateOf
  <1>3. InUse' = InUse
    BY DEF InUse
  <1>4. CASE fref[g] = 1
    <2>1. StateOf(g)' = "free" /\ StateOf(g) # "free"
      BY <1>1, <1>4 DEF StateOf
    <2>2. FenceState' = [FenceState EXCEPT ![g] = "free"] /\ FenceState[g] # "free"
      BY <1>2, <2>1, StateMove
    <2>3. Contract!Drop(g)
      BY <1>3, <2>2 DEF Contract!Drop, Published, InUse
    <2>4. QED
      BY <2>3 DEF Seen
  <1>5. CASE fref[g] # 1
    <2>1. StateOf(g)' = StateOf(g)
      BY <1>1, <1>5 DEF StateOf
    <2>2. FenceState' = FenceState
      BY <1>2, <2>1, StateSame
    <2>3. QED
      BY <1>3, <2>2 DEF Seen, Unseen
  <1>6. QED
    BY <1>4, <1>5

\* A fence whose number is reached is signaled, and perhaps put: the contract
\* sees it fire, or drops it.
LEMMA SeenFire ==
    ASSUME TypeOK, NEW g \in Fences, fref[g] > 0, ftl[g] # None,
           timeline_fence_signaled(g), sig' = [sig EXCEPT ![g] = TRUE],
           fref'[g] \in Nat, \A f \in Fences : f # g => fref'[f] = fref[f],
           UNCHANGED <<Published, ref, value, ftl, fseq, err>>, err[g] => sig[g]
    PROVE  Seen
  <1>1. sig'[g] /\ \A f \in Fences : f # g => sig'[f] = sig[f]
    BY DEF TypeOK
  <1>2. \A f \in Fences : f # g => StateOf(f)' = StateOf(f)
    BY <1>1 DEF StateOf
  <1>3. InUse' = InUse
    BY DEF InUse
  <1>4. StateOf(g) # "free"
    BY DEF StateOf
  <1>5. CASE fref'[g] = 0
    <2>1. StateOf(g)' = "free"
      BY <1>5 DEF StateOf
    <2>2. FenceState' = [FenceState EXCEPT ![g] = "free"] /\ FenceState[g] # "free"
      BY <1>2, <1>4, <2>1, StateMove
    <2>3. Contract!Drop(g)
      BY <1>3, <2>2 DEF Contract!Drop, Published, InUse
    <2>4. QED
      BY <2>3 DEF Seen
  <1>6. CASE fref'[g] # 0 /\ ~sig[g] /\ ~err[g]
    <2>1. StateOf(g)' = "done" /\ StateOf(g) = "pending"
      BY <1>1, <1>6 DEF StateOf
    <2>2. FenceState' = [FenceState EXCEPT ![g] = "done"] /\ FenceState[g] = "pending"
      BY <1>2, <2>1, StateMove
    <2>3. Contract!Fire(g)
      BY <1>3, <2>2
         DEF Contract!Fire, Contract!Reached, Published, InUse,
             timeline_fence_signaled
    <2>4. QED
      BY <2>3 DEF Seen
  <1>7. CASE fref'[g] # 0 /\ sig[g]
    <2>1. StateOf(g)' = StateOf(g)
      BY <1>1, <1>7 DEF StateOf
    <2>2. FenceState' = FenceState
      BY <1>2, <2>1, StateSame
    <2>3. QED
      BY <1>3, <2>2 DEF Seen, Unseen
  <1>8. CASE ~sig[g] /\ err[g]
    BY <1>8
  <1>9. QED
    BY <1>5, <1>6, <1>7, <1>8

\* What each step is to the contract: a lookup, a scan or an unlock is
\* nothing, a last put drops or retires, a signal fires or fails.
LEMMA SeenStep ==
    ASSUME TypeOK, Control, Locks, Lists, Allocs, Releases, Users, Empties,
           IdsKept, Reached, [Next]_vars
    PROVE  Seen
  <1>1. ASSUME NEW p \in Threads, kgsl_ioctl_timeline_create(p)
        PROVE  Seen
    <2>1. /\ idr' = [idr EXCEPT ![tid[tl[p]]] = tl[p]] /\ tl' = [tl EXCEPT ![p] = None]
          /\ pc' = [pc EXCEPT ![p] = "idle"] /\ pc[p] = "commit"
          /\ UNCHANGED <<ref, value, ftl, fseq, FenceState>>
      BY <1>1, StateIdle
         DEF kgsl_ioctl_timeline_create, tlVars, fenceVars, At, Goto
    <2>2. /\ tl[p] \in Timelines /\ tid[tl[p]] \in Ids /\ idr[tid[tl[p]]] = Reserved
          /\ Reserved \notin Timelines
      BY <2>1, ThreadsTimeline, TimelineAssumption
         DEF FreePCs, IdsKept, IdNamesOneTimeline
    <2>3. \A t : t \in Range(idr') <=> \E id \in Ids : idr'[id] = t
      BY <2>1 DEF TypeOK, Range
    <2>4. \A t \in Timelines :
            (\E id \in Ids : idr'[id] = t) <=> t = tl[p] \/ (\E id \in Ids : idr[id] = t)
      BY <2>1, <2>2 DEF TypeOK
    <2>5. \A t \in Timelines : t # tl[p] =>
            ((\E q \in Threads : pc'[q] = "commit" /\ tl'[q] = t)
              <=> (\E q \in Threads : pc[q] = "commit" /\ tl[q] = t))
      BY <2>1 DEF TypeOK
    <2>6. Published' = Published
      BY <2>1, <2>3, <2>4, <2>5, IdrRange DEF Published
    <2>7. QED
      BY <2>1, <2>6 DEF Seen, Unseen, InUse
  <1>2. ASSUME NEW p \in Threads, SignalLock(p)
        PROVE  Seen
    <2>1. Published' = Published
      <3>1. /\ UNCHANGED idr
            /\ \A q \in Threads : /\ pc'[q] = "commit" <=> pc[q] = "commit"
                                  /\ pc[q] = "commit" => tl'[q] = tl[q]
        BY <1>2
           DEF SignalLock, At, Goto, devVars, tlVars, fenceVars, threadVars,
               TypeOK
      <3>2. QED
        BY <3>1, PublishedIdle
    <2>2. /\ UNCHANGED <<ref, ftl, fseq, FenceState>> /\ InUse' = InUse
      BY <1>2, StateIdle DEF SignalLock, fenceVars, InUse
    <2>3. PICK t \in Timelines : t = tl[p] /\ ref[t] > 0
      BY <1>2, ThreadsTimeline DEF SignalLock, At, FreePCs
    <2>4. seq[p] \in Seqno /\ value[t] \in Seqno /\ seq[p] \in Int /\ value[t] \in Int
      BY TimelineAssumption DEF TypeOK, Seqno
    <2>5. CASE UNCHANGED value
      BY <2>1, <2>2, <2>5 DEF Seen, Unseen
    <2>6. CASE seq[p] >= value[t] /\ value' = [value EXCEPT ![t] = seq[p]]
      <3>1. CASE seq[p] = value[t]
        <4>1. value' = value
          BY <2>6, <3>1 DEF TypeOK
        <4>2. QED
          BY <2>1, <2>2, <4>1 DEF Seen, Unseen
      <3>2. CASE seq[p] > value[t]
        <4>1. Contract!Advance(t, seq[p])
          BY <2>1, <2>2, <2>3, <2>6, <3>2 DEF Contract!Advance, Published, InUse
        <4>2. QED
          BY <2>4, <4>1 DEF Seen
      <3>3. QED
        BY <2>4, <2>6, <3>1, <3>2
    <2>7. QED
      BY <1>2, <2>3, <2>5, <2>6 DEF SignalLock
  <1>3. ASSUME NEW p \in Threads, ScanLock(p)
        PROVE  Seen
    <2>1. Published' = Published
      <3>1. /\ UNCHANGED idr
            /\ \A q \in Threads : /\ pc'[q] = "commit" <=> pc[q] = "commit"
                                  /\ pc[q] = "commit" => tl'[q] = tl[q]
        BY <1>3
           DEF ScanLock, At, Goto, devVars, tlVars, fenceVars, threadVars,
               TypeOK
      <3>2. QED
        BY <3>1, PublishedIdle
    <2>2. UNCHANGED <<ref, value, ftl, fseq, fref, sig, err>>
      BY <1>3 DEF ScanLock, devVars, tlVars, fenceVars, threadVars
    <2>3. QED
      BY <2>1, <2>2, StateIdle DEF Seen, Unseen, InUse
  <1>4. ASSUME NEW p \in Threads, SignalScan(p)
        PROVE  Seen
    <2>1. Published' = Published
      <3>1. /\ UNCHANGED idr
            /\ \A q \in Threads : /\ pc'[q] = "commit" <=> pc[q] = "commit"
                                  /\ pc[q] = "commit" => tl'[q] = tl[q]
        BY <1>4
           DEF SignalScan, At, Goto, devVars, tlVars, fenceVars, threadVars,
               TypeOK
      <3>2. QED
        BY <3>1, PublishedIdle
    <2>2. UNCHANGED <<ref, value, ftl, fseq, sig, err>>
      BY <1>4 DEF SignalScan, devVars, tlVars, fenceVars, threadVars
    <2>3. PICK g \in Fences : g = fences[tl[p]][idx[p]]
      BY <1>4, SignalScanShape
    <2>4. \A f \in Fences : fref'[f] = 0 <=> fref[f] = 0
      <3>1. CASE fref[g] > 0 /\ fref' = [fref EXCEPT ![g] = @ + 1]
        BY <3>1 DEF TypeOK
      <3>2. CASE UNCHANGED fref
        BY <3>2
      <3>3. QED
        BY <1>4, <2>3, <3>1, <3>2 DEF SignalScan
    <2>5. FenceState' = FenceState
      BY <2>2, <2>4, StateSame DEF StateOf
    <2>6. QED
      BY <2>1, <2>2, <2>5 DEF Seen, Unseen, InUse
  <1>5. ASSUME NEW p \in Threads, SignalScanEnd(p)
        PROVE  Seen
    <2>1. Published' = Published
      <3>1. /\ UNCHANGED idr
            /\ \A q \in Threads : /\ pc'[q] = "commit" <=> pc[q] = "commit"
                                  /\ pc[q] = "commit" => tl'[q] = tl[q]
        BY <1>5
           DEF SignalScanEnd, At, Goto, devVars, tlVars, fenceVars,
               threadVars, TypeOK
      <3>2. QED
        BY <3>1, PublishedIdle
    <2>2. UNCHANGED <<ref, value, ftl, fseq, fref, sig, err>>
      BY <1>5 DEF SignalScanEnd, devVars, tlVars, fenceVars, threadVars
    <2>3. QED
      BY <2>1, <2>2, StateIdle DEF Seen, Unseen, InUse
  <1>6. ASSUME NEW p \in Threads, SignalFence(p)
        PROVE  Seen
    <2>1. Published' = Published
      <3>1. /\ UNCHANGED idr
            /\ \A q \in Threads : /\ pc'[q] = "commit" <=> pc[q] = "commit"
                                  /\ pc[q] = "commit" => tl'[q] = tl[q]
        BY <1>6
           DEF SignalFence, At, Goto, dma_fence_put, devVars, tlVars,
               fenceVars, threadVars, TypeOK
      <3>2. QED
        BY <3>1, PublishedIdle
    <2>2. PICK g \in Fences : g = Head(temp[p]) /\ g \in Range(temp[p])
      BY <1>6, PopShape DEF SignalFence
    <2>3. /\ UNCHANGED <<ref, value, ftl, fseq, err>> /\ sig' = [sig EXCEPT ![g] = TRUE]
          /\ dma_fence_put(p, g)
      BY <1>6, <2>2 DEF SignalFence, tlVars
    <2>4. fref[g] > 0
      BY <2>2 DEF Users, ScanRefs
    <2>5. ftl[g] # None /\ timeline_fence_signaled(g)
      BY <1>6, <2>2, <2>4 DEF SignalFence, At, Releases, Reached
    <2>6. fref'[g] \in Nat /\ \A f \in Fences : f # g => fref'[f] = fref[f]
      BY <2>3, <2>4 DEF dma_fence_put, TypeOK
    <2>7. err[g] => sig[g]
      BY <2>5 DEF Reached
    <2>8. QED
      BY <2>1, <2>3, <2>4, <2>5, <2>6, <2>7, SeenFire
  <1>7. ASSUME NEW p \in Threads, SignalUnlock(p)
        PROVE  Seen
    <2>1. Published' = Published
      <3>1. /\ UNCHANGED idr
            /\ \A q \in Threads : /\ pc'[q] = "commit" <=> pc[q] = "commit"
                                  /\ pc[q] = "commit" => tl'[q] = tl[q]
        BY <1>7
           DEF SignalUnlock, At, Goto, devVars, tlVars, fenceVars, threadVars,
               TypeOK
      <3>2. QED
        BY <3>1, PublishedIdle
    <2>2. UNCHANGED <<ref, value, ftl, fseq, fref, sig, err>>
      BY <1>7 DEF SignalUnlock, devVars, tlVars, fenceVars, threadVars
    <2>3. QED
      BY <2>1, <2>2, StateIdle DEF Seen, Unseen, InUse
  <1>8. ASSUME NEW p \in Threads, PutTimeline(p)
        PROVE  Seen
    <2>1. Published' = Published
      <3>1. /\ UNCHANGED idr
            /\ \A q \in Threads : /\ pc'[q] = "commit" <=> pc[q] = "commit"
                                  /\ pc[q] = "commit" => tl'[q] = tl[q]
        BY <1>8
           DEF PutTimeline, At, Goto, kgsl_timeline_put, devVars, tlVars,
               fenceVars, threadVars, TypeOK
      <3>2. QED
        BY <3>1, PublishedIdle
    <2>2. /\ UNCHANGED <<ftl, fseq, FenceState>> /\ kgsl_timeline_put(tl[p]) /\ pc[p] # "commit"
      BY <1>8, StateIdle DEF PutTimeline, At, fenceVars
    <2>3. tl[p] \in Timelines
      BY <1>8, ThreadsTimeline DEF PutTimeline, At, FreePCs
    <2>4. QED
      BY <2>1, <2>2, <2>3, SeenPut
  <1>9. ASSUME NEW p \in Threads, kgsl_timeline_fence_alloc(p)
        PROVE  Seen
    <2>1. Published' = Published
      <3>1. /\ UNCHANGED idr
            /\ \A q \in Threads : /\ pc'[q] = "commit" <=> pc[q] = "commit"
                                  /\ pc[q] = "commit" => tl'[q] = tl[q]
        BY <1>9
           DEF kgsl_timeline_fence_alloc, At, Goto, FreeFences, devVars,
               tlVars, fenceVars, threadVars, TypeOK
      <3>2. QED
        BY <3>1, PublishedIdle
    <2>2. PICK g \in Fences : /\ ftl[g] = None /\ ftl' = [ftl EXCEPT ![g] = tl[p]]
                              /\ fseq' = [fseq EXCEPT ![g] = seq[p]]
                              /\ fref' = [fref EXCEPT ![g] = 1]
                              /\ sig' = [sig EXCEPT ![g] = FALSE]
                              /\ err' = [err EXCEPT ![g] = FALSE]
      BY <1>9 DEF kgsl_timeline_fence_alloc, FreeFences
    <2>3. /\ UNCHANGED value /\ ref' = [ref EXCEPT ![tl[p]] = @ + 1]
          /\ tl[p] \in Timelines /\ ref[tl[p]] > 0 /\ tl[p] # None /\ seq[p] \in Seqno
      BY <1>9, ThreadsTimeline, TimelineAssumption
         DEF kgsl_timeline_fence_alloc, At, FreePCs, TypeOK
    <2>4. InUse' = InUse
      BY <2>3, InUseGet
    <2>5. ftl'[g] = tl[p] /\ fref'[g] = 1 /\ ~sig'[g]
      BY <2>2 DEF TypeOK
    <2>6. \A f \in Fences : f # g =>
            ftl'[f] = ftl[f] /\ fref'[f] = fref[f] /\ sig'[f] = sig[f] /\ err'[f] = err[f]
      BY <2>2 DEF TypeOK
    <2>7. StateOf(g)' = "pending" /\ \A f \in Fences : f # g => StateOf(f)' = StateOf(f)
      BY <2>3, <2>5, <2>6 DEF StateOf
    <2>8. FenceState' = [FenceState EXCEPT ![g] = "pending"]
      BY <2>7, StateMove
    <2>9. Contract!NewFence(g, tl[p], seq[p])
      BY <2>1, <2>2, <2>3, <2>4, <2>8 DEF Contract!NewFence, Published, InUse
    <2>10. QED
      BY <2>3, <2>9 DEF Seen
  <1>10. ASSUME NEW p \in Threads, FenceAllocFails(p)
        PROVE  Seen
    <2>1. Published' = Published
      <3>1. /\ UNCHANGED idr
            /\ \A q \in Threads : /\ pc'[q] = "commit" <=> pc[q] = "commit"
                                  /\ pc[q] = "commit" => tl'[q] = tl[q]
        BY <1>10
           DEF FenceAllocFails, At, Goto, kgsl_timeline_put, devVars, tlVars,
               fenceVars, threadVars, TypeOK
      <3>2. QED
        BY <3>1, PublishedIdle
    <2>2. UNCHANGED <<ftl, fseq, FenceState>> /\ pc[p] # "commit"
      BY <1>10, StateIdle DEF FenceAllocFails, At, fenceVars
    <2>3. tl[p] \in Timelines
      BY <1>10, ThreadsTimeline DEF FenceAllocFails, At, FreePCs
    <2>4. CASE UNCHANGED <<ref, value>>
      BY <2>1, <2>2, <2>4 DEF Seen, Unseen, InUse
    <2>5. CASE kgsl_timeline_put(tl[p])
      BY <2>1, <2>2, <2>3, <2>5, SeenPut
    <2>6. QED
      BY <1>10, <2>4, <2>5 DEF FenceAllocFails
  <1>11. ASSUME NEW p \in Threads, FenceLock(p)
        PROVE  Seen
    <2>1. Published' = Published
      <3>1. /\ UNCHANGED idr
            /\ \A q \in Threads : /\ pc'[q] = "commit" <=> pc[q] = "commit"
                                  /\ pc[q] = "commit" => tl'[q] = tl[q]
        BY <1>11
           DEF FenceLock, At, Goto, devVars, tlVars, fenceVars, threadVars,
               TypeOK
      <3>2. QED
        BY <3>1, PublishedIdle
    <2>2. PICK g \in Fences : g = cur[p] /\ fref[g] > 0
      BY <1>11, ThreadsTimeline DEF FenceLock, At, AllocPCs
    <2>3. /\ UNCHANGED <<ref, value, ftl, fseq, fref, err>>
      BY <1>11 DEF FenceLock
    <2>4. CASE UNCHANGED sig
      BY <2>1, <2>3, <2>4, StateIdle DEF Seen, Unseen, InUse
    <2>5. CASE timeline_fence_signaled(g) /\ sig' = [sig EXCEPT ![g] = TRUE]
      <3>1. ftl[g] # None
        BY <2>2 DEF Releases
      <3>2. (err[g] => sig[g]) /\ fref[g] \in Nat
        BY <3>1 DEF Reached, TypeOK
      <3>3. QED
        BY <2>1, <2>2, <2>3, <2>5, <3>1, <3>2, SeenFire
    <2>6. QED
      BY <1>11, <2>2, <2>4, <2>5 DEF FenceLock
  <1>12. ASSUME NEW p \in Threads, kgsl_timeline_add_fence(p)
        PROVE  Seen
    <2>1. Published' = Published
      <3>1. /\ UNCHANGED idr
            /\ \A q \in Threads : /\ pc'[q] = "commit" <=> pc[q] = "commit"
                                  /\ pc[q] = "commit" => tl'[q] = tl[q]
        BY <1>12
           DEF kgsl_timeline_add_fence, At, Goto, devVars, tlVars, fenceVars,
               threadVars, TypeOK
      <3>2. QED
        BY <3>1, PublishedIdle
    <2>2. UNCHANGED <<ref, value, ftl, fseq, fref, sig, err>>
      BY <1>12
         DEF kgsl_timeline_add_fence, devVars, tlVars, fenceVars, threadVars
    <2>3. QED
      BY <2>1, <2>2, StateIdle DEF Seen, Unseen, InUse
  <1>13. ASSUME NEW p \in Threads, WaitCollect(p)
        PROVE  Seen
    <2>1. Published' = Published
      <3>1. /\ UNCHANGED idr
            /\ \A q \in Threads : /\ pc'[q] = "commit" <=> pc[q] = "commit"
                                  /\ pc[q] = "commit" => tl'[q] = tl[q]
        BY <1>13
           DEF WaitCollect, At, Goto, kgsl_timeline_put, devVars, tlVars,
               fenceVars, threadVars, TypeOK
      <3>2. QED
        BY <3>1, PublishedIdle
    <2>2. /\ UNCHANGED <<ftl, fseq, FenceState>> /\ kgsl_timeline_put(tl[p]) /\ pc[p] # "commit"
      BY <1>13, StateIdle DEF WaitCollect, At, fenceVars
    <2>3. tl[p] \in Timelines
      BY <1>13, ThreadsTimeline DEF WaitCollect, At, FreePCs
    <2>4. QED
      BY <2>1, <2>2, <2>3, SeenPut
  <1>14. ASSUME NEW p \in Threads, WaitStart(p)
        PROVE  Seen
    <2>1. Published' = Published
      <3>1. /\ UNCHANGED idr
            /\ \A q \in Threads : /\ pc'[q] = "commit" <=> pc[q] = "commit"
                                  /\ pc[q] = "commit" => tl'[q] = tl[q]
        BY <1>14
           DEF WaitStart, At, Goto, devVars, tlVars, fenceVars, threadVars,
               TypeOK
      <3>2. QED
        BY <3>1, PublishedIdle
    <2>2. UNCHANGED <<ref, value, ftl, fseq, fref, sig, err>>
      BY <1>14 DEF WaitStart, devVars, tlVars, fenceVars, threadVars
    <2>3. QED
      BY <2>1, <2>2, StateIdle DEF Seen, Unseen, InUse
  <1>15. ASSUME NEW p \in Threads, WaitReturn(p)
        PROVE  Seen
    <2>1. Published' = Published
      <3>1. /\ UNCHANGED idr
            /\ \A q \in Threads : /\ pc'[q] = "commit" <=> pc[q] = "commit"
                                  /\ pc[q] = "commit" => tl'[q] = tl[q]
        BY <1>15
           DEF WaitReturn, At, Goto, devVars, tlVars, fenceVars, threadVars,
               TypeOK
      <3>2. QED
        BY <3>1, PublishedIdle
    <2>2. UNCHANGED <<ref, value, ftl, fseq, fref, sig, err>>
      BY <1>15 DEF WaitReturn, devVars, tlVars, fenceVars, threadVars
    <2>3. QED
      BY <2>1, <2>2, StateIdle DEF Seen, Unseen, InUse
  <1>16. ASSUME NEW p \in Threads, WaitPut(p)
        PROVE  Seen
    <2>1. Published' = Published
      <3>1. /\ UNCHANGED idr
            /\ \A q \in Threads : /\ pc'[q] = "commit" <=> pc[q] = "commit"
                                  /\ pc[q] = "commit" => tl'[q] = tl[q]
        BY <1>16
           DEF WaitPut, At, Goto, dma_fence_put, devVars, tlVars, fenceVars,
               threadVars, TypeOK
      <3>2. QED
        BY <3>1, PublishedIdle
    <2>2. UNCHANGED <<ref, value, ftl, fseq, sig, err>>
      BY <1>16 DEF WaitPut, tlVars
    <2>3. CASE /\ Head(got[p]) \in Fences /\ Head(got[p]) \in Range(got[p])
               /\ dma_fence_put(p, Head(got[p]))
      <3>1. fref[Head(got[p])] > 0 /\ ftl[Head(got[p])] # None
        BY <2>3 DEF Users, Releases
      <3>2. QED
        BY <2>1, <2>2, <2>3, <3>1, SeenDrop
    <2>4. CASE UNCHANGED fref
      BY <2>1, <2>2, <2>4, StateIdle DEF Seen, Unseen, InUse
    <2>5. QED
      BY <1>16, <2>3, <2>4, WaitPutShape
  <1>17. ASSUME NEW p \in Threads, FenceGetInstall(p)
        PROVE  Seen
    <2>1. Published' = Published
      <3>1. /\ UNCHANGED idr
            /\ \A q \in Threads : /\ pc'[q] = "commit" <=> pc[q] = "commit"
                                  /\ pc[q] = "commit" => tl'[q] = tl[q]
        BY <1>17
           DEF FenceGetInstall, At, Goto, devVars, tlVars, fenceVars,
               threadVars, TypeOK
      <3>2. QED
        BY <3>1, PublishedIdle
    <2>2. UNCHANGED <<ref, value, ftl, fseq, sig, err>>
      BY <1>17 DEF FenceGetInstall, tlVars
    <2>3. cur[p] \in Fences /\ fref[cur[p]] > 0
      BY <1>17, ThreadsTimeline DEF FenceGetInstall, At, AllocPCs
    <2>4. \A f \in Fences : fref'[f] = 0 <=> fref[f] = 0
      <3>1. CASE fref' = [fref EXCEPT ![cur[p]] = @ + 1]
        BY <2>3, <3>1 DEF TypeOK
      <3>2. CASE UNCHANGED fref
        BY <3>2
      <3>3. QED
        BY <1>17, <3>1, <3>2 DEF FenceGetInstall
    <2>5. FenceState' = FenceState
      BY <2>2, <2>4, StateSame DEF StateOf
    <2>6. QED
      BY <2>1, <2>2, <2>5 DEF Seen, Unseen, InUse
  <1>18. ASSUME NEW p \in Threads, kgsl_ioctl_timeline_fence_get(p)
        PROVE  Seen
    <2>1. Published' = Published
      <3>1. /\ UNCHANGED idr
            /\ \A q \in Threads : /\ pc'[q] = "commit" <=> pc[q] = "commit"
                                  /\ pc[q] = "commit" => tl'[q] = tl[q]
        BY <1>18
           DEF kgsl_ioctl_timeline_fence_get, At, Goto, dma_fence_put,
               devVars, tlVars, fenceVars, threadVars, TypeOK
      <3>2. QED
        BY <3>1, PublishedIdle
    <2>2. UNCHANGED <<ref, value, ftl, fseq, sig, err>> /\ dma_fence_put(p, cur[p])
      BY <1>18 DEF kgsl_ioctl_timeline_fence_get, tlVars
    <2>3. cur[p] \in Fences /\ fref[cur[p]] > 0
      BY <1>18, ThreadsTimeline DEF kgsl_ioctl_timeline_fence_get, At, AllocPCs
    <2>4. ftl[cur[p]] # None
      BY <2>3 DEF Releases
    <2>5. QED
      BY <2>1, <2>2, <2>3, <2>4, SeenDrop
  <1>19. ASSUME NEW p \in Threads, timeline_fence_release(p)
        PROVE  Seen
    <2>1. Published' = Published
      <3>1. /\ UNCHANGED idr
            /\ \A q \in Threads : /\ pc'[q] = "commit" <=> pc[q] = "commit"
                                  /\ pc[q] = "commit" => tl'[q] = tl[q]
        BY <1>19
           DEF timeline_fence_release, At, Goto, kgsl_timeline_put, devVars,
               tlVars, fenceVars, threadVars, TypeOK
      <3>2. QED
        BY <3>1, PublishedIdle
    <2>2. PICK g \in Fences : g = rel[p] /\ ftl[g] \in Timelines /\ fref[g] = 0
      BY <1>19, ReleaseShape
    <2>3. /\ UNCHANGED fref /\ ftl' = [ftl EXCEPT ![g] = None]
          /\ fseq' = [fseq EXCEPT ![g] = 0] /\ sig' = [sig EXCEPT ![g] = FALSE]
          /\ err' = [err EXCEPT ![g] = FALSE] /\ kgsl_timeline_put(ftl[g])
      BY <1>19, <2>2 DEF timeline_fence_release
    <2>4. \A f \in Fences : f # g =>
            ftl'[f] = ftl[f] /\ fref'[f] = fref[f] /\ sig'[f] = sig[f] /\ err'[f] = err[f]
      BY <2>3 DEF TypeOK
    <2>5. StateOf(g)' = "free" /\ StateOf(g) = "free"
      BY <2>2, <2>3 DEF StateOf
    <2>6. FenceState' = FenceState
      BY <2>4, <2>5, StateSame DEF StateOf
    <2>7. FenceState[g] = "free"
      BY <2>5, StateIs
    <2>8. PICK t \in Timelines : t = ftl[g]
      BY <2>2
    <2>9. t # None /\ ref[t] > 0 /\ ref[t] \in Nat /\ ref' = [ref EXCEPT ![t] = @ - 1]
      BY <2>3, <2>8, TimelineAssumption DEF Users, TypeOK, kgsl_timeline_put
    <2>10. CASE ref[t] = 1
      <3>1. InUse' = InUse \ {t} /\ t \in InUse
        BY <2>9, <2>10 DEF InUse, TypeOK
      <3>2. value' = [value EXCEPT ![t] = 0]
        BY <2>3, <2>8, <2>10 DEF kgsl_timeline_put
      <3>3. /\ \A f \in Fences : ftl[f] = t => f = g
            /\ \A id \in Ids : idr[id] # t
            /\ \A q \in Threads : tl[q] # t
        BY <2>8, <2>9, <2>10 DEF Users
      <3>4. t \notin Published
        BY <3>3, IdrRange DEF Published
      <3>5. Contract!Release(g)
        BY <2>1, <2>3, <2>6, <2>7, <2>8, <2>9, <3>1, <3>2, <3>3, <3>4
           DEF Contract!Release, InUse, Published
      <3>6. QED
        BY <3>5 DEF Seen
    <2>11. CASE ref[t] # 1
      <3>1. InUse' = InUse
        BY <2>9, <2>11 DEF InUse, TypeOK
      <3>2. value' = value
        BY <2>3, <2>8, <2>11 DEF kgsl_timeline_put, TypeOK
      <3>3. Contract!Release(g)
        BY <2>1, <2>3, <2>6, <2>7, <2>8, <2>9, <3>1, <3>2
           DEF Contract!Release, InUse, Published
      <3>4. QED
        BY <3>3 DEF Seen
    <2>12. QED
      BY <2>10, <2>11
  <1>20. ASSUME NEW p \in Threads, DestroyScan(p)
        PROVE  Seen
    <2>1. Published' = Published
      <3>1. /\ UNCHANGED idr
            /\ \A q \in Threads : /\ pc'[q] = "commit" <=> pc[q] = "commit"
                                  /\ pc[q] = "commit" => tl'[q] = tl[q]
        BY <1>20
           DEF DestroyScan, At, Goto, devVars, tlVars, fenceVars, threadVars,
               TypeOK
      <3>2. QED
        BY <3>1, PublishedIdle
    <2>2. UNCHANGED <<ref, value, ftl, fseq, sig, err>>
      BY <1>20 DEF DestroyScan, devVars, tlVars, fenceVars, threadVars
    <2>3. PICK g \in Fences : g = fences[tl[p]][idx[p]]
      BY <1>20, DestroyScanShape
    <2>4. \A f \in Fences : fref'[f] = 0 <=> fref[f] = 0
      <3>1. CASE fref[g] > 0 /\ fref' = [fref EXCEPT ![g] = @ + 1]
        BY <3>1 DEF TypeOK
      <3>2. CASE UNCHANGED fref
        BY <3>2
      <3>3. QED
        BY <1>20, <2>3, <3>1, <3>2 DEF DestroyScan
    <2>5. FenceState' = FenceState
      BY <2>2, <2>4, StateSame DEF StateOf
    <2>6. QED
      BY <2>1, <2>2, <2>5 DEF Seen, Unseen, InUse
  <1>21. ASSUME NEW p \in Threads, DestroyScanEnd(p)
        PROVE  Seen
    <2>1. Published' = Published
      <3>1. /\ UNCHANGED idr
            /\ \A q \in Threads : /\ pc'[q] = "commit" <=> pc[q] = "commit"
                                  /\ pc[q] = "commit" => tl'[q] = tl[q]
        BY <1>21
           DEF DestroyScanEnd, At, Goto, devVars, tlVars, fenceVars,
               threadVars, TypeOK
      <3>2. QED
        BY <3>1, PublishedIdle
    <2>2. UNCHANGED <<ref, value, ftl, fseq, fref, sig, err>>
      BY <1>21 DEF DestroyScanEnd, devVars, tlVars, fenceVars, threadVars
    <2>3. QED
      BY <2>1, <2>2, StateIdle DEF Seen, Unseen, InUse
  <1>22. ASSUME NEW p \in Threads, DestroyLock(p)
        PROVE  Seen
    <2>1. Published' = Published
      <3>1. /\ UNCHANGED idr
            /\ \A q \in Threads : /\ pc'[q] = "commit" <=> pc[q] = "commit"
                                  /\ pc[q] = "commit" => tl'[q] = tl[q]
        BY <1>22
           DEF DestroyLock, At, Goto, devVars, tlVars, fenceVars, threadVars,
               TypeOK
      <3>2. QED
        BY <3>1, PublishedIdle
    <2>2. UNCHANGED <<ref, value, ftl, fseq, fref, sig, err>>
      BY <1>22 DEF DestroyLock, devVars, tlVars, fenceVars, threadVars
    <2>3. QED
      BY <2>1, <2>2, StateIdle DEF Seen, Unseen, InUse
  <1>23. ASSUME NEW p \in Threads, DestroyFence(p)
        PROVE  Seen
    <2>1. Published' = Published
      <3>1. /\ UNCHANGED idr
            /\ \A q \in Threads : /\ pc'[q] = "commit" <=> pc[q] = "commit"
                                  /\ pc[q] = "commit" => tl'[q] = tl[q]
        BY <1>23
           DEF DestroyFence, At, Goto, dma_fence_put, devVars, tlVars,
               fenceVars, threadVars, TypeOK
      <3>2. QED
        BY <3>1, PublishedIdle
    <2>2. PICK g \in Fences : g = Head(temp[p]) /\ g \in Range(temp[p])
      BY <1>23, PopShape DEF DestroyFence
    <2>3. /\ UNCHANGED <<ref, value, ftl, fseq>> /\ sig' = [sig EXCEPT ![g] = TRUE]
          /\ err' = [err EXCEPT ![g] = TRUE] /\ dma_fence_put(p, g)
      BY <1>23, <2>2 DEF DestroyFence, tlVars
    <2>4. fref[g] > 0 /\ ftl[g] = tl[p]
      BY <2>2 DEF Users, ScanRefs, Lists, ListSets
    <2>5. ftl[g] # None /\ \A id \in Ids : idr[id] # ftl[g]
      BY <1>23, <2>4 DEF DestroyFence, At, Releases, IdsKept, DestroyPCs
    <2>6. \A q \in Threads : pc[q] = "commit" => tl[q] # ftl[g]
      BY DEF IdsKept
    <2>7. ftl[g] \notin Published
      BY <2>5, <2>6, IdrRange DEF Published
    <2>8. fref'[g] \in Nat /\ \A h \in Fences : h # g => fref'[h] = fref[h]
      BY <2>3, <2>4 DEF dma_fence_put, TypeOK
    <2>9. sig'[g] /\ err'[g] /\ \A h \in Fences : h # g => sig'[h] = sig[h] /\ err'[h] = err[h]
      BY <2>3 DEF TypeOK
    <2>10. InUse' = InUse /\ \A h \in Fences : h # g => StateOf(h)' = StateOf(h)
      BY <2>3, <2>8, <2>9 DEF InUse, StateOf
    <2>11. StateOf(g) \in {"pending", "done", "failed"}
      BY <2>4, <2>5 DEF StateOf
    <2>12. CASE fref'[g] = 0
      <3>1. StateOf(g)' = "free"
        BY <2>12 DEF StateOf
      <3>2. FenceState' = [FenceState EXCEPT ![g] = "free"] /\ FenceState[g] # "free"
        BY <2>10, <2>11, <3>1, StateMove
      <3>3. Contract!Drop(g)
        BY <2>1, <2>3, <2>10, <3>2 DEF Contract!Drop, Published, InUse
      <3>4. QED
        BY <3>3 DEF Seen
    <2>13. CASE fref'[g] # 0
      <3>1. StateOf(g)' = "failed"
        BY <2>3, <2>5, <2>9, <2>13 DEF StateOf
      <3>2. CASE StateOf(g) = "failed"
        <4>1. FenceState' = FenceState
          BY <2>10, <3>1, <3>2, StateSame
        <4>2. QED
          BY <2>1, <2>3, <2>10, <4>1 DEF Seen, Unseen
      <3>3. CASE StateOf(g) # "failed"
        <4>1. /\ FenceState' = [FenceState EXCEPT ![g] = "failed"]
              /\ FenceState[g] \in {"pending", "done"}
          BY <2>10, <2>11, <3>1, <3>3, StateMove
        <4>2. Contract!Fail(g)
          BY <2>1, <2>3, <2>7, <2>10, <4>1 DEF Contract!Fail, Published, InUse
        <4>3. QED
          BY <4>2 DEF Seen
      <3>4. QED
        BY <3>2, <3>3
    <2>14. QED
      BY <2>12, <2>13
  <1>24. ASSUME NEW p \in Threads, kgsl_timeline_alloc(p)
        PROVE  Seen
    <2>1. PICK u \in FreeTimelines, i \in Ids, n \in Seqno :
            /\ idr[i] = None /\ idr' = [idr EXCEPT ![i] = Reserved]
            /\ ref' = [ref EXCEPT ![u] = 1] /\ value' = [value EXCEPT ![u] = n]
            /\ tl' = [tl EXCEPT ![p] = u]
      BY <1>24 DEF kgsl_timeline_alloc
    <2>2. /\ UNCHANGED <<ftl, fseq, FenceState>> /\ pc[p] = "idle"
          /\ pc' = [pc EXCEPT ![p] = "commit"]
      BY <1>24, StateIdle DEF kgsl_timeline_alloc, fenceVars, At, Goto
    <2>3. /\ u \in Timelines /\ ref[u] = 0 /\ Reserved \notin Timelines /\ None \notin Timelines
          /\ \A f \in Fences : ftl[f] # u
      BY FreeIsClean, TimelineAssumption
    <2>4. InUse' = InUse \cup {u} /\ u \notin InUse
      BY <2>1, <2>3 DEF InUse, TypeOK
    <2>5. \A t : t \in Range(idr') <=> \E id \in Ids : idr'[id] = t
      BY <2>1 DEF TypeOK, Range
    <2>6. \A t \in Timelines : (\E id \in Ids : idr'[id] = t) <=> (\E id \in Ids : idr[id] = t)
      BY <2>1, <2>3 DEF TypeOK
    <2>7. \A t \in Timelines :
            (\E q \in Threads : pc'[q] = "commit" /\ tl'[q] = t)
              <=> t = u \/ (\E q \in Threads : pc[q] = "commit" /\ tl[q] = t)
      BY <2>1, <2>2, <2>3 DEF TypeOK
    <2>8. Published' = Published \cup {u}
      BY <2>3, <2>5, <2>6, <2>7, IdrRange DEF Published
    <2>9. Contract!Create(u, n)
      BY <2>1, <2>2, <2>3, <2>4, <2>8 DEF Contract!Create, InUse, Published
    <2>10. QED
      BY <2>3, <2>9 DEF Seen
  <1>25. ASSUME NEW p \in Threads, kgsl_ioctl_timeline_signal(p)
        PROVE  Seen
    <2>1. Published' = Published
      <3>1. /\ UNCHANGED idr
            /\ \A q \in Threads : /\ pc'[q] = "commit" <=> pc[q] = "commit"
                                  /\ pc[q] = "commit" => tl'[q] = tl[q]
        BY <1>25
           DEF kgsl_ioctl_timeline_signal, At, Goto, kgsl_timeline_by_id,
               devVars, tlVars, fenceVars, threadVars, TypeOK
      <3>2. QED
        BY <3>1, PublishedIdle
    <2>2. /\ UNCHANGED <<value, ftl, fseq, fref, sig, err>>
          /\ \E id \in Ids : kgsl_timeline_by_id(p, id)
      BY <1>25 DEF kgsl_ioctl_timeline_signal, fenceVars
    <2>3. InUse' = InUse
      BY <2>2, InUseGet DEF kgsl_timeline_by_id
    <2>4. QED
      BY <2>1, <2>2, <2>3, StateIdle DEF Seen, Unseen
  <1>26. ASSUME NEW p \in Threads, FenceLookup(p)
        PROVE  Seen
    <2>1. Published' = Published
      <3>1. /\ UNCHANGED idr
            /\ \A q \in Threads : /\ pc'[q] = "commit" <=> pc[q] = "commit"
                                  /\ pc[q] = "commit" => tl'[q] = tl[q]
        BY <1>26
           DEF FenceLookup, At, Goto, kgsl_timeline_by_id, devVars, tlVars,
               fenceVars, threadVars, TypeOK
      <3>2. QED
        BY <3>1, PublishedIdle
    <2>2. /\ UNCHANGED <<value, ftl, fseq, fref, sig, err>>
          /\ \E id \in Ids : kgsl_timeline_by_id(p, id)
      BY <1>26 DEF FenceLookup, fenceVars
    <2>3. InUse' = InUse
      BY <2>2, InUseGet DEF kgsl_timeline_by_id
    <2>4. QED
      BY <2>1, <2>2, <2>3, StateIdle DEF Seen, Unseen
  <1>27. ASSUME NEW p \in Threads, WaitError(p)
        PROVE  Seen
    <2>1. Published' = Published
      <3>1. /\ UNCHANGED idr
            /\ \A q \in Threads : /\ pc'[q] = "commit" <=> pc[q] = "commit"
                                  /\ pc[q] = "commit" => tl'[q] = tl[q]
        BY <1>27
           DEF WaitError, At, Goto, devVars, tlVars, fenceVars, threadVars,
               TypeOK
      <3>2. QED
        BY <3>1, PublishedIdle
    <2>2. UNCHANGED <<ref, value, ftl, fseq, fref, sig, err>>
      BY <1>27 DEF WaitError, devVars, tlVars, fenceVars, threadVars
    <2>3. QED
      BY <2>1, <2>2, StateIdle DEF Seen, Unseen, InUse
  <1>28. ASSUME NEW p \in Threads, WaitTimeout(p)
        PROVE  Seen
    <2>1. Published' = Published
      <3>1. /\ UNCHANGED idr
            /\ \A q \in Threads : /\ pc'[q] = "commit" <=> pc[q] = "commit"
                                  /\ pc[q] = "commit" => tl'[q] = tl[q]
        BY <1>28
           DEF WaitTimeout, At, Goto, devVars, tlVars, fenceVars, threadVars,
               TypeOK
      <3>2. QED
        BY <3>1, PublishedIdle
    <2>2. UNCHANGED <<ref, value, ftl, fseq, fref, sig, err>>
      BY <1>28 DEF WaitTimeout, devVars, tlVars, fenceVars, threadVars
    <2>3. QED
      BY <2>1, <2>2, StateIdle DEF Seen, Unseen, InUse
  <1>29. ASSUME NEW p \in Threads, CloseFd(p)
        PROVE  Seen
    <2>1. Published' = Published
      <3>1. /\ UNCHANGED idr
            /\ \A q \in Threads : /\ pc'[q] = "commit" <=> pc[q] = "commit"
                                  /\ pc[q] = "commit" => tl'[q] = tl[q]
        BY <1>29
           DEF CloseFd, At, Goto, dma_fence_put, devVars, tlVars, fenceVars,
               threadVars, TypeOK
      <3>2. QED
        BY <3>1, PublishedIdle
    <2>2. UNCHANGED <<ref, value, ftl, fseq, sig, err>>
      BY <1>29 DEF CloseFd, tlVars
    <2>3. PICK g \in fd : dma_fence_put(p, g)
      BY <1>29 DEF CloseFd
    <2>4. g \in Fences /\ fref[g] > 0
      BY DEF TypeOK, Users
    <2>5. ftl[g] # None
      BY <2>4 DEF Releases
    <2>6. QED
      BY <2>1, <2>2, <2>3, <2>4, <2>5, SeenDrop
  <1>30. ASSUME NEW p \in Threads, kgsl_ioctl_timeline_query(p)
        PROVE  Seen
    <2>1. Published' = Published
      <3>1. /\ UNCHANGED idr
            /\ \A q \in Threads : /\ pc'[q] = "commit" <=> pc[q] = "commit"
                                  /\ pc[q] = "commit" => tl'[q] = tl[q]
        BY <1>30
           DEF kgsl_ioctl_timeline_query, At, Goto, kgsl_timeline_by_id,
               devVars, tlVars, fenceVars, threadVars, TypeOK
      <3>2. QED
        BY <3>1, PublishedIdle
    <2>2. /\ UNCHANGED <<value, ftl, fseq, fref, sig, err>>
          /\ \E id \in Ids : kgsl_timeline_by_id(p, id)
      BY <1>30 DEF kgsl_ioctl_timeline_query, fenceVars
    <2>3. InUse' = InUse
      BY <2>2, InUseGet DEF kgsl_timeline_by_id
    <2>4. QED
      BY <2>1, <2>2, <2>3, StateIdle DEF Seen, Unseen
  <1>31. ASSUME NEW p \in Threads, kgsl_ioctl_timeline_destroy(p)
        PROVE  Seen
    <2>1. PICK i \in Ids :
            /\ idr[i] \in Timelines /\ idr' = [idr EXCEPT ![i] = None]
            /\ tl' = [tl EXCEPT ![p] = idr[i]]
      BY <1>31 DEF kgsl_ioctl_timeline_destroy
    <2>2. /\ pc' = [pc EXCEPT ![p] = "d_scan_lock"] /\ pc[p] = "idle"
          /\ UNCHANGED <<ref, value, ftl, fseq, FenceState>>
      BY <1>31, StateIdle
         DEF kgsl_ioctl_timeline_destroy, tlVars, fenceVars, At, Goto
    <2>3. PICK u \in Timelines : u = idr[i]
      BY <2>1
    <2>4. u # None /\ Reserved \notin Timelines
      BY TimelineAssumption
    <2>5. /\ \A id \in Ids : idr[id] = u => id = i
          /\ \A q \in Threads : pc[q] = "commit" => tl[q] # u
      BY <2>1, <2>3, <2>4 DEF IdsKept, IdNamesOneTimeline
    <2>6. \A t : t \in Range(idr') <=> \E id \in Ids : idr'[id] = t
      BY <2>1 DEF TypeOK, Range
    <2>7. \A t \in Timelines :
            (\E id \in Ids : idr'[id] = t) <=> t # u /\ (\E id \in Ids : idr[id] = t)
      BY <2>1, <2>3, <2>4, <2>5, TimelineAssumption DEF TypeOK
    <2>8. \A t \in Timelines :
            (\E q \in Threads : pc'[q] = "commit" /\ tl'[q] = t)
              <=> (\E q \in Threads : pc[q] = "commit" /\ tl[q] = t)
      BY <2>1, <2>2 DEF TypeOK
    <2>9. Published' = Published \ {u} /\ u \in Published
      BY <2>3, <2>5, <2>6, <2>7, <2>8, IdrRange DEF Published
    <2>10. Contract!Destroy(u)
      BY <2>2, <2>9 DEF Contract!Destroy, InUse, Published
    <2>11. QED
      BY <2>10 DEF Seen
  <1>32. ASSUME NEW f \in Fences, Poll(f)
        PROVE  Seen
    <2>1. Published' = Published
      <3>1. /\ UNCHANGED idr
            /\ \A q \in Threads : /\ pc'[q] = "commit" <=> pc[q] = "commit"
                                  /\ pc[q] = "commit" => tl'[q] = tl[q]
        BY <1>32
           DEF Poll, At, Goto, devVars, tlVars, fenceVars, threadVars, TypeOK
      <3>2. QED
        BY <3>1, PublishedIdle
    <2>2. /\ UNCHANGED <<ref, value, ftl, fseq, fref, err>> /\ sig' = [sig EXCEPT ![f] = TRUE]
          /\ timeline_fence_signaled(f)
      BY <1>32 DEF Poll, tlVars
    <2>3. fref[f] > 0
      BY <1>32 DEF Poll, Pollable, Users
    <2>4. ftl[f] # None /\ fref[f] \in Nat
      BY <2>3 DEF Releases, TypeOK
    <2>5. err[f] => sig[f]
      BY <2>4 DEF Reached
    <2>6. QED
      BY <2>1, <2>2, <2>3, <2>4, <2>5, SeenFire
  <1>33. CASE UNCHANGED vars
    <2>1. UNCHANGED <<idr, pc, tl, ref, value, ftl, fseq, fref, sig, err>>
      BY <1>33 DEF vars, devVars, tlVars, fenceVars, threadVars
    <2>2. QED
      BY <2>1, StateIdle, PublishedIdle DEF Seen, Unseen, InUse
  <1>34. QED
    BY <1>1, <1>2, <1>3, <1>4, <1>5, <1>6, <1>7, <1>8, <1>9, <1>10, <1>11,
       <1>12, <1>13, <1>14, <1>15, <1>16, <1>17, <1>18, <1>19, <1>20, <1>21,
       <1>22, <1>23, <1>24, <1>25, <1>26, <1>27, <1>28, <1>29, <1>30, <1>31,
       <1>32, <1>33
       DEF Next, Step, Choose


\* The driver implements the contract's safety part: timelines only move
\* forward, fences fire only when they are reached or fail once the id is
\* gone, and nothing is freed while the contract still has a use for it.
THEOREM KeepsContract == Spec => Contract!SafeSpec
  <1>1. ASSUME Init
        PROVE  Contract!Init
    <2>1. /\ \A id \in Ids : idr[id] = None
          /\ \A p \in Threads : pc[p] = "idle" /\ tl[p] = None
          /\ \A t \in Timelines : ref[t] = 0
          /\ value = [t \in Timelines |-> 0] /\ ftl = [f \in Fences |-> None]
          /\ fseq = [f \in Fences |-> 0]
      BY <1>1 DEF Init
    <2>2. TypeOK /\ None \notin Timelines
      BY <1>1, InitIInv, TimelineAssumption DEF IInv
    <2>3. Published = {}
      BY <2>1, <2>2, IdrRange DEF Published
    <2>4. InUse = {}
      BY <2>1 DEF InUse
    <2>5. FenceState = [f \in Fences |-> "free"]
      BY <2>1 DEF FenceState
    <2>6. QED
      BY <2>1, <2>3, <2>4, <2>5 DEF Contract!Init, Published, InUse
  <1>2. ASSUME IInv, [Next]_vars
        PROVE  [Contract!Next]_(Contract!avars)
    <2>1. /\ TypeOK /\ Control /\ Locks /\ Lists /\ Allocs /\ Releases
          /\ Users /\ Empties /\ IdsKept /\ Reached
      BY <1>2, CountsGiveUsers, ControlGivesEmpties DEF IInv
    <2>2. Seen
      BY <1>2, <2>1, SeenStep
    <2>3. QED
      BY <2>2, SeenIsStep
  <1>3. QED
    BY <1>1, <1>2, TimelineInvariant, PTL DEF Spec, Contract!SafeSpec
=============================================================================
