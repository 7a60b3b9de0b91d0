--------------------------- MODULE KgslSyncProofs ---------------------------
(***************************************************************************)
(* Proofs about the fences of kgsl_sync.c, for any number of threads, of   *)
(* fences and of timestamps, queued or not: the counts of references, that *)
(* no fence is signaled early and that none is forgotten.                  *)
(***************************************************************************)
EXTENDS KgslSync, FiniteSetTheorems, TLAPS

(***************************************************************************)
(* The inductive invariant.                                                *)
(***************************************************************************)

\* The places of the one thread that makes a fence and has not let its sync
\* file out, and the ones where the fence is a timeline fence.
Makes == {"fd", "signal", "event", "copy", "fail", "cancel", "fput", "sfd", "sfail"}
MakesTimeline == {"fd", "signal", "event", "copy", "fail", "cancel"}

\* What a thread knows of the fence it works on.
ThreadFences ==
    /\ \A p \in Threads : pc[p] \in Makes \cup HoldsFence => fen[p] \in Fences
    /\ \A p \in Threads : pc[p] \in Makes => file[fen[p]] = "kernel"
    /\ \A p, q \in Threads :
        pc[p] \in Makes /\ pc[q] \in Makes /\ fen[p] = fen[q] => p = q
    /\ \A p \in Threads : pc[p] \in MakesTimeline => kind[fen[p]] = "timeline"
    /\ \A p \in Threads : pc[p] \in {"sfd", "slist", "sfail"} => kind[fen[p]] = "source"
    /\ \A p \in Threads : pc[p] \in {"fd", "signal", "event"} => event[fen[p]] = "none"
    /\ \A p \in Threads : ctx[p] => pc[p] = "str"

\* What a fence is while it waits to be created, is listed or is released.
FenceStates ==
    /\ \A f \in Fences : kind[f] = "unborn" =>
        event[f] = "none" /\ ~signaled[f] /\ ts[f] = 0
    /\ \A f \in children : kind[f] = "timeline"
    /\ \A f \in schildren : kind[f] = "source"
    /\ \A f \in releasing : kind[f] = "source"
    /\ \A f \in Fences : kind[f] \in {"source", "dying"} => ts[f] = 0

\* A fence without references is not created, or on its way out, or gone.
ZeroIsDead ==
    \A f \in Fences :
        ref[f] = 0 <=> (kind[f] \in {"unborn", "dying", "gone"} \/ f \in releasing)

\* The users that are counted.
ContextThreads == At(HoldsContext)
DumpPCs == {"str", "strput"}
DumpThreads == At(DumpPCs)
SourceThreads == At(HoldsSource)
EventFences == {f \in Fences : event[f] # "none"}
StrThreads == {p \in Threads : ctx[p]}
TimelineFences == {f \in Fences : kind[f] = "timeline"}
SourceFences == {f \in Fences : kind[f] \in {"source", "dying"}}
FenceHolders(f) == {p \in At(HoldsFence) : fen[p] = f}

\* The four counts.
ContextCount ==
    /\ cref = (IF dpc = "put" THEN 0 ELSE 2) + 2 * Cardinality(EventFences)
              + Cardinality(ContextThreads) + Cardinality(StrThreads)
    /\ tcontext => dpc \notin {"timeline", "put"}
TimelineCount ==
    tref = One(cref > 0) + Cardinality(TimelineFences)
           + Cardinality(DumpThreads)
FenceCount ==
    \A f \in Fences :
        ref[f] = One(f \in children) + One(file[f] \in {"kernel", "fd"})
                 + One(waiter[f]) + Cardinality(FenceHolders(f))
SourceCount ==
    /\ sref = One(spc \in {"live", "removed", "swept"})
              + Cardinality(SourceFences) + Cardinality(SourceThreads)
    /\ spc = "none" => sref = 0

\* How the timestamps of the context stand to each other: the memstore shows
\* what the GPU has finished until it is forced to what is queued, and a context
\* that has ended without being lost shows what is queued.
ContextState ==
    /\ gpu <= queued /\ retired <= queued
    /\ Forced \/ retired = gpu
    /\ dropped # {} => Ended
    /\ lost => dpc \notin {"none", "marked"}
    /\ Ended /\ ~lost => retired = queued

\* The timestamps that may be signaled, and the fences that may not be.
OverTs == {t \in 0 .. MaxTs : Over(t)}
Hopeless == {f \in Fences : NeverRetires(f)}

\* Whatever is signaled, or about to be, is over.
SignalsRetired ==
    /\ ContextState
    /\ last \in OverTs
    /\ \A p \in Threads : cur[p] \in OverTs
    /\ \A f \in Fences : event[f] \in {"retired", "cancelled"} => ts[f] \in OverTs
    /\ \A f \in Fences : signaled[f] /\ ts[f] > 0 => ts[f] \in OverTs

\* A fence that kgsl_sync_timeline_signal has signaled or still looks for; and
\* the same for one that may have been created behind last_timestamp.
Sought(f) == signaled[f] \/ (f \in children /\ last < ts[f])
Covered(f) == signaled[f] \/ (f \in children /\ (last < ts[f] \/ f \in Hopeless))

\* No fence that is handed out, or about to be, is passed over, and none that
\* somebody waits for.
NoneMissed ==
    /\ \A f \in Fences : kind[f] = "timeline" /\ file[f] = "fd" => Covered(f)
    /\ \A f \in Fences : kind[f] = "timeline" /\ waiter[f] => Sought(f)
    /\ \A f \in Fences : waiter[f] => file[f] \in {"fd", "closed"}
    /\ \A p \in Threads : pc[p] \in {"event", "copy"} => Covered(fen[p])
    /\ \A p \in Threads : pc[p] \in {"fd", "signal"} =>
        signaled[fen[p]] \/ fen[p] \in children
    /\ \A p \in Threads : pc[p] = "signal" => cur[p] >= ts[fen[p]]

\* ListedIsExpected, with the fences that never retire as a set.
AllExpected ==
    /\ \A f \in children :
        \/ event[f] \in {"listed", "retired", "cancelled"}
        \/ \E p \in Threads :
               fen[p] = f /\ pc[p] \in {"fd", "signal", "event", "fail", "cancel"}
    /\ \A f \in Fences :
        event[f] = "listed" /\ dpc \in {"cancelled", "timeline", "put"}
            => f \in Hopeless

Counts == ContextCount /\ TimelineCount /\ FenceCount /\ SourceCount

IInv ==
    /\ TypeOK /\ ThreadFences /\ FenceStates /\ ZeroIsDead /\ Counts
    /\ SignalsRetired /\ NoneMissed /\ AllExpected

-----------------------------------------------------------------------------
(***************************************************************************)
(* Counting.                                                               *)
(***************************************************************************)

\* A set of threads or fences that gains or loses one member.
LEMMA OneMore ==
    ASSUME NEW S, IsFiniteSet(S), NEW x, x \notin S, NEW T, T = S \cup {x}
    PROVE  Cardinality(T) = Cardinality(S) + 1
  BY FS_AddElement

LEMMA OneLess ==
    ASSUME NEW S, IsFiniteSet(S), NEW x \in S, NEW T, T = S \ {x}
    PROVE  Cardinality(T) = Cardinality(S) - 1 /\ Cardinality(S) > 0
  <1>1. Cardinality(S) \in Nat /\ Cardinality(S) # 0
    BY FS_CardinalityType, FS_EmptySet
  <1>2. QED
    BY <1>1, FS_RemoveElement

\* All the sets that are counted are finite.
LEMMA Finite ==
    /\ \A S \in SUBSET Threads : IsFiniteSet(S) /\ Cardinality(S) \in Nat
    /\ \A S \in SUBSET Fences : IsFiniteSet(S) /\ Cardinality(S) \in Nat
  BY FS_Subset, FS_CardinalityType, KgslSyncAssumption

LEMMA Naturals ==
    /\ Cardinality(ContextThreads) \in Nat /\ Cardinality(ContextThreads') \in Nat
    /\ Cardinality(StrThreads) \in Nat /\ Cardinality(StrThreads') \in Nat
    /\ Cardinality(DumpThreads) \in Nat /\ Cardinality(DumpThreads') \in Nat
    /\ Cardinality(SourceThreads) \in Nat /\ Cardinality(SourceThreads') \in Nat
    /\ Cardinality(EventFences) \in Nat /\ Cardinality(EventFences') \in Nat
    /\ Cardinality(TimelineFences) \in Nat /\ Cardinality(TimelineFences') \in Nat
    /\ Cardinality(SourceFences) \in Nat /\ Cardinality(SourceFences') \in Nat
    /\ \A f \in Fences : /\ Cardinality(FenceHolders(f)) \in Nat
                         /\ Cardinality(FenceHolders(f)') \in Nat
  BY Finite DEF ContextThreads, StrThreads, DumpThreads, SourceThreads, EventFences,
                TimelineFences, SourceFences, FenceHolders, At

\* A thread that goes from one place to another.
LEMMA ContextMove ==
    ASSUME TypeOK, NEW p \in Threads, NEW l \in PCs, pc' = [pc EXCEPT ![p] = l]
    PROVE  Cardinality(ContextThreads') = Cardinality(ContextThreads)
             + One(l \in HoldsContext) - One(pc[p] \in HoldsContext)
  <1>1. IsFiniteSet(ContextThreads) /\ Cardinality(ContextThreads) \in Nat
    BY Finite DEF ContextThreads, At
  <1>2. CASE l \in HoldsContext /\ pc[p] \notin HoldsContext
    <2>1. ContextThreads' = ContextThreads \cup {p} /\ p \notin ContextThreads
      BY <1>2 DEF TypeOK, ContextThreads, At
    <2>2. QED
      BY <1>1, <1>2, <2>1, OneMore DEF One
  <1>3. CASE l \notin HoldsContext /\ pc[p] \in HoldsContext
    <2>1. ContextThreads' = ContextThreads \ {p} /\ p \in ContextThreads
      BY <1>3 DEF TypeOK, ContextThreads, At
    <2>2. QED
      BY <1>1, <1>3, <2>1, OneLess DEF One
  <1>4. CASE l \in HoldsContext <=> pc[p] \in HoldsContext
    <2>1. ContextThreads' = ContextThreads
      BY <1>4 DEF TypeOK, ContextThreads, At
    <2>2. QED
      BY <1>1, <1>4, <2>1 DEF One
  <1>5. QED
    BY <1>2, <1>3, <1>4

\* A thread that takes or puts a reference to a fence.
LEMMA HolderNew ==
    ASSUME TypeOK, NEW p \in Threads, pc[p] \notin HoldsFence, NEW l \in HoldsFence,
           pc' = [pc EXCEPT ![p] = l], NEW f \in Fences, fen' = [fen EXCEPT ![p] = f],
           NEW g \in Fences
    PROVE  Cardinality(FenceHolders(g)') = Cardinality(FenceHolders(g)) + One(g = f)
  <1>1. IsFiniteSet(FenceHolders(g)) /\ Cardinality(FenceHolders(g)) \in Nat
    BY Finite DEF FenceHolders, At
  <1>2. CASE g = f
    <2>1. FenceHolders(g)' = FenceHolders(g) \cup {p} /\ p \notin FenceHolders(g)
      BY <1>2 DEF TypeOK, FenceHolders, At
    <2>2. QED
      BY <1>1, <1>2, <2>1, OneMore DEF One
  <1>3. CASE g # f
    <2>1. FenceHolders(g)' = FenceHolders(g)
      BY <1>3 DEF TypeOK, FenceHolders, At
    <2>2. QED
      BY <1>1, <1>3, <2>1 DEF One
  <1>4. QED
    BY <1>2, <1>3

LEMMA HolderPuts ==
    ASSUME TypeOK, NEW p \in Threads, pc[p] \in HoldsFence, NEW l, l \notin HoldsFence,
           pc' = [pc EXCEPT ![p] = l],
           \A q \in Threads : q # p => fen'[q] = fen[q],
           NEW g \in Fences
    PROVE  /\ Cardinality(FenceHolders(g)') = Cardinality(FenceHolders(g)) - One(g = fen[p])
           /\ g = fen[p] => Cardinality(FenceHolders(g)) > 0
  <1>1. IsFiniteSet(FenceHolders(g)) /\ Cardinality(FenceHolders(g)) \in Nat
    BY Finite DEF FenceHolders, At
  <1>2. CASE g = fen[p]
    <2>1. FenceHolders(g)' = FenceHolders(g) \ {p} /\ p \in FenceHolders(g)
      BY <1>2 DEF TypeOK, FenceHolders, At
    <2>2. QED
      BY <1>1, <1>2, <2>1, OneLess DEF One
  <1>3. CASE g # fen[p]
    <2>1. FenceHolders(g)' = FenceHolders(g)
      BY <1>3 DEF TypeOK, FenceHolders, At
    <2>2. QED
      BY <1>1, <1>3, <2>1 DEF One
  <1>4. QED
    BY <1>2, <1>3

\* Whoever holds a fence is counted in its references.
LEMMA HoldersCounted ==
    ASSUME TypeOK, FenceCount, NEW f \in Fences
    PROVE  /\ f \in children => ref[f] > 0
           /\ file[f] \in {"kernel", "fd"} => ref[f] > 0
           /\ waiter[f] => ref[f] > 0
           /\ \A p \in Threads : pc[p] \in HoldsFence /\ fen[p] = f => ref[f] > 0
  <1>1. Cardinality(FenceHolders(f)) \in Nat
    BY Naturals
  <1>2. ASSUME NEW p \in Threads, pc[p] \in HoldsFence, fen[p] = f
        PROVE  Cardinality(FenceHolders(f)) > 0
    <2>1. p \in FenceHolders(f) /\ IsFiniteSet(FenceHolders(f))
      BY <1>2, Finite DEF FenceHolders, At
    <2>2. QED
      BY <2>1, OneLess
  <1>3. QED
    BY <1>1, <1>2 DEF FenceCount, One, TypeOK

LEMMA DumpMove ==
    ASSUME TypeOK, NEW p \in Threads, NEW l \in PCs, pc' = [pc EXCEPT ![p] = l]
    PROVE  Cardinality(DumpThreads') = Cardinality(DumpThreads)
             + One(l \in DumpPCs) - One(pc[p] \in DumpPCs)
  <1>1. IsFiniteSet(DumpThreads) /\ Cardinality(DumpThreads) \in Nat
    BY Finite DEF DumpThreads, At
  <1>2. CASE l \in DumpPCs /\ pc[p] \notin DumpPCs
    <2>1. DumpThreads' = DumpThreads \cup {p} /\ p \notin DumpThreads
      BY <1>2 DEF TypeOK, DumpThreads, At
    <2>2. QED
      BY <1>1, <1>2, <2>1, OneMore DEF One
  <1>3. CASE l \notin DumpPCs /\ pc[p] \in DumpPCs
    <2>1. DumpThreads' = DumpThreads \ {p} /\ p \in DumpThreads
      BY <1>3 DEF TypeOK, DumpThreads, At
    <2>2. QED
      BY <1>1, <1>3, <2>1, OneLess DEF One
  <1>4. CASE l \in DumpPCs <=> pc[p] \in DumpPCs
    <2>1. DumpThreads' = DumpThreads
      BY <1>4 DEF TypeOK, DumpThreads, At
    <2>2. QED
      BY <1>1, <1>4, <2>1 DEF One
  <1>5. QED
    BY <1>2, <1>3, <1>4

LEMMA SourceMove ==
    ASSUME TypeOK, NEW p \in Threads, NEW l \in PCs, pc' = [pc EXCEPT ![p] = l]
    PROVE  Cardinality(SourceThreads') = Cardinality(SourceThreads)
             + One(l \in HoldsSource) - One(pc[p] \in HoldsSource)
  <1>1. IsFiniteSet(SourceThreads) /\ Cardinality(SourceThreads) \in Nat
    BY Finite DEF SourceThreads, At
  <1>2. CASE l \in HoldsSource /\ pc[p] \notin HoldsSource
    <2>1. SourceThreads' = SourceThreads \cup {p} /\ p \notin SourceThreads
      BY <1>2 DEF TypeOK, SourceThreads, At
    <2>2. QED
      BY <1>1, <1>2, <2>1, OneMore DEF One
  <1>3. CASE l \notin HoldsSource /\ pc[p] \in HoldsSource
    <2>1. SourceThreads' = SourceThreads \ {p} /\ p \in SourceThreads
      BY <1>3 DEF TypeOK, SourceThreads, At
    <2>2. QED
      BY <1>1, <1>3, <2>1, OneLess DEF One
  <1>4. CASE l \in HoldsSource <=> pc[p] \in HoldsSource
    <2>1. SourceThreads' = SourceThreads
      BY <1>4 DEF TypeOK, SourceThreads, At
    <2>2. QED
      BY <1>1, <1>4, <2>1 DEF One
  <1>5. QED
    BY <1>2, <1>3, <1>4


\* dma_fence_put of fences that have references keeps the states of the fences
\* in step with their counts.
LEMMA PutFences ==
    ASSUME TypeOK, FenceStates, ZeroIsDead, NEW F \in SUBSET Fences,
           \A f \in F : ref[f] > 0, dma_fence_put(F)
    PROVE  /\ kind' \in [Fences -> Kinds] /\ ref' \in [Fences -> Nat]
           /\ releasing' \subseteq Fences
           /\ \A f \in Fences : ref'[f] = IF f \in F THEN ref[f] - 1 ELSE ref[f]
           /\ \A f \in Fences : kind'[f] # kind[f] =>
                 f \in F /\ kind[f] = "timeline" /\ kind'[f] = "gone" /\ ref'[f] = 0
           /\ \A f \in releasing' : kind[f] = "source"
           /\ Cardinality(TimelineFences') = Cardinality(TimelineFences) + (tref' - tref)
           /\ SourceFences' = SourceFences
           /\ ZeroIsDead'
  <1> DEFINE dead == {f \in F : ref[f] = 1}
             tl == {f \in dead : kind[f] = "timeline"}
  <1>1. /\ ref' = [f \in Fences |-> IF f \in F THEN ref[f] - 1 ELSE ref[f]]
        /\ kind' = [f \in Fences |-> IF f \in tl THEN "gone" ELSE kind[f]]
        /\ releasing' = releasing \cup (dead \ tl)
        /\ tref' = tref - Cardinality(tl)
    BY DEF dma_fence_put
  <1>2. \A f \in F : kind[f] \in {"timeline", "source"} /\ f \notin releasing
    BY DEF ZeroIsDead, TypeOK, Kinds
  <1>3. kind' \in [Fences -> Kinds] /\ ref' \in [Fences -> Nat] /\ releasing' \subseteq Fences
    BY <1>1 DEF TypeOK, Kinds
  <1>4. \A f \in Fences : ref'[f] = IF f \in F THEN ref[f] - 1 ELSE ref[f]
    BY <1>1
  <1>5. \A f \in Fences : kind'[f] # kind[f] =>
          f \in F /\ kind[f] = "timeline" /\ kind'[f] = "gone" /\ ref'[f] = 0
    BY <1>1 DEF TypeOK
  <1>6. \A f \in releasing' : kind[f] = "source"
    BY <1>1, <1>2 DEF FenceStates
  <1>7. Cardinality(TimelineFences') = Cardinality(TimelineFences) + (tref' - tref)
    <2>1. TimelineFences' = TimelineFences \ tl /\ TimelineFences \cap tl = tl
      BY <1>1 DEF TimelineFences, TypeOK
    <2>2. IsFiniteSet(TimelineFences) /\ Cardinality(TimelineFences) \in Nat
          /\ Cardinality(tl) \in Nat
      BY Finite DEF TimelineFences
    <2> HIDE DEF tl, dead
    <2>3. Cardinality(TimelineFences') = Cardinality(TimelineFences) - Cardinality(tl)
      <3>1. Cardinality(TimelineFences \ tl)
              = Cardinality(TimelineFences) - Cardinality(TimelineFences \cap tl)
        BY <2>2, FS_Difference
      <3>2. QED
        BY <2>1, <3>1
    <2>4. tref \in Nat
      BY DEF TypeOK
    <2>5. QED
      BY <1>1, <2>2, <2>3, <2>4
  <1>8. SourceFences' = SourceFences
    BY <1>1 DEF SourceFences, TypeOK
  <1>9. ZeroIsDead'
    BY <1>1, <1>2 DEF ZeroIsDead, TypeOK, Kinds
  <1>10. QED
    BY <1>3, <1>4, <1>5, <1>6, <1>7, <1>8, <1>9

\* The references of every fence are counted.
LEMMA FenceCountStep ==
    ASSUME TypeOK, ThreadFences, FenceStates, ZeroIsDead, FenceCount,
           [Next]_vars
    PROVE  FenceCount'
  <1>1. ASSUME NEW p \in Threads, kgsl_context_get_owner(p) PROVE FenceCount'
    <2>1. \A g \in Fences : FenceHolders(g)' = FenceHolders(g)
      BY <1>1, ThreadFences
         DEF kgsl_context_get_owner, Goto, fenceVars, FenceHolders, At,
             HoldsFence, TypeOK
    <2>2. QED
      BY <1>1, <2>1, Naturals, ThreadFences
         DEF kgsl_context_get_owner, Goto, fenceVars, timelineVars,
             sourceVars, FenceCount, TypeOK, ThreadFences, Makes, One
  <1>2. ASSUME NEW p \in Threads, kgsl_syncsource_get(p) PROVE FenceCount'
    <2>1. \A g \in Fences : FenceHolders(g)' = FenceHolders(g)
      BY <1>2, ThreadFences
         DEF kgsl_syncsource_get, Goto, fenceVars, FenceHolders, At,
             HoldsFence, TypeOK
    <2>2. QED
      BY <1>2, <2>1, Naturals, ThreadFences
         DEF kgsl_syncsource_get, Goto, fenceVars, timelineVars,
             contextVars, FenceCount, TypeOK, ThreadFences, Makes, One
  <1>3. ASSUME NEW p \in Threads, NEW f \in Fences, kgsl_sync_timeline_value_str(p, f)
        PROVE  FenceCount'
    <2>1. \A g \in Fences :
            Cardinality(FenceHolders(g)') = Cardinality(FenceHolders(g)) + One(g = f)
      BY <1>3, HolderNew
         DEF kgsl_sync_timeline_value_str, Goto, HoldsFence
    <2>2. QED
      BY <1>3, <2>1, Naturals
         DEF kgsl_sync_timeline_value_str, Goto, sourceVars, FenceCount,
             TypeOK, One
  <1>4. ASSUME NEW p \in Threads, NEW f \in Fences, kgsl_ioctl_syncsource_signal_fence(p, f)
        PROVE  FenceCount'
    <2>1. \A g \in Fences :
            Cardinality(FenceHolders(g)') = Cardinality(FenceHolders(g)) + One(g = f)
      BY <1>4, HolderNew
         DEF kgsl_ioctl_syncsource_signal_fence, Goto, HoldsFence
    <2>2. QED
      BY <1>4, <2>1, Naturals
         DEF kgsl_ioctl_syncsource_signal_fence, Goto, timelineVars,
             contextVars, FenceCount, TypeOK, One
  <1>5. ASSUME NEW p \in Threads, kgsl_sync_fence_create(p) PROVE FenceCount'
    <2>1. \A g \in Fences : FenceHolders(g)' = FenceHolders(g)
      BY <1>5, ThreadFences
         DEF kgsl_sync_fence_create, Goto, FenceHolders, At, HoldsFence,
             TypeOK
    <2>2. ASSUME NEW f \in Fences, kind[f] = "unborn"
          PROVE  /\ f \notin children /\ ~waiter[f]
                 /\ Cardinality(FenceHolders(f)) = 0
      BY <2>2, Naturals DEF ZeroIsDead, FenceCount, One, TypeOK
    <2>3. QED
      BY <1>5, <2>1, <2>2, Naturals
         DEF kgsl_sync_fence_create, FenceCount, TypeOK, One
  <1>6. ASSUME NEW p \in Threads, kgsl_readtimestamp(p) PROVE FenceCount'
    <2>1. \A g \in Fences : FenceHolders(g)' = FenceHolders(g)
      BY <1>6, ThreadFences
         DEF kgsl_readtimestamp, Goto, fenceVars, FenceHolders, At,
             HoldsFence, TypeOK
    <2>2. QED
      BY <1>6, <2>1, Naturals, ThreadFences
         DEF kgsl_readtimestamp, Goto, fenceVars, timelineVars, contextVars,
             sourceVars, FenceCount, TypeOK, ThreadFences, Makes, One
  <1>7. ASSUME NEW p \in Threads, SignalRetired(p) PROVE FenceCount'
    <2>1. \A g \in Fences : FenceHolders(g)' = FenceHolders(g)
      BY <1>7, ThreadFences
         DEF SignalRetired, Goto, FenceHolders, At, HoldsFence, TypeOK
    <2>2. QED
      BY <1>7, <2>1, Naturals
         DEF SignalRetired, Goto, kgsl_sync_timeline_signal, contextVars,
             dma_fence_put, FenceCount, TypeOK, ThreadFences, Makes, One
  <1>8. ASSUME NEW p \in Threads, _add_fence_event(p) PROVE FenceCount'
    <2>1. \A g \in Fences : FenceHolders(g)' = FenceHolders(g)
      BY <1>8, ThreadFences
         DEF _add_fence_event, Goto, FenceHolders, At, HoldsFence, TypeOK
    <2>2. QED
      BY <1>8, <2>1, Naturals, ThreadFences
         DEF _add_fence_event, Goto, timelineVars, sourceVars, FenceCount,
             TypeOK, ThreadFences, Makes, One
  <1>9. ASSUME NEW p \in Threads, fd_install(p) PROVE FenceCount'
    <2>1. \A g \in Fences : FenceHolders(g)' = FenceHolders(g)
      BY <1>9, ThreadFences
         DEF fd_install, Goto, FenceHolders, At, HoldsFence, TypeOK
    <2>2. QED
      BY <1>9, <2>1, Naturals, ThreadFences
         DEF fd_install, Goto, timelineVars, contextVars, sourceVars,
             FenceCount, TypeOK, ThreadFences, Makes, One
  <1>10. ASSUME NEW p \in Threads, PutContext(p) PROVE FenceCount'
    <2>1. \A g \in Fences : FenceHolders(g)' = FenceHolders(g)
      BY <1>10, ThreadFences
         DEF PutContext, Goto, Return, fenceVars, FenceHolders, At,
             HoldsFence, TypeOK
    <2>2. QED
      BY <1>10, <2>1, Naturals, ThreadFences
         DEF PutContext, kgsl_context_put, Goto, Return, fenceVars,
             sourceVars, FenceCount, TypeOK, ThreadFences, Makes, One
  <1>11. ASSUME NEW p \in Threads, kgsl_sync_cancel(p) PROVE FenceCount'
    <2>1. \A g \in Fences : FenceHolders(g)' = FenceHolders(g)
      BY <1>11, ThreadFences
         DEF kgsl_sync_cancel, Goto, FenceHolders, At, HoldsFence, TypeOK
    <2>2. QED
      BY <1>11, <2>1, Naturals, ThreadFences
         DEF kgsl_sync_cancel, dma_fence_put, Goto, contextVars, FenceCount,
             TypeOK, ThreadFences, Makes, One
  <1>12. ASSUME NEW p \in Threads, fput(p) PROVE FenceCount'
    <2>1. \A g \in Fences : FenceHolders(g)' = FenceHolders(g)
      BY <1>12, ThreadFences
         DEF fput, Return, Goto, FenceHolders, At, HoldsFence, TypeOK
    <2>2. QED
      BY <1>12, <2>1, Naturals, ThreadFences
         DEF fput, dma_fence_put, Return, contextVars, Goto, FenceCount,
             TypeOK, ThreadFences, Makes, One
  <1>13. ASSUME NEW p \in Threads, ValueStrPuts(p) PROVE FenceCount'
    <2>1. \A g \in Fences : FenceHolders(g)' = FenceHolders(g)
      BY <1>13, ThreadFences
         DEF ValueStrPuts, Goto, fenceVars, FenceHolders, At, HoldsFence,
             TypeOK
    <2>2. QED
      BY <1>13, <2>1, Naturals, ThreadFences
         DEF ValueStrPuts, kgsl_context_put, Goto, fenceVars, sourceVars,
             FenceCount, TypeOK, ThreadFences, Makes, One
  <1>14. ASSUME NEW p \in Threads, kgsl_sync_timeline_put(p) PROVE FenceCount'
    <2>1. \A g \in Fences : FenceHolders(g)' = FenceHolders(g)
      BY <1>14, ThreadFences
         DEF kgsl_sync_timeline_put, Goto, fenceVars, FenceHolders, At,
             HoldsFence, TypeOK
    <2>2. QED
      BY <1>14, <2>1, Naturals, ThreadFences
         DEF kgsl_sync_timeline_put, Goto, fenceVars, contextVars,
             sourceVars, FenceCount, TypeOK, ThreadFences, Makes, One
  <1>15. ASSUME NEW p \in Threads, Unref(p) PROVE FenceCount'
    <2>1. \A g \in Fences :
            Cardinality(FenceHolders(g)') = Cardinality(FenceHolders(g)) - One(g = fen[p])
      <3>1. \A q \in Threads : q # p => fen'[q] = fen[q]
        BY <1>15
           DEF Unref, dma_fence_put, Return, contextVars, Goto, TypeOK
      <3>2. QED
        BY <1>15, <3>1, HolderPuts
           DEF Unref, Return, Goto, HoldsFence
    <2>2. QED
      BY <1>15, <2>1, Naturals, ThreadFences
         DEF Unref, dma_fence_put, Return, contextVars, Goto, FenceCount,
             TypeOK, One, ThreadFences, HoldsFence
  <1>16. ASSUME NEW p \in Threads, CreateSourceFence(p) PROVE FenceCount'
    <2>1. CASE pc' = [pc EXCEPT ![p] = "sput"] /\ UNCHANGED <<fen, ref, file>>
      <3>1. \A g \in Fences : FenceHolders(g)' = FenceHolders(g)
        BY <1>16, <2>1 DEF CreateSourceFence, FenceHolders, At, HoldsFence, TypeOK
      <3>2. QED
        BY <1>16, <2>1, <3>1, Naturals
           DEF CreateSourceFence, timelineVars, FenceCount, TypeOK, One
    <2>2. ASSUME NEW f \in Fences, kind[f] = "unborn", fen' = [fen EXCEPT ![p] = f],
                 NEW l \in {"sfd", "unref"}, pc' = [pc EXCEPT ![p] = l],
                 ref' = [ref EXCEPT ![f] = IF l = "sfd" THEN 2 ELSE 1],
                 file' = IF l = "sfd" THEN [file EXCEPT ![f] = "kernel"] ELSE file
          PROVE  FenceCount'
      <3>1. \A g \in Fences :
              Cardinality(FenceHolders(g)') = Cardinality(FenceHolders(g)) + One(g = f)
        <4>1. pc[p] \notin HoldsFence /\ l \in HoldsFence
          BY <1>16, <2>2 DEF CreateSourceFence, HoldsFence
        <4>2. QED
          BY <2>2, <4>1, HolderNew
      <3>2. /\ f \notin children /\ ~waiter[f] /\ file[f] \notin {"kernel", "fd"}
            /\ Cardinality(FenceHolders(f)) = 0
        BY <2>2, Naturals DEF ZeroIsDead, FenceCount, One, TypeOK
      <3>3. QED
        <4>1. children' = children /\ waiter' = waiter
          BY <1>16 DEF CreateSourceFence, timelineVars
        <4>2. CASE l = "sfd"
          BY <2>2, <3>1, <3>2, <4>1, <4>2, Naturals DEF FenceCount, TypeOK, One
        <4>3. CASE l = "unref"
          BY <2>2, <3>1, <3>2, <4>1, <4>3, Naturals DEF FenceCount, TypeOK, One
        <4>4. QED
          BY <2>2, <4>2, <4>3
    <2>3. QED
      BY <1>16, <2>1, <2>2 DEF CreateSourceFence, Goto
  <1>17. ASSUME NEW p \in Threads, SourceFd(p) PROVE FenceCount'
    <2>1. \A g \in Fences : FenceHolders(g)' = FenceHolders(g)
      BY <1>17, ThreadFences
         DEF SourceFd, Goto, FenceHolders, At, HoldsFence, TypeOK
    <2>2. QED
      BY <1>17, <2>1, Naturals, ThreadFences
         DEF SourceFd, Goto, timelineVars, contextVars, sourceVars,
             FenceCount, TypeOK, ThreadFences, Makes, One
  <1>18. ASSUME NEW p \in Threads, SourceList(p) PROVE FenceCount'
    <2>1. \A g \in Fences : FenceHolders(g)' = FenceHolders(g)
      BY <1>18, ThreadFences
         DEF SourceList, Goto, fenceVars, FenceHolders, At, HoldsFence,
             TypeOK
    <2>2. QED
      BY <1>18, <2>1, Naturals, ThreadFences
         DEF SourceList, Goto, fenceVars, timelineVars, contextVars,
             FenceCount, TypeOK, ThreadFences, Makes, One
  <1>19. ASSUME NEW p \in Threads, SourceFail(p) PROVE FenceCount'
    <2>1. \A g \in Fences :
            Cardinality(FenceHolders(g)') = Cardinality(FenceHolders(g)) - One(g = fen[p])
      <3>1. \A q \in Threads : q # p => fen'[q] = fen[q]
        BY <1>19
           DEF SourceFail, dma_fence_put, Goto, contextVars, TypeOK
      <3>2. QED
        BY <1>19, <3>1, HolderPuts
           DEF SourceFail, Goto, HoldsFence
    <2>2. QED
      BY <1>19, <2>1, Naturals, ThreadFences
         DEF SourceFail, dma_fence_put, Goto, contextVars, FenceCount,
             TypeOK, One, ThreadFences, HoldsFence
  <1>20. ASSUME NEW p \in Threads, SignalSource(p) PROVE FenceCount'
    <2>1. \A g \in Fences : FenceHolders(g)' = FenceHolders(g)
      BY <1>20, ThreadFences
         DEF SignalSource, Goto, FenceHolders, At, HoldsFence, TypeOK
    <2>2. QED
      BY <1>20, <2>1, Naturals, ThreadFences
         DEF SignalSource, Goto, kgsl_syncsource_signal, timelineVars,
             contextVars, FenceCount, TypeOK, ThreadFences, Makes, One
  <1>21. ASSUME NEW p \in Threads, SignalPutsFence(p) PROVE FenceCount'
    <2>1. \A g \in Fences :
            Cardinality(FenceHolders(g)') = Cardinality(FenceHolders(g)) - One(g = fen[p])
      <3>1. \A q \in Threads : q # p => fen'[q] = fen[q]
        BY <1>21
           DEF SignalPutsFence, dma_fence_put, Goto, contextVars, TypeOK
      <3>2. QED
        BY <1>21, <3>1, HolderPuts
           DEF SignalPutsFence, Goto, HoldsFence
    <2>2. QED
      BY <1>21, <2>1, Naturals, ThreadFences
         DEF SignalPutsFence, dma_fence_put, Goto, contextVars, FenceCount,
             TypeOK, One, ThreadFences, HoldsFence
  <1>22. ASSUME NEW p \in Threads, kgsl_syncsource_put(p) PROVE FenceCount'
    <2>1. \A g \in Fences : FenceHolders(g)' = FenceHolders(g)
      BY <1>22, ThreadFences
         DEF kgsl_syncsource_put, Return, fenceVars, Goto, FenceHolders, At,
             HoldsFence, TypeOK
    <2>2. QED
      BY <1>22, <2>1, Naturals, ThreadFences
         DEF kgsl_syncsource_put, Return, fenceVars, timelineVars,
             contextVars, Goto, FenceCount, TypeOK, ThreadFences, Makes, One
  <1>23. ASSUME NEW f \in Fences, kgsl_sync_fence_event_cb(f) PROVE FenceCount'
    BY <1>23, FenceCount, TypeOK, Naturals
       DEF kgsl_sync_fence_event_cb, kgsl_sync_timeline_signal, contextVars,
           threadVars, dma_fence_put, TypeOK, FenceCount, FenceHolders, At, One
  <1>24. ASSUME NEW f \in Fences, _kgsl_event_worker(f) PROVE FenceCount'
    BY <1>24, FenceCount, TypeOK, Naturals
       DEF _kgsl_event_worker, kgsl_context_put, sourceVars, threadVars,
           TypeOK, FenceCount, FenceHolders, At, One
  <1>25. ASSUME NEW f \in Fences, kgsl_sync_fence_callback(f) PROVE FenceCount'
    <2>1. \A g \in Fences : FenceHolders(g)' = FenceHolders(g)
      BY <1>25
         DEF kgsl_sync_fence_callback, WaitEnds, threadVars, FenceHolders,
             At
    <2>2. QED
      BY <1>25, <2>1, Naturals
         DEF kgsl_sync_fence_callback, WaitEnds, dma_fence_put, FenceCount,
             TypeOK, One
  <1>26. ASSUME NEW f \in Fences, kgsl_syncsource_fence_release(f) PROVE FenceCount'
    BY <1>26, FenceCount, TypeOK, Naturals
       DEF kgsl_syncsource_fence_release, kgsl_syncsource_signal,
           timelineVars, contextVars, threadVars, TypeOK, FenceCount,
           FenceHolders, At, One
  <1>27. ASSUME NEW f \in Fences, FreeSourceFence(f) PROVE FenceCount'
    BY <1>27, FenceCount, TypeOK, Naturals
       DEF FreeSourceFence, timelineVars, contextVars, threadVars, TypeOK,
           FenceCount, FenceHolders, At, One
  <1>28. ASSUME NEW f \in Fences, close(f) PROVE FenceCount'
    BY <1>28, FenceCount, TypeOK, Naturals
       DEF close, dma_fence_put, contextVars, threadVars, TypeOK,
           FenceCount, FenceHolders, At, One
  <1>29. ASSUME NEW f \in Fences, kgsl_sync_fence_async_wait(f) PROVE FenceCount'
    BY <1>29, FenceCount, TypeOK, Naturals
       DEF kgsl_sync_fence_async_wait, timelineVars, contextVars,
           sourceVars, threadVars, TypeOK, FenceCount, FenceHolders, At, One
  <1>30. ASSUME NEW f \in Fences, kgsl_sync_fence_async_cancel(f) PROVE FenceCount'
    <2>1. \A g \in Fences : FenceHolders(g)' = FenceHolders(g)
      BY <1>30
         DEF kgsl_sync_fence_async_cancel, WaitEnds, threadVars,
             FenceHolders, At
    <2>2. QED
      BY <1>30, <2>1, Naturals
         DEF kgsl_sync_fence_async_cancel, WaitEnds, dma_fence_put,
             FenceCount, TypeOK, One
  <1>31. CASE kgsl_process_event_groups
    BY <1>31, FenceCount, TypeOK, Naturals
       DEF kgsl_process_event_groups, timelineVars, contextVars, sourceVars,
           threadVars, TypeOK, FenceCount, FenceHolders, At, One
  <1>32. CASE GpuRetire
    BY <1>32, FenceCount, TypeOK, Naturals
       DEF GpuRetire, fenceVars, timelineVars, sourceVars, threadVars,
           TypeOK, FenceCount, FenceHolders, At, One
  <1>33. CASE FaultInvalidate
    BY <1>33, FenceCount, TypeOK, Naturals
       DEF FaultInvalidate, adreno_drawctxt_invalidate, SignalEvents, fenceVars,
           timelineVars, sourceVars, threadVars, TypeOK, FenceCount,
           FenceHolders, At, One
  <1>34. CASE kgsl_context_detach
    BY <1>34, FenceCount, TypeOK, Naturals
       DEF kgsl_context_detach, fenceVars, timelineVars, sourceVars,
           threadVars, TypeOK, FenceCount, FenceHolders, At, One
  <1>35. CASE gen7_hwsched_context_detach
    BY <1>35, FenceCount, TypeOK, Naturals
       DEF gen7_hwsched_context_detach, adreno_drawctxt_invalidate,
           SignalEvents, fenceVars, timelineVars, sourceVars, threadVars,
           TypeOK, FenceCount, FenceHolders, At, One
  <1>36. CASE kgsl_cancel_events
    BY <1>36, FenceCount, TypeOK, Naturals
       DEF kgsl_cancel_events, SignalEvents, timelineVars, sourceVars,
           threadVars, TypeOK, FenceCount, FenceHolders, At, One
  <1>37. CASE kgsl_sync_timeline_detach
    BY <1>37, FenceCount, TypeOK, Naturals
       DEF kgsl_sync_timeline_detach, fenceVars, sourceVars, threadVars,
           TypeOK, FenceCount, FenceHolders, At, One
  <1>38. CASE DetachPuts
    BY <1>38, FenceCount, TypeOK, Naturals
       DEF DetachPuts, kgsl_context_put, fenceVars, sourceVars, threadVars,
           TypeOK, FenceCount, FenceHolders, At, One
  <1>39. CASE kgsl_ioctl_syncsource_create
    BY <1>39, FenceCount, TypeOK, Naturals
       DEF kgsl_ioctl_syncsource_create, OneAfterTheOther, fenceVars,
           timelineVars, contextVars, threadVars, TypeOK, FenceCount,
           FenceHolders, At, One
  <1>40. CASE kgsl_ioctl_syncsource_destroy
    BY <1>40, FenceCount, TypeOK, Naturals
       DEF kgsl_ioctl_syncsource_destroy, fenceVars, timelineVars,
           contextVars, threadVars, TypeOK, FenceCount, FenceHolders, At, One
  <1>41. CASE kgsl_syncsource_cleanup
    BY <1>41, FenceCount, TypeOK, Naturals
       DEF kgsl_syncsource_cleanup, timelineVars, contextVars, threadVars,
           TypeOK, FenceCount, FenceHolders, At, One
  <1>42. CASE CleanupPuts
    BY <1>42, FenceCount, TypeOK, Naturals
       DEF CleanupPuts, fenceVars, timelineVars, contextVars, threadVars,
           TypeOK, FenceCount, FenceHolders, At, One
  <1>43. CASE UNCHANGED vars
    BY <1>43, Naturals
       DEF vars, fenceVars, timelineVars, contextVars, sourceVars,
           threadVars, FenceCount, FenceHolders, At, One
  <1>44. CASE Submit
    BY <1>44, FenceCount, TypeOK, Naturals
       DEF Submit, fenceVars, timelineVars, sourceVars, threadVars,
           TypeOK, FenceCount, FenceHolders, At, One
  <1>45. ASSUME NEW f \in Fences, Poll(f) PROVE FenceCount'
    BY <1>45, FenceCount, TypeOK, Naturals
       DEF Poll, timelineVars, contextVars,
           sourceVars, threadVars, TypeOK, FenceCount, FenceHolders, At, One
  <1>46. QED
    BY <1>1, <1>2, <1>3, <1>4, <1>5, <1>6, <1>7, <1>8, <1>9, <1>10, <1>11,
       <1>12, <1>13, <1>14, <1>15, <1>16, <1>17, <1>18, <1>19, <1>20, <1>21, <1>22,
       <1>23, <1>24, <1>25, <1>26, <1>27, <1>28, <1>29, <1>30, <1>31, <1>32, <1>33,
       <1>34, <1>35, <1>36, <1>37, <1>38, <1>39, <1>40, <1>41, <1>42, <1>43, <1>44,
       <1>45
       DEF Next, Call, ThreadStep, FenceStep, UserStep, DetachStep,
           CleanupStep


-----------------------------------------------------------------------------
(***************************************************************************)
(* The steps keep each part of the invariant.  First, what a step does to  *)
(* the references and to the life of the fences.                           *)
(***************************************************************************)
KindChange(f) ==
    \/ kind'[f] = kind[f]
    \/ kind[f] = "unborn" /\ kind'[f] \in {"timeline", "source"}
    \/ kind[f] = "timeline" /\ kind'[f] = "gone" /\ ref'[f] = 0
    \/ kind[f] = "source" /\ kind'[f] = "dying" /\ ref'[f] = 0 /\ f \notin schildren'
    \/ kind[f] = "dying" /\ kind'[f] = "gone"

KindOutcome ==
    /\ kind' \in [Fences -> Kinds] /\ ref' \in [Fences -> Nat]
    /\ releasing' \subseteq Fences
    /\ \A f \in Fences : KindChange(f)
    /\ \A f \in releasing' : kind'[f] = "source"
    /\ ZeroIsDead'


\* References are put by those who have them, and a fence goes when the
\* last one is put.
LEMMA KindStep ==
    ASSUME TypeOK, ThreadFences, FenceStates, ZeroIsDead, FenceCount,
           [Next]_vars
    PROVE  KindOutcome
  <1>1. ASSUME NEW p \in Threads, kgsl_context_get_owner(p) PROVE KindOutcome
    BY <1>1
       DEF kgsl_context_get_owner, fenceVars, sourceVars, KindOutcome,
           KindChange, ZeroIsDead, FenceStates, TypeOK, Kinds
  <1>2. ASSUME NEW p \in Threads, kgsl_syncsource_get(p) PROVE KindOutcome
    BY <1>2
       DEF kgsl_syncsource_get, fenceVars, KindOutcome, KindChange,
           ZeroIsDead, FenceStates, TypeOK, Kinds
  <1>3. ASSUME NEW p \in Threads, NEW f \in Fences, kgsl_sync_timeline_value_str(p, f)
        PROVE  KindOutcome
    BY <1>3, HoldersCounted
       DEF kgsl_sync_timeline_value_str, sourceVars, KindOutcome,
           KindChange, ZeroIsDead, FenceStates, TypeOK, Kinds
  <1>4. ASSUME NEW p \in Threads, NEW f \in Fences, kgsl_ioctl_syncsource_signal_fence(p, f)
        PROVE  KindOutcome
    BY <1>4, HoldersCounted
       DEF kgsl_ioctl_syncsource_signal_fence, KindOutcome, KindChange,
           ZeroIsDead, FenceStates, TypeOK, Kinds
  <1>5. ASSUME NEW p \in Threads, kgsl_sync_fence_create(p) PROVE KindOutcome
    BY <1>5
       DEF kgsl_sync_fence_create, sourceVars, KindOutcome, KindChange,
           ZeroIsDead, FenceStates, TypeOK, Kinds
  <1>6. ASSUME NEW p \in Threads, kgsl_readtimestamp(p) PROVE KindOutcome
    BY <1>6
       DEF kgsl_readtimestamp, fenceVars, sourceVars, KindOutcome,
           KindChange, ZeroIsDead, FenceStates, TypeOK, Kinds
  <1>7. ASSUME NEW p \in Threads, SignalRetired(p) PROVE KindOutcome
    <2>1. PICK F \in SUBSET children : dma_fence_put(F)
      BY <1>7 DEF SignalRetired, kgsl_sync_timeline_signal
    <2>2. F \in SUBSET Fences /\ \A g \in F : ref[g] > 0
      BY <2>1, HoldersCounted DEF TypeOK
    <2>3. QED
      BY <2>1, <2>2, PutFences DEF KindOutcome, KindChange, FenceStates, TypeOK, Kinds
  <1>8. ASSUME NEW p \in Threads, _add_fence_event(p) PROVE KindOutcome
    BY <1>8
       DEF _add_fence_event, sourceVars, KindOutcome, KindChange,
           ZeroIsDead, FenceStates, TypeOK, Kinds
  <1>9. ASSUME NEW p \in Threads, fd_install(p) PROVE KindOutcome
    BY <1>9
       DEF fd_install, sourceVars, KindOutcome, KindChange, ZeroIsDead,
           FenceStates, TypeOK, Kinds
  <1>10. ASSUME NEW p \in Threads, PutContext(p) PROVE KindOutcome
    BY <1>10
       DEF PutContext, fenceVars, sourceVars, KindOutcome, KindChange,
           ZeroIsDead, FenceStates, TypeOK, Kinds
  <1>11. ASSUME NEW p \in Threads, kgsl_sync_cancel(p) PROVE KindOutcome
    <2>1. dma_fence_put(children \cap {fen[p]})
      BY <1>11
         DEF kgsl_sync_cancel
    <2>2. (children \cap {fen[p]}) \in SUBSET Fences /\ \A g \in (children \cap {fen[p]}) : ref[g] > 0
      BY <1>11, HoldersCounted
         DEF kgsl_sync_cancel, ThreadFences, HoldsFence, Makes, TypeOK
    <2>3. QED
      BY <2>1, <2>2, PutFences DEF KindOutcome, KindChange, FenceStates, TypeOK, Kinds
  <1>12. ASSUME NEW p \in Threads, fput(p) PROVE KindOutcome
    <2>1. dma_fence_put({fen[p]})
      BY <1>12
         DEF fput
    <2>2. {fen[p]} \in SUBSET Fences /\ \A g \in {fen[p]} : ref[g] > 0
      BY <1>12, HoldersCounted
         DEF fput, ThreadFences, HoldsFence, Makes, TypeOK
    <2>3. QED
      BY <2>1, <2>2, PutFences DEF KindOutcome, KindChange, FenceStates, TypeOK, Kinds
  <1>13. ASSUME NEW p \in Threads, ValueStrPuts(p) PROVE KindOutcome
    BY <1>13
       DEF ValueStrPuts, fenceVars, sourceVars, KindOutcome, KindChange,
           ZeroIsDead, FenceStates, TypeOK, Kinds
  <1>14. ASSUME NEW p \in Threads, kgsl_sync_timeline_put(p) PROVE KindOutcome
    BY <1>14
       DEF kgsl_sync_timeline_put, fenceVars, sourceVars, KindOutcome,
           KindChange, ZeroIsDead, FenceStates, TypeOK, Kinds
  <1>15. ASSUME NEW p \in Threads, Unref(p) PROVE KindOutcome
    <2>1. dma_fence_put({fen[p]})
      BY <1>15
         DEF Unref
    <2>2. {fen[p]} \in SUBSET Fences /\ \A g \in {fen[p]} : ref[g] > 0
      BY <1>15, HoldersCounted
         DEF Unref, ThreadFences, HoldsFence, Makes, TypeOK
    <2>3. QED
      BY <2>1, <2>2, PutFences DEF KindOutcome, KindChange, FenceStates, TypeOK, Kinds
  <1>16. ASSUME NEW p \in Threads, CreateSourceFence(p) PROVE KindOutcome
    BY <1>16
       DEF CreateSourceFence, sourceVars, KindOutcome, KindChange,
           ZeroIsDead, FenceStates, TypeOK, Kinds
  <1>17. ASSUME NEW p \in Threads, SourceFd(p) PROVE KindOutcome
    BY <1>17
       DEF SourceFd, sourceVars, KindOutcome, KindChange, ZeroIsDead,
           FenceStates, TypeOK, Kinds
  <1>18. ASSUME NEW p \in Threads, SourceList(p) PROVE KindOutcome
    BY <1>18
       DEF SourceList, fenceVars, KindOutcome, KindChange, ZeroIsDead,
           FenceStates, TypeOK, Kinds
  <1>19. ASSUME NEW p \in Threads, SourceFail(p) PROVE KindOutcome
    <2>1. dma_fence_put({fen[p]})
      BY <1>19
         DEF SourceFail
    <2>2. {fen[p]} \in SUBSET Fences /\ \A g \in {fen[p]} : ref[g] > 0
      BY <1>19, HoldersCounted
         DEF SourceFail, ThreadFences, HoldsFence, Makes, TypeOK
    <2>3. QED
      BY <2>1, <2>2, PutFences DEF KindOutcome, KindChange, FenceStates, TypeOK, Kinds
  <1>20. ASSUME NEW p \in Threads, SignalSource(p) PROVE KindOutcome
    BY <1>20
       DEF SignalSource, kgsl_syncsource_signal, KindOutcome, KindChange,
           ZeroIsDead, FenceStates, TypeOK, Kinds
  <1>21. ASSUME NEW p \in Threads, SignalPutsFence(p) PROVE KindOutcome
    <2>1. dma_fence_put({fen[p]})
      BY <1>21
         DEF SignalPutsFence
    <2>2. {fen[p]} \in SUBSET Fences /\ \A g \in {fen[p]} : ref[g] > 0
      BY <1>21, HoldersCounted
         DEF SignalPutsFence, ThreadFences, HoldsFence, Makes, TypeOK
    <2>3. QED
      BY <2>1, <2>2, PutFences DEF KindOutcome, KindChange, FenceStates, TypeOK, Kinds
  <1>22. ASSUME NEW p \in Threads, kgsl_syncsource_put(p) PROVE KindOutcome
    BY <1>22
       DEF kgsl_syncsource_put, fenceVars, KindOutcome, KindChange,
           ZeroIsDead, FenceStates, TypeOK, Kinds
  <1>23. ASSUME NEW f \in Fences, kgsl_sync_fence_event_cb(f) PROVE KindOutcome
    <2>1. PICK F \in SUBSET children : dma_fence_put(F)
      BY <1>23 DEF kgsl_sync_fence_event_cb, kgsl_sync_timeline_signal
    <2>2. F \in SUBSET Fences /\ \A g \in F : ref[g] > 0
      BY <2>1, HoldersCounted DEF TypeOK
    <2>3. QED
      BY <2>1, <2>2, PutFences DEF KindOutcome, KindChange, FenceStates, TypeOK, Kinds
  <1>24. ASSUME NEW f \in Fences, _kgsl_event_worker(f) PROVE KindOutcome
    BY <1>24
       DEF _kgsl_event_worker, sourceVars, KindOutcome, KindChange,
           ZeroIsDead, FenceStates, TypeOK, Kinds
  <1>25. ASSUME NEW f \in Fences, kgsl_sync_fence_callback(f) PROVE KindOutcome
    <2>1. dma_fence_put({f})
      BY <1>25
         DEF kgsl_sync_fence_callback, WaitEnds
    <2>2. {f} \in SUBSET Fences /\ \A g \in {f} : ref[g] > 0
      BY <1>25, HoldersCounted
         DEF kgsl_sync_fence_callback, WaitEnds, TypeOK
    <2>3. QED
      BY <2>1, <2>2, PutFences DEF KindOutcome, KindChange, FenceStates, TypeOK, Kinds
  <1>26. ASSUME NEW f \in Fences, kgsl_syncsource_fence_release(f) PROVE KindOutcome
    BY <1>26
       DEF kgsl_syncsource_fence_release, kgsl_syncsource_signal,
           KindOutcome, KindChange, ZeroIsDead, FenceStates, TypeOK, Kinds
  <1>27. ASSUME NEW f \in Fences, FreeSourceFence(f) PROVE KindOutcome
    BY <1>27
       DEF FreeSourceFence, KindOutcome, KindChange, ZeroIsDead,
           FenceStates, TypeOK, Kinds
  <1>28. ASSUME NEW f \in Fences, close(f) PROVE KindOutcome
    <2>1. dma_fence_put({f})
      BY <1>28
         DEF close
    <2>2. {f} \in SUBSET Fences /\ \A g \in {f} : ref[g] > 0
      BY <1>28, HoldersCounted
         DEF close, TypeOK
    <2>3. QED
      BY <2>1, <2>2, PutFences DEF KindOutcome, KindChange, FenceStates, TypeOK, Kinds
  <1>29. ASSUME NEW f \in Fences, kgsl_sync_fence_async_wait(f) PROVE KindOutcome
    BY <1>29, HoldersCounted
       DEF kgsl_sync_fence_async_wait, sourceVars, KindOutcome, KindChange,
           ZeroIsDead, FenceStates, TypeOK, Kinds
  <1>30. ASSUME NEW f \in Fences, kgsl_sync_fence_async_cancel(f) PROVE KindOutcome
    <2>1. dma_fence_put({f})
      BY <1>30
         DEF kgsl_sync_fence_async_cancel, WaitEnds
    <2>2. {f} \in SUBSET Fences /\ \A g \in {f} : ref[g] > 0
      BY <1>30, HoldersCounted
         DEF kgsl_sync_fence_async_cancel, WaitEnds, TypeOK
    <2>3. QED
      BY <2>1, <2>2, PutFences DEF KindOutcome, KindChange, FenceStates, TypeOK, Kinds
  <1>31. CASE kgsl_process_event_groups
    BY <1>31
       DEF kgsl_process_event_groups, sourceVars, KindOutcome, KindChange,
           ZeroIsDead, FenceStates, TypeOK, Kinds
  <1>32. CASE GpuRetire
    BY <1>32
       DEF GpuRetire, fenceVars, sourceVars, KindOutcome, KindChange,
           ZeroIsDead, FenceStates, TypeOK, Kinds
  <1>33. CASE FaultInvalidate
    BY <1>33
       DEF FaultInvalidate, adreno_drawctxt_invalidate, SignalEvents, fenceVars,
           sourceVars, KindOutcome, KindChange, ZeroIsDead, FenceStates, TypeOK,
           Kinds
  <1>34. CASE kgsl_context_detach
    BY <1>34
       DEF kgsl_context_detach, fenceVars, sourceVars, KindOutcome,
           KindChange, ZeroIsDead, FenceStates, TypeOK, Kinds
  <1>35. CASE gen7_hwsched_context_detach
    BY <1>35
       DEF gen7_hwsched_context_detach, adreno_drawctxt_invalidate,
           SignalEvents, fenceVars, sourceVars, KindOutcome, KindChange,
           ZeroIsDead, FenceStates, TypeOK, Kinds
  <1>36. CASE kgsl_cancel_events
    BY <1>36
       DEF kgsl_cancel_events, SignalEvents, sourceVars, KindOutcome, KindChange,
           ZeroIsDead, FenceStates, TypeOK, Kinds
  <1>37. CASE kgsl_sync_timeline_detach
    BY <1>37
       DEF kgsl_sync_timeline_detach, fenceVars, sourceVars, KindOutcome,
           KindChange, ZeroIsDead, FenceStates, TypeOK, Kinds
  <1>38. CASE DetachPuts
    BY <1>38
       DEF DetachPuts, fenceVars, sourceVars, KindOutcome, KindChange,
           ZeroIsDead, FenceStates, TypeOK, Kinds
  <1>39. CASE kgsl_ioctl_syncsource_create
    BY <1>39
       DEF kgsl_ioctl_syncsource_create, fenceVars, KindOutcome, KindChange,
           ZeroIsDead, FenceStates, TypeOK, Kinds
  <1>40. CASE kgsl_ioctl_syncsource_destroy
    BY <1>40
       DEF kgsl_ioctl_syncsource_destroy, fenceVars, KindOutcome,
           KindChange, ZeroIsDead, FenceStates, TypeOK, Kinds
  <1>41. CASE kgsl_syncsource_cleanup
    BY <1>41
       DEF kgsl_syncsource_cleanup, KindOutcome, KindChange, ZeroIsDead,
           FenceStates, TypeOK, Kinds
  <1>42. CASE CleanupPuts
    BY <1>42
       DEF CleanupPuts, fenceVars, KindOutcome, KindChange, ZeroIsDead,
           FenceStates, TypeOK, Kinds
  <1>43. CASE UNCHANGED vars
    BY <1>43
       DEF vars, fenceVars, sourceVars, KindOutcome, KindChange, ZeroIsDead,
           FenceStates, TypeOK
  <1>44. CASE Submit
    BY <1>44
       DEF Submit, fenceVars, sourceVars, KindOutcome, KindChange,
           ZeroIsDead, FenceStates, TypeOK, Kinds
  <1>45. ASSUME NEW f \in Fences, Poll(f) PROVE KindOutcome
    BY <1>45, HoldersCounted
       DEF Poll, sourceVars, KindOutcome, KindChange,
           ZeroIsDead, FenceStates, TypeOK, Kinds
  <1>46. QED
    BY <1>1, <1>2, <1>3, <1>4, <1>5, <1>6, <1>7, <1>8, <1>9, <1>10, <1>11,
       <1>12, <1>13, <1>14, <1>15, <1>16, <1>17, <1>18, <1>19, <1>20, <1>21, <1>22,
       <1>23, <1>24, <1>25, <1>26, <1>27, <1>28, <1>29, <1>30, <1>31, <1>32, <1>33,
       <1>34, <1>35, <1>36, <1>37, <1>38, <1>39, <1>40, <1>41, <1>42, <1>43, <1>44,
       <1>45
       DEF Next, Call, ThreadStep, FenceStep, UserStep, DetachStep,
           CleanupStep


\* The same of the state after a step.
LEMMA HoldersCountedNext ==
    ASSUME FenceCount', NEW f \in Fences
    PROVE  /\ f \in children' => ref'[f] > 0
           /\ file'[f] \in {"kernel", "fd"} => ref'[f] > 0
           /\ waiter'[f] => ref'[f] > 0
           /\ \A p \in Threads : pc'[p] \in HoldsFence /\ fen'[p] = f => ref'[f] > 0
  <1>1. Cardinality(FenceHolders(f)') \in Nat
    BY Naturals
  <1>2. ASSUME NEW p \in Threads, pc'[p] \in HoldsFence, fen'[p] = f
        PROVE  Cardinality(FenceHolders(f)') > 0
    <2>1. p \in FenceHolders(f)' /\ IsFiniteSet(FenceHolders(f)')
      BY <1>2, Finite DEF FenceHolders, At
    <2>2. QED
      BY <2>1, OneLess
  <1>3. QED
    BY <1>1, <1>2 DEF FenceCount, One


\* A thread keeps what it knows of its fence.
LEMMA ThreadFencesStep ==
    ASSUME TypeOK, ThreadFences, FenceStates, ZeroIsDead, FenceCount,
           [Next]_vars
    PROVE  ThreadFences'
  <1>a. KindOutcome
    BY KindStep
  <1>b. \A f \in Fences :
          /\ f \in children' \/ file'[f] \in {"kernel", "fd"} \/ waiter'[f] => ref'[f] > 0
          /\ \A p \in Threads : pc'[p] \in HoldsFence /\ fen'[p] = f => ref'[f] > 0
    BY FenceCountStep, HoldersCountedNext
  <1>c. \A f \in Fences : ref'[f] > 0 =>
          kind'[f] = kind[f] \/ (kind[f] = "unborn" /\ kind'[f] \in {"timeline", "source"})
    BY <1>a DEF KindOutcome, KindChange, ZeroIsDead, Kinds
  <1>d. \A f \in Fences : kind[f] = "unborn" =>
          f \notin children /\ file[f] \notin {"kernel", "fd"} /\ ~waiter[f]
    BY HoldersCounted DEF ZeroIsDead
  <1>e. \A p \in Threads : pc[p] \in HoldsFence => kind[fen[p]] # "unborn"
    BY HoldersCounted DEF ZeroIsDead, ThreadFences
  <1>1. ASSUME NEW p \in Threads, kgsl_context_get_owner(p) PROVE ThreadFences'
    BY <1>1, <1>b, <1>c, <1>d, <1>e
       DEF kgsl_context_get_owner, Goto, fenceVars, timelineVars,
           sourceVars, ThreadFences, Makes, MakesTimeline, HoldsFence, TypeOK
  <1>2. ASSUME NEW p \in Threads, kgsl_syncsource_get(p) PROVE ThreadFences'
    BY <1>2, <1>b, <1>c, <1>d, <1>e
       DEF kgsl_syncsource_get, Goto, fenceVars, timelineVars, contextVars,
           ThreadFences, Makes, MakesTimeline, HoldsFence, TypeOK
  <1>3. ASSUME NEW p \in Threads, NEW f \in Fences, kgsl_sync_timeline_value_str(p, f)
        PROVE  ThreadFences'
    BY <1>3, <1>b, <1>c, <1>d, <1>e
       DEF kgsl_sync_timeline_value_str, Goto, sourceVars, ThreadFences,
           Makes, MakesTimeline, HoldsFence, TypeOK
  <1>4. ASSUME NEW p \in Threads, NEW f \in Fences, kgsl_ioctl_syncsource_signal_fence(p, f)
        PROVE  ThreadFences'
    BY <1>4, <1>b, <1>c, <1>d, <1>e
       DEF kgsl_ioctl_syncsource_signal_fence, Goto, timelineVars,
           contextVars, ThreadFences, Makes, MakesTimeline, HoldsFence, TypeOK
  <1>5. ASSUME NEW p \in Threads, kgsl_sync_fence_create(p) PROVE ThreadFences'
    <2>1. ASSUME NEW f \in Fences, NEW t \in 1 .. MaxTs,
                 kind[f] = "unborn", kind' = [kind EXCEPT ![f] = "timeline"],
                 file' = [file EXCEPT ![f] = "kernel"], fen' = [fen EXCEPT ![p] = f],
                 pc' = [pc EXCEPT ![p] = "fd"]
          PROVE  ThreadFences'
      <3>1. event[f] = "none" /\ event' = event /\ ctx' = ctx
        BY <1>5, <2>1 DEF kgsl_sync_fence_create, FenceStates
      <3>2. \A q \in Threads : pc[q] \in Makes => fen[q] # f
        BY <2>1, <1>d DEF ThreadFences
      <3>3. \A q \in Threads : pc[q] \in {"slist"} => fen[q] # f
        BY <2>1, <1>e DEF HoldsFence
      <3>4. QED
        BY <1>5, <2>1, <3>1, <3>2, <3>3
           DEF kgsl_sync_fence_create, ThreadFences, Makes, MakesTimeline,
               HoldsFence, TypeOK
    <2>2. CASE UNCHANGED <<kind, file, fen>> /\ pc' = [pc EXCEPT ![p] = "put"]
      BY <1>5, <2>2
         DEF kgsl_sync_fence_create, ThreadFences, Makes, MakesTimeline,
             HoldsFence, TypeOK
    <2>3. QED
      BY <1>5, <2>1, <2>2 DEF kgsl_sync_fence_create, Goto
  <1>6. ASSUME NEW p \in Threads, kgsl_readtimestamp(p) PROVE ThreadFences'
    BY <1>6, <1>b, <1>c, <1>d, <1>e
       DEF kgsl_readtimestamp, Goto, fenceVars, timelineVars, contextVars,
           sourceVars, ThreadFences, Makes, MakesTimeline, HoldsFence, TypeOK
  <1>7. ASSUME NEW p \in Threads, SignalRetired(p) PROVE ThreadFences'
    BY <1>7, <1>b, <1>c, <1>d, <1>e
       DEF SignalRetired, Goto, kgsl_sync_timeline_signal, contextVars,
           ThreadFences, Makes, MakesTimeline, HoldsFence, TypeOK
  <1>8. ASSUME NEW p \in Threads, _add_fence_event(p) PROVE ThreadFences'
    BY <1>8, <1>b, <1>c, <1>d, <1>e
       DEF _add_fence_event, Goto, timelineVars, sourceVars, ThreadFences,
           Makes, MakesTimeline, HoldsFence, TypeOK
  <1>9. ASSUME NEW p \in Threads, fd_install(p) PROVE ThreadFences'
    BY <1>9, <1>b, <1>c, <1>d, <1>e
       DEF fd_install, Goto, timelineVars, contextVars, sourceVars,
           ThreadFences, Makes, MakesTimeline, HoldsFence, TypeOK
  <1>10. ASSUME NEW p \in Threads, PutContext(p) PROVE ThreadFences'
    BY <1>10, <1>b, <1>c, <1>d, <1>e
       DEF PutContext, Goto, Return, fenceVars, sourceVars, ThreadFences,
           Makes, MakesTimeline, HoldsFence, TypeOK
  <1>11. ASSUME NEW p \in Threads, kgsl_sync_cancel(p) PROVE ThreadFences'
    BY <1>11, <1>b, <1>c, <1>d, <1>e
       DEF kgsl_sync_cancel, Goto, contextVars, ThreadFences, Makes,
           MakesTimeline, HoldsFence, TypeOK
  <1>12. ASSUME NEW p \in Threads, fput(p) PROVE ThreadFences'
    BY <1>12, <1>b, <1>c, <1>d, <1>e
       DEF fput, Return, contextVars, Goto, ThreadFences, Makes,
           MakesTimeline, HoldsFence, TypeOK
  <1>13. ASSUME NEW p \in Threads, ValueStrPuts(p) PROVE ThreadFences'
    BY <1>13, <1>b, <1>c, <1>d, <1>e
       DEF ValueStrPuts, Goto, fenceVars, sourceVars, ThreadFences, Makes,
           MakesTimeline, HoldsFence, TypeOK
  <1>14. ASSUME NEW p \in Threads, kgsl_sync_timeline_put(p) PROVE ThreadFences'
    BY <1>14, <1>b, <1>c, <1>d, <1>e
       DEF kgsl_sync_timeline_put, Goto, fenceVars, contextVars, sourceVars,
           ThreadFences, Makes, MakesTimeline, HoldsFence, TypeOK
  <1>15. ASSUME NEW p \in Threads, Unref(p) PROVE ThreadFences'
    BY <1>15, <1>b, <1>c, <1>d, <1>e
       DEF Unref, Return, contextVars, Goto, ThreadFences, Makes,
           MakesTimeline, HoldsFence, TypeOK
  <1>16. ASSUME NEW p \in Threads, CreateSourceFence(p) PROVE ThreadFences'
    BY <1>16, <1>b, <1>c, <1>d, <1>e
       DEF CreateSourceFence, Goto, timelineVars, contextVars, sourceVars,
           ThreadFences, Makes, MakesTimeline, HoldsFence, TypeOK
  <1>17. ASSUME NEW p \in Threads, SourceFd(p) PROVE ThreadFences'
    BY <1>17, <1>b, <1>c, <1>d, <1>e
       DEF SourceFd, Goto, timelineVars, contextVars, sourceVars,
           ThreadFences, Makes, MakesTimeline, HoldsFence, TypeOK
  <1>18. ASSUME NEW p \in Threads, SourceList(p) PROVE ThreadFences'
    BY <1>18, <1>b, <1>c, <1>d, <1>e
       DEF SourceList, Goto, fenceVars, timelineVars, contextVars,
           ThreadFences, Makes, MakesTimeline, HoldsFence, TypeOK
  <1>19. ASSUME NEW p \in Threads, SourceFail(p) PROVE ThreadFences'
    BY <1>19, <1>b, <1>c, <1>d, <1>e
       DEF SourceFail, Goto, contextVars, ThreadFences, Makes,
           MakesTimeline, HoldsFence, TypeOK
  <1>20. ASSUME NEW p \in Threads, SignalSource(p) PROVE ThreadFences'
    BY <1>20, <1>b, <1>c, <1>d, <1>e
       DEF SignalSource, Goto, kgsl_syncsource_signal, timelineVars,
           contextVars, ThreadFences, Makes, MakesTimeline, HoldsFence, TypeOK
  <1>21. ASSUME NEW p \in Threads, SignalPutsFence(p) PROVE ThreadFences'
    BY <1>21, <1>b, <1>c, <1>d, <1>e
       DEF SignalPutsFence, Goto, contextVars, ThreadFences, Makes,
           MakesTimeline, HoldsFence, TypeOK
  <1>22. ASSUME NEW p \in Threads, kgsl_syncsource_put(p) PROVE ThreadFences'
    BY <1>22, <1>b, <1>c, <1>d, <1>e
       DEF kgsl_syncsource_put, Return, fenceVars, timelineVars,
           contextVars, Goto, ThreadFences, Makes, MakesTimeline, HoldsFence,
           TypeOK
  <1>23. ASSUME NEW f \in Fences, kgsl_sync_fence_event_cb(f) PROVE ThreadFences'
    BY <1>23, <1>b, <1>c, <1>d, <1>e
       DEF kgsl_sync_fence_event_cb, kgsl_sync_timeline_signal, contextVars,
           threadVars, ThreadFences, Makes, MakesTimeline, HoldsFence, TypeOK
  <1>24. ASSUME NEW f \in Fences, _kgsl_event_worker(f) PROVE ThreadFences'
    BY <1>24, <1>b, <1>c, <1>d, <1>e
       DEF _kgsl_event_worker, sourceVars, threadVars, ThreadFences, Makes,
           MakesTimeline, HoldsFence, TypeOK
  <1>25. ASSUME NEW f \in Fences, kgsl_sync_fence_callback(f) PROVE ThreadFences'
    BY <1>25, <1>b, <1>c, <1>d, <1>e
       DEF kgsl_sync_fence_callback, WaitEnds, contextVars, threadVars,
           ThreadFences, Makes, MakesTimeline, HoldsFence, TypeOK
  <1>26. ASSUME NEW f \in Fences, kgsl_syncsource_fence_release(f)
        PROVE  ThreadFences'
    BY <1>26, <1>b, <1>c, <1>d, <1>e
       DEF kgsl_syncsource_fence_release, kgsl_syncsource_signal,
           timelineVars, contextVars, threadVars, ThreadFences, Makes,
           MakesTimeline, HoldsFence, TypeOK
  <1>27. ASSUME NEW f \in Fences, FreeSourceFence(f) PROVE ThreadFences'
    BY <1>27, <1>b, <1>c, <1>d, <1>e
       DEF FreeSourceFence, timelineVars, contextVars, threadVars,
           ThreadFences, Makes, MakesTimeline, HoldsFence, TypeOK
  <1>28. ASSUME NEW f \in Fences, close(f) PROVE ThreadFences'
    BY <1>28, <1>b, <1>c, <1>d, <1>e
       DEF close, contextVars, threadVars, ThreadFences, Makes,
           MakesTimeline, HoldsFence, TypeOK
  <1>29. ASSUME NEW f \in Fences, kgsl_sync_fence_async_wait(f) PROVE ThreadFences'
    BY <1>29, <1>b, <1>c, <1>d, <1>e
       DEF kgsl_sync_fence_async_wait, timelineVars, contextVars,
           sourceVars, threadVars, ThreadFences, Makes, MakesTimeline,
           HoldsFence, TypeOK
  <1>30. ASSUME NEW f \in Fences, kgsl_sync_fence_async_cancel(f)
        PROVE  ThreadFences'
    BY <1>30, <1>b, <1>c, <1>d, <1>e
       DEF kgsl_sync_fence_async_cancel, WaitEnds, contextVars, threadVars,
           ThreadFences, Makes, MakesTimeline, HoldsFence, TypeOK
  <1>31. CASE kgsl_process_event_groups
    BY <1>31, <1>b, <1>c, <1>d, <1>e
       DEF kgsl_process_event_groups, timelineVars, contextVars, sourceVars,
           threadVars, ThreadFences, Makes, MakesTimeline, HoldsFence, TypeOK
  <1>32. CASE GpuRetire
    BY <1>32, <1>b, <1>c, <1>d, <1>e
       DEF GpuRetire, fenceVars, timelineVars, sourceVars, threadVars,
           ThreadFences, Makes, MakesTimeline, HoldsFence, TypeOK
  <1>33. CASE FaultInvalidate
    BY <1>33, <1>b, <1>c, <1>d, <1>e
       DEF FaultInvalidate, adreno_drawctxt_invalidate, SignalEvents, fenceVars,
           timelineVars, sourceVars, threadVars, ThreadFences, Makes,
           MakesTimeline, HoldsFence, TypeOK
  <1>34. CASE kgsl_context_detach
    BY <1>34, <1>b, <1>c, <1>d, <1>e
       DEF kgsl_context_detach, fenceVars, timelineVars, sourceVars,
           threadVars, ThreadFences, Makes, MakesTimeline, HoldsFence, TypeOK
  <1>35. CASE gen7_hwsched_context_detach
    BY <1>35, <1>b, <1>c, <1>d, <1>e
       DEF gen7_hwsched_context_detach, adreno_drawctxt_invalidate,
           SignalEvents, fenceVars, timelineVars, sourceVars, threadVars,
           ThreadFences, Makes, MakesTimeline, HoldsFence, TypeOK
  <1>36. CASE kgsl_cancel_events
    BY <1>36, <1>b, <1>c, <1>d, <1>e
       DEF kgsl_cancel_events, SignalEvents, timelineVars, sourceVars, threadVars,
           ThreadFences, Makes, MakesTimeline, HoldsFence, TypeOK
  <1>37. CASE kgsl_sync_timeline_detach
    BY <1>37, <1>b, <1>c, <1>d, <1>e
       DEF kgsl_sync_timeline_detach, fenceVars, sourceVars, threadVars,
           ThreadFences, Makes, MakesTimeline, HoldsFence, TypeOK
  <1>38. CASE DetachPuts
    BY <1>38, <1>b, <1>c, <1>d, <1>e
       DEF DetachPuts, fenceVars, sourceVars, threadVars, ThreadFences,
           Makes, MakesTimeline, HoldsFence, TypeOK
  <1>39. CASE kgsl_ioctl_syncsource_create
    BY <1>39, <1>b, <1>c, <1>d, <1>e
       DEF kgsl_ioctl_syncsource_create, OneAfterTheOther, fenceVars,
           timelineVars, contextVars, threadVars, ThreadFences, Makes,
           MakesTimeline, HoldsFence, TypeOK
  <1>40. CASE kgsl_ioctl_syncsource_destroy
    BY <1>40, <1>b, <1>c, <1>d, <1>e
       DEF kgsl_ioctl_syncsource_destroy, fenceVars, timelineVars,
           contextVars, threadVars, ThreadFences, Makes, MakesTimeline,
           HoldsFence, TypeOK
  <1>41. CASE kgsl_syncsource_cleanup
    BY <1>41, <1>b, <1>c, <1>d, <1>e
       DEF kgsl_syncsource_cleanup, timelineVars, contextVars, threadVars,
           ThreadFences, Makes, MakesTimeline, HoldsFence, TypeOK
  <1>42. CASE CleanupPuts
    BY <1>42, <1>b, <1>c, <1>d, <1>e
       DEF CleanupPuts, fenceVars, timelineVars, contextVars, threadVars,
           ThreadFences, Makes, MakesTimeline, HoldsFence, TypeOK
  <1>43. CASE UNCHANGED vars
    BY <1>43
       DEF vars, fenceVars, timelineVars, contextVars, sourceVars,
           threadVars, ThreadFences
  <1>44. CASE Submit
    BY <1>44, <1>b, <1>c, <1>d, <1>e
       DEF Submit, fenceVars, timelineVars, sourceVars, threadVars,
           ThreadFences, Makes, MakesTimeline, HoldsFence, TypeOK
  <1>45. ASSUME NEW f \in Fences, Poll(f) PROVE ThreadFences'
    BY <1>45, <1>b, <1>c, <1>d, <1>e
       DEF Poll, timelineVars, contextVars,
           sourceVars, threadVars, ThreadFences, Makes, MakesTimeline,
           HoldsFence, TypeOK
  <1>46. QED
    BY <1>1, <1>2, <1>3, <1>4, <1>5, <1>6, <1>7, <1>8, <1>9, <1>10, <1>11,
       <1>12, <1>13, <1>14, <1>15, <1>16, <1>17, <1>18, <1>19, <1>20, <1>21, <1>22,
       <1>23, <1>24, <1>25, <1>26, <1>27, <1>28, <1>29, <1>30, <1>31, <1>32, <1>33,
       <1>34, <1>35, <1>36, <1>37, <1>38, <1>39, <1>40, <1>41, <1>42, <1>43, <1>44,
       <1>45
       DEF Next, Call, ThreadStep, FenceStep, UserStep, DetachStep,
           CleanupStep

\* The states of the fences.
LEMMA FenceStatesStep ==
    ASSUME TypeOK, ThreadFences, FenceStates, ZeroIsDead, FenceCount,
           [Next]_vars
    PROVE  FenceStates'
  <1>a. KindOutcome
    BY KindStep
  <1>b. \A f \in Fences :
          /\ f \in children' \/ file'[f] \in {"kernel", "fd"} \/ waiter'[f] => ref'[f] > 0
          /\ \A p \in Threads : pc'[p] \in HoldsFence /\ fen'[p] = f => ref'[f] > 0
    BY FenceCountStep, HoldersCountedNext
  <1>c. \A f \in Fences : ref'[f] > 0 =>
          kind'[f] = kind[f] \/ (kind[f] = "unborn" /\ kind'[f] \in {"timeline", "source"})
    BY <1>a DEF KindOutcome, KindChange, ZeroIsDead, Kinds
  <1>d. \A f \in Fences : kind[f] = "unborn" =>
          f \notin children /\ file[f] \notin {"kernel", "fd"} /\ ~waiter[f]
    BY HoldersCounted DEF ZeroIsDead
  <1>e. \A p \in Threads : pc[p] \in HoldsFence => kind[fen[p]] # "unborn"
    BY HoldersCounted DEF ZeroIsDead, ThreadFences
  <1>1. ASSUME NEW p \in Threads, kgsl_context_get_owner(p) PROVE FenceStates'
    BY <1>1, <1>a, <1>b, <1>c, <1>d
       DEF kgsl_context_get_owner, Goto, fenceVars, timelineVars,
           sourceVars, FenceStates, TypeOK, KindOutcome, KindChange
  <1>2. ASSUME NEW p \in Threads, kgsl_syncsource_get(p) PROVE FenceStates'
    BY <1>2, <1>a, <1>b, <1>c, <1>d
       DEF kgsl_syncsource_get, Goto, fenceVars, timelineVars, contextVars,
           FenceStates, TypeOK, KindOutcome, KindChange
  <1>3. ASSUME NEW p \in Threads, NEW f \in Fences, kgsl_sync_timeline_value_str(p, f)
        PROVE  FenceStates'
    BY <1>3, <1>a, <1>b, <1>c, <1>d
       DEF kgsl_sync_timeline_value_str, Goto, sourceVars, FenceStates,
           TypeOK, KindOutcome, KindChange
  <1>4. ASSUME NEW p \in Threads, NEW f \in Fences, kgsl_ioctl_syncsource_signal_fence(p, f)
        PROVE  FenceStates'
    BY <1>4, <1>a, <1>b, <1>c, <1>d
       DEF kgsl_ioctl_syncsource_signal_fence, Goto, timelineVars,
           contextVars, FenceStates, TypeOK, KindOutcome, KindChange
  <1>5. ASSUME NEW p \in Threads, kgsl_sync_fence_create(p) PROVE FenceStates'
    BY <1>5, <1>a, <1>b, <1>c, <1>d
       DEF kgsl_sync_fence_create, Goto, contextVars, sourceVars,
           FenceStates, TypeOK, KindOutcome, KindChange
  <1>6. ASSUME NEW p \in Threads, kgsl_readtimestamp(p) PROVE FenceStates'
    BY <1>6, <1>a, <1>b, <1>c, <1>d
       DEF kgsl_readtimestamp, Goto, fenceVars, timelineVars, contextVars,
           sourceVars, FenceStates, TypeOK, KindOutcome, KindChange
  <1>7. ASSUME NEW p \in Threads, SignalRetired(p) PROVE FenceStates'
    BY <1>7, <1>a, <1>b, <1>c, <1>d
       DEF SignalRetired, Goto, kgsl_sync_timeline_signal, contextVars,
           FenceStates, TypeOK, KindOutcome, KindChange
  <1>8. ASSUME NEW p \in Threads, _add_fence_event(p) PROVE FenceStates'
    BY <1>8, <1>a, <1>b, <1>c, <1>d, <1>e
       DEF _add_fence_event, Goto, timelineVars, sourceVars, FenceStates,
           TypeOK, ThreadFences, HoldsFence, MakesTimeline, KindOutcome,
           KindChange
  <1>9. ASSUME NEW p \in Threads, fd_install(p) PROVE FenceStates'
    BY <1>9, <1>a, <1>b, <1>c, <1>d
       DEF fd_install, Goto, timelineVars, contextVars, sourceVars,
           FenceStates, TypeOK, KindOutcome, KindChange
  <1>10. ASSUME NEW p \in Threads, PutContext(p) PROVE FenceStates'
    BY <1>10, <1>a, <1>b, <1>c, <1>d
       DEF PutContext, Goto, Return, fenceVars, sourceVars, FenceStates,
           TypeOK, KindOutcome, KindChange
  <1>11. ASSUME NEW p \in Threads, kgsl_sync_cancel(p) PROVE FenceStates'
    BY <1>11, <1>a, <1>b, <1>c, <1>d
       DEF kgsl_sync_cancel, Goto, contextVars, FenceStates, TypeOK,
           KindOutcome, KindChange
  <1>12. ASSUME NEW p \in Threads, fput(p) PROVE FenceStates'
    BY <1>12, <1>a, <1>b, <1>c, <1>d
       DEF fput, Return, contextVars, Goto, FenceStates, TypeOK,
           KindOutcome, KindChange
  <1>13. ASSUME NEW p \in Threads, ValueStrPuts(p) PROVE FenceStates'
    BY <1>13, <1>a, <1>b, <1>c, <1>d
       DEF ValueStrPuts, Goto, fenceVars, sourceVars, FenceStates, TypeOK,
           KindOutcome, KindChange
  <1>14. ASSUME NEW p \in Threads, kgsl_sync_timeline_put(p) PROVE FenceStates'
    BY <1>14, <1>a, <1>b, <1>c, <1>d
       DEF kgsl_sync_timeline_put, Goto, fenceVars, contextVars, sourceVars,
           FenceStates, TypeOK, KindOutcome, KindChange
  <1>15. ASSUME NEW p \in Threads, Unref(p) PROVE FenceStates'
    BY <1>15, <1>a, <1>b, <1>c, <1>d
       DEF Unref, Return, contextVars, Goto, FenceStates, TypeOK,
           KindOutcome, KindChange
  <1>16. ASSUME NEW p \in Threads, CreateSourceFence(p) PROVE FenceStates'
    BY <1>16, <1>a, <1>b, <1>c, <1>d
       DEF CreateSourceFence, Goto, timelineVars, contextVars, sourceVars,
           FenceStates, TypeOK, KindOutcome, KindChange
  <1>17. ASSUME NEW p \in Threads, SourceFd(p) PROVE FenceStates'
    BY <1>17, <1>a, <1>b, <1>c, <1>d
       DEF SourceFd, Goto, timelineVars, contextVars, sourceVars,
           FenceStates, TypeOK, KindOutcome, KindChange
  <1>18. ASSUME NEW p \in Threads, SourceList(p) PROVE FenceStates'
    BY <1>18, <1>a, <1>b, <1>c, <1>d, <1>e
       DEF SourceList, Goto, fenceVars, timelineVars, contextVars,
           FenceStates, TypeOK, ThreadFences, HoldsFence, MakesTimeline,
           KindOutcome, KindChange
  <1>19. ASSUME NEW p \in Threads, SourceFail(p) PROVE FenceStates'
    BY <1>19, <1>a, <1>b, <1>c, <1>d
       DEF SourceFail, Goto, contextVars, FenceStates, TypeOK, KindOutcome,
           KindChange
  <1>20. ASSUME NEW p \in Threads, SignalSource(p) PROVE FenceStates'
    BY <1>20, <1>a, <1>b, <1>c, <1>d
       DEF SignalSource, Goto, kgsl_syncsource_signal, timelineVars,
           contextVars, FenceStates, TypeOK, KindOutcome, KindChange
  <1>21. ASSUME NEW p \in Threads, SignalPutsFence(p) PROVE FenceStates'
    BY <1>21, <1>a, <1>b, <1>c, <1>d
       DEF SignalPutsFence, Goto, contextVars, FenceStates, TypeOK,
           KindOutcome, KindChange
  <1>22. ASSUME NEW p \in Threads, kgsl_syncsource_put(p) PROVE FenceStates'
    BY <1>22, <1>a, <1>b, <1>c, <1>d
       DEF kgsl_syncsource_put, Return, fenceVars, timelineVars,
           contextVars, Goto, FenceStates, TypeOK, KindOutcome, KindChange
  <1>23. ASSUME NEW f \in Fences, kgsl_sync_fence_event_cb(f) PROVE FenceStates'
    BY <1>23, <1>a, <1>b, <1>c, <1>d
       DEF kgsl_sync_fence_event_cb, kgsl_sync_timeline_signal, contextVars,
           threadVars, FenceStates, TypeOK, KindOutcome, KindChange
  <1>24. ASSUME NEW f \in Fences, _kgsl_event_worker(f) PROVE FenceStates'
    BY <1>24, <1>a, <1>b, <1>c, <1>d
       DEF _kgsl_event_worker, sourceVars, threadVars, FenceStates, TypeOK,
           KindOutcome, KindChange
  <1>25. ASSUME NEW f \in Fences, kgsl_sync_fence_callback(f) PROVE FenceStates'
    BY <1>25, <1>a, <1>b, <1>c, <1>d
       DEF kgsl_sync_fence_callback, WaitEnds, contextVars, threadVars,
           FenceStates, TypeOK, KindOutcome, KindChange
  <1>26. ASSUME NEW f \in Fences, kgsl_syncsource_fence_release(f)
        PROVE  FenceStates'
    BY <1>26, <1>a, <1>b, <1>c, <1>d
       DEF kgsl_syncsource_fence_release, kgsl_syncsource_signal,
           timelineVars, contextVars, threadVars, FenceStates, TypeOK,
           KindOutcome, KindChange
  <1>27. ASSUME NEW f \in Fences, FreeSourceFence(f) PROVE FenceStates'
    BY <1>27, <1>a, <1>b, <1>c, <1>d
       DEF FreeSourceFence, timelineVars, contextVars, threadVars,
           FenceStates, TypeOK, KindOutcome, KindChange
  <1>28. ASSUME NEW f \in Fences, close(f) PROVE FenceStates'
    BY <1>28, <1>a, <1>b, <1>c, <1>d
       DEF close, contextVars, threadVars, FenceStates, TypeOK, KindOutcome,
           KindChange
  <1>29. ASSUME NEW f \in Fences, kgsl_sync_fence_async_wait(f) PROVE FenceStates'
    BY <1>29, <1>a, <1>b, <1>c, <1>d
       DEF kgsl_sync_fence_async_wait, timelineVars, contextVars,
           sourceVars, threadVars, FenceStates, TypeOK, KindOutcome, KindChange
  <1>30. ASSUME NEW f \in Fences, kgsl_sync_fence_async_cancel(f) PROVE FenceStates'
    BY <1>30, <1>a, <1>b, <1>c, <1>d
       DEF kgsl_sync_fence_async_cancel, WaitEnds, contextVars, threadVars,
           FenceStates, TypeOK, KindOutcome, KindChange
  <1>31. CASE kgsl_process_event_groups
    BY <1>31, <1>a, <1>b, <1>c, <1>d
       DEF kgsl_process_event_groups, timelineVars, contextVars, sourceVars,
           threadVars, FenceStates, TypeOK, KindOutcome, KindChange
  <1>32. CASE GpuRetire
    BY <1>32, <1>a, <1>b, <1>c, <1>d
       DEF GpuRetire, fenceVars, timelineVars, sourceVars, threadVars,
           FenceStates, TypeOK, KindOutcome, KindChange
  <1>33. CASE FaultInvalidate
    BY <1>33, <1>a, <1>b, <1>c, <1>d
       DEF FaultInvalidate, adreno_drawctxt_invalidate, SignalEvents, fenceVars,
           timelineVars, sourceVars, threadVars, FenceStates, TypeOK,
           KindOutcome, KindChange
  <1>34. CASE kgsl_context_detach
    BY <1>34, <1>a, <1>b, <1>c, <1>d
       DEF kgsl_context_detach, fenceVars, timelineVars, sourceVars,
           threadVars, FenceStates, TypeOK, KindOutcome, KindChange
  <1>35. CASE gen7_hwsched_context_detach
    BY <1>35, <1>a, <1>b, <1>c, <1>d
       DEF gen7_hwsched_context_detach, adreno_drawctxt_invalidate,
           SignalEvents, fenceVars, timelineVars, sourceVars, threadVars,
           FenceStates, TypeOK, KindOutcome, KindChange
  <1>36. CASE kgsl_cancel_events
    BY <1>36, <1>a, <1>b, <1>c, <1>d
       DEF kgsl_cancel_events, SignalEvents, timelineVars, sourceVars, threadVars,
           FenceStates, TypeOK, KindOutcome, KindChange
  <1>37. CASE kgsl_sync_timeline_detach
    BY <1>37, <1>a, <1>b, <1>c, <1>d
       DEF kgsl_sync_timeline_detach, fenceVars, sourceVars, threadVars,
           FenceStates, TypeOK, KindOutcome, KindChange
  <1>38. CASE DetachPuts
    BY <1>38, <1>a, <1>b, <1>c, <1>d
       DEF DetachPuts, fenceVars, sourceVars, threadVars, FenceStates,
           TypeOK, KindOutcome, KindChange
  <1>39. CASE kgsl_ioctl_syncsource_create
    BY <1>39, <1>a, <1>b, <1>c, <1>d
       DEF kgsl_ioctl_syncsource_create, OneAfterTheOther, fenceVars,
           timelineVars, contextVars, threadVars, FenceStates, TypeOK,
           KindOutcome, KindChange
  <1>40. CASE kgsl_ioctl_syncsource_destroy
    BY <1>40, <1>a, <1>b, <1>c, <1>d
       DEF kgsl_ioctl_syncsource_destroy, fenceVars, timelineVars,
           contextVars, threadVars, FenceStates, TypeOK, KindOutcome, KindChange
  <1>41. CASE kgsl_syncsource_cleanup
    BY <1>41, <1>a, <1>b, <1>c, <1>d
       DEF kgsl_syncsource_cleanup, timelineVars, contextVars, threadVars,
           FenceStates, TypeOK, KindOutcome, KindChange
  <1>42. CASE CleanupPuts
    BY <1>42, <1>a, <1>b, <1>c, <1>d
       DEF CleanupPuts, fenceVars, timelineVars, contextVars, threadVars,
           FenceStates, TypeOK, KindOutcome, KindChange
  <1>43. CASE UNCHANGED vars
    BY <1>43
       DEF vars, fenceVars, timelineVars, contextVars, sourceVars,
           threadVars, FenceStates
  <1>44. CASE Submit
    BY <1>44, <1>a, <1>b, <1>c, <1>d
       DEF Submit, fenceVars, timelineVars, sourceVars, threadVars,
           FenceStates, TypeOK, KindOutcome, KindChange
  <1>45. ASSUME NEW f \in Fences, Poll(f) PROVE FenceStates'
    BY <1>45, <1>a, <1>b, <1>c, <1>d
       DEF Poll, timelineVars, contextVars,
           sourceVars, threadVars, FenceStates, TypeOK, KindOutcome, KindChange
  <1>46. QED
    BY <1>1, <1>2, <1>3, <1>4, <1>5, <1>6, <1>7, <1>8, <1>9, <1>10, <1>11,
       <1>12, <1>13, <1>14, <1>15, <1>16, <1>17, <1>18, <1>19, <1>20, <1>21, <1>22,
       <1>23, <1>24, <1>25, <1>26, <1>27, <1>28, <1>29, <1>30, <1>31, <1>32, <1>33,
       <1>34, <1>35, <1>36, <1>37, <1>38, <1>39, <1>40, <1>41, <1>42, <1>43, <1>44,
       <1>45
       DEF Next, Call, ThreadStep, FenceStep, UserStep, DetachStep,
           CleanupStep


\* Whoever holds the context is counted.
LEMMA ContextHeld ==
    ASSUME TypeOK, ContextCount
    PROVE  /\ \A p \in Threads : pc[p] \in HoldsContext \/ ctx[p] => cref > 0
           /\ \A f \in Fences : event[f] # "none" => cref > 1
           /\ dpc # "put" => cref > 1
  <1>1. ASSUME NEW p \in Threads, pc[p] \in HoldsContext
        PROVE  Cardinality(ContextThreads) > 0
    <2>1. p \in ContextThreads /\ IsFiniteSet(ContextThreads)
      BY <1>1, Finite DEF ContextThreads, At
    <2>2. QED
      BY <2>1, OneLess
  <1>2. ASSUME NEW p \in Threads, ctx[p]
        PROVE  Cardinality(StrThreads) > 0
    <2>1. p \in StrThreads /\ IsFiniteSet(StrThreads)
      BY <1>2, Finite DEF StrThreads
    <2>2. QED
      BY <2>1, OneLess
  <1>3. ASSUME NEW f \in Fences, event[f] # "none"
        PROVE  Cardinality(EventFences) > 0
    <2>1. f \in EventFences /\ IsFiniteSet(EventFences)
      BY <1>3, Finite DEF EventFences
    <2>2. QED
      BY <2>1, OneLess
  <1>4. QED
    BY <1>1, <1>2, <1>3, Naturals DEF ContextCount


\* The references of the context are counted.
LEMMA ContextCountStep ==
    ASSUME TypeOK, ThreadFences, ContextCount, [Next]_vars
    PROVE  ContextCount'
  <1>1. ASSUME NEW p \in Threads, kgsl_context_get_owner(p) PROVE ContextCount'
    <2>1. Cardinality(ContextThreads') = Cardinality(ContextThreads) + 1
      <3>1. PICK l \in PCs : /\ pc' = [pc EXCEPT ![p] = l]
                             /\ l \in HoldsContext
        BY <1>1
           DEF kgsl_context_get_owner, Goto, HoldsContext, PCs
      <3>2. pc[p] \notin HoldsContext
        BY <1>1 DEF kgsl_context_get_owner, HoldsContext
      <3>3. Cardinality(ContextThreads') = Cardinality(ContextThreads)
              + One(l \in HoldsContext) - One(pc[p] \in HoldsContext)
        BY <3>1, ContextMove
      <3>4. QED
        BY <3>1, <3>2, <3>3, Naturals DEF One
    <2>2. StrThreads' = StrThreads /\ EventFences' = EventFences
      BY <1>1
         DEF kgsl_context_get_owner, fenceVars, timelineVars, sourceVars,
             StrThreads, EventFences
    <2>3. QED
      BY <1>1, <2>1, <2>2, Naturals
         DEF kgsl_context_get_owner, Goto, fenceVars, timelineVars,
             sourceVars, ContextCount, TypeOK
  <1>2. ASSUME NEW p \in Threads, kgsl_syncsource_get(p) PROVE ContextCount'
    <2>1. /\ ContextThreads' = ContextThreads /\ StrThreads' = StrThreads
          /\ EventFences' = EventFences
      BY <1>2
         DEF kgsl_syncsource_get, Goto, fenceVars, timelineVars,
             contextVars, ContextThreads, StrThreads, EventFences, At,
             HoldsContext, TypeOK
    <2>2. QED
      BY <1>2, <2>1, Naturals
         DEF kgsl_syncsource_get, Goto, fenceVars, timelineVars,
             contextVars, ContextCount, TypeOK
  <1>3. ASSUME NEW p \in Threads, NEW f \in Fences, kgsl_sync_timeline_value_str(p, f)
        PROVE  ContextCount'
    <2>1. ContextThreads' = ContextThreads /\ EventFences' = EventFences
      BY <1>3 DEF kgsl_sync_timeline_value_str, Goto, ContextThreads, EventFences, At,
                    HoldsContext, TypeOK
    <2>2. Cardinality(StrThreads') = Cardinality(StrThreads) + One(ctx'[p])
      <3>1. p \notin StrThreads
        BY <1>3 DEF kgsl_sync_timeline_value_str, StrThreads, ThreadFences
      <3>2. CASE ctx'[p]
        <4>1. StrThreads' = StrThreads \cup {p}
          BY <1>3, <3>2 DEF kgsl_sync_timeline_value_str, StrThreads, TypeOK
        <4>2. QED
          BY <3>1, <3>2, <4>1, Finite, OneMore DEF StrThreads, One
      <3>3. CASE ~ctx'[p]
        <4>1. StrThreads' = StrThreads
          BY <1>3, <3>1, <3>3 DEF kgsl_sync_timeline_value_str, StrThreads, TypeOK
        <4>2. QED
          BY <3>3, <4>1, Naturals DEF One
      <3>4. QED
        BY <3>2, <3>3
    <2>3. cref' = cref + One(ctx'[p])
      BY <1>3 DEF kgsl_sync_timeline_value_str, One, TypeOK
    <2>4. QED
      BY <1>3, <2>1, <2>2, <2>3, Naturals
         DEF kgsl_sync_timeline_value_str, ContextCount, TypeOK, One
  <1>4. ASSUME NEW p \in Threads, NEW f \in Fences, kgsl_ioctl_syncsource_signal_fence(p, f)
        PROVE  ContextCount'
    <2>1. /\ ContextThreads' = ContextThreads /\ StrThreads' = StrThreads
          /\ EventFences' = EventFences
      BY <1>4
         DEF kgsl_ioctl_syncsource_signal_fence, Goto, timelineVars,
             contextVars, ContextThreads, StrThreads, EventFences, At,
             HoldsContext, TypeOK
    <2>2. QED
      BY <1>4, <2>1, Naturals
         DEF kgsl_ioctl_syncsource_signal_fence, Goto, timelineVars,
             contextVars, ContextCount, TypeOK
  <1>5. ASSUME NEW p \in Threads, kgsl_sync_fence_create(p) PROVE ContextCount'
    <2>1. /\ ContextThreads' = ContextThreads /\ StrThreads' = StrThreads
          /\ EventFences' = EventFences
      BY <1>5
         DEF kgsl_sync_fence_create, Goto, contextVars, sourceVars,
             ContextThreads, StrThreads, EventFences, At, HoldsContext, TypeOK
    <2>2. QED
      BY <1>5, <2>1, Naturals
         DEF kgsl_sync_fence_create, Goto, contextVars, sourceVars,
             ContextCount, TypeOK
  <1>6. ASSUME NEW p \in Threads, kgsl_readtimestamp(p) PROVE ContextCount'
    <2>1. /\ ContextThreads' = ContextThreads /\ StrThreads' = StrThreads
          /\ EventFences' = EventFences
      BY <1>6
         DEF kgsl_readtimestamp, Goto, fenceVars, timelineVars, contextVars,
             sourceVars, ContextThreads, StrThreads, EventFences, At,
             HoldsContext, TypeOK
    <2>2. QED
      BY <1>6, <2>1, Naturals
         DEF kgsl_readtimestamp, Goto, fenceVars, timelineVars, contextVars,
             sourceVars, ContextCount, TypeOK
  <1>7. ASSUME NEW p \in Threads, SignalRetired(p) PROVE ContextCount'
    <2>1. /\ ContextThreads' = ContextThreads /\ StrThreads' = StrThreads
          /\ EventFences' = EventFences
      BY <1>7
         DEF SignalRetired, Goto, contextVars, ContextThreads, StrThreads,
             EventFences, At, HoldsContext, TypeOK
    <2>2. QED
      BY <1>7, <2>1, Naturals
         DEF SignalRetired, Goto, contextVars, ContextCount, TypeOK
  <1>8. ASSUME NEW p \in Threads, _add_fence_event(p) PROVE ContextCount'
    <2>1. ContextThreads' = ContextThreads /\ StrThreads' = StrThreads
      BY <1>8 DEF _add_fence_event, Goto, ContextThreads, StrThreads, At, HoldsContext, TypeOK
    <2>2. CASE event' = event /\ cref' = cref
      <3>1. EventFences' = EventFences
        BY <2>2 DEF EventFences
      <3>2. QED
        BY <1>8, <2>1, <2>2, <3>1 DEF _add_fence_event, timelineVars, ContextCount
    <2>3. ASSUME NEW l \in {"retired", "listed"}, event' = [event EXCEPT ![fen[p]] = l],
                 cref' = cref + 2
          PROVE  ContextCount'
      <3>1. fen[p] \in Fences /\ event[fen[p]] = "none"
        BY <1>8 DEF _add_fence_event, ThreadFences, Makes
      <3>2. EventFences' = EventFences \cup {fen[p]} /\ fen[p] \notin EventFences
        BY <2>3, <3>1 DEF EventFences, TypeOK
      <3>3. Cardinality(EventFences') = Cardinality(EventFences) + 1
        BY <3>2, Finite, OneMore DEF EventFences
      <3>4. QED
        BY <1>8, <2>1, <2>3, <3>3, Naturals
           DEF _add_fence_event, timelineVars, ContextCount, TypeOK
    <2>4. QED
      BY <1>8, <2>2, <2>3 DEF _add_fence_event
  <1>9. ASSUME NEW p \in Threads, fd_install(p) PROVE ContextCount'
    <2>1. /\ ContextThreads' = ContextThreads /\ StrThreads' = StrThreads
          /\ EventFences' = EventFences
      BY <1>9
         DEF fd_install, Goto, timelineVars, contextVars, sourceVars,
             ContextThreads, StrThreads, EventFences, At, HoldsContext, TypeOK
    <2>2. QED
      BY <1>9, <2>1, Naturals
         DEF fd_install, Goto, timelineVars, contextVars, sourceVars,
             ContextCount, TypeOK
  <1>10. ASSUME NEW p \in Threads, PutContext(p) PROVE ContextCount'
    <2>1. Cardinality(ContextThreads') = Cardinality(ContextThreads) - 1
      <3>1. PICK l \in PCs : /\ pc' = [pc EXCEPT ![p] = l]
                             /\ l \in PCs \ HoldsContext
        BY <1>10
           DEF PutContext, Goto, Return, HoldsContext, PCs
      <3>2. pc[p] \in HoldsContext
        BY <1>10 DEF PutContext, HoldsContext
      <3>3. Cardinality(ContextThreads') = Cardinality(ContextThreads)
              + One(l \in HoldsContext) - One(pc[p] \in HoldsContext)
        BY <3>1, ContextMove
      <3>4. QED
        BY <3>1, <3>2, <3>3, Naturals DEF One
    <2>2. StrThreads' = StrThreads /\ EventFences' = EventFences
      BY <1>10
         DEF PutContext, fenceVars, sourceVars, StrThreads, EventFences
    <2>3. QED
      BY <1>10, <2>1, <2>2, Naturals
         DEF PutContext, kgsl_context_put, Goto, Return, fenceVars,
             sourceVars, ContextCount, TypeOK
  <1>11. ASSUME NEW p \in Threads, kgsl_sync_cancel(p) PROVE ContextCount'
    <2>1. /\ ContextThreads' = ContextThreads /\ StrThreads' = StrThreads
          /\ EventFences' = EventFences
      BY <1>11
         DEF kgsl_sync_cancel, Goto, contextVars, ContextThreads,
             StrThreads, EventFences, At, HoldsContext, TypeOK
    <2>2. QED
      BY <1>11, <2>1, Naturals
         DEF kgsl_sync_cancel, Goto, contextVars, ContextCount, TypeOK
  <1>12. ASSUME NEW p \in Threads, fput(p) PROVE ContextCount'
    <2>1. /\ ContextThreads' = ContextThreads /\ StrThreads' = StrThreads
          /\ EventFences' = EventFences
      BY <1>12
         DEF fput, Return, contextVars, Goto, ContextThreads, StrThreads,
             EventFences, At, HoldsContext, TypeOK
    <2>2. QED
      BY <1>12, <2>1, Naturals
         DEF fput, Return, contextVars, Goto, ContextCount, TypeOK
  <1>13. ASSUME NEW p \in Threads, ValueStrPuts(p) PROVE ContextCount'
    <2>1. ContextThreads' = ContextThreads /\ EventFences' = EventFences
      BY <1>13 DEF ValueStrPuts, Goto, fenceVars, ContextThreads, EventFences, At,
                    HoldsContext, TypeOK
    <2>2. Cardinality(StrThreads') = Cardinality(StrThreads) - One(ctx[p])
      <3>1. StrThreads' = StrThreads \ {p}
        BY <1>13 DEF ValueStrPuts, StrThreads, TypeOK
      <3>2. p \in StrThreads <=> ctx[p]
        BY DEF StrThreads
      <3>3. CASE ctx[p]
        BY <3>1, <3>2, <3>3, Finite, OneLess DEF StrThreads, One
      <3>4. CASE ~ctx[p]
        <4>1. StrThreads' = StrThreads
          BY <3>1, <3>2, <3>4
        <4>2. QED
          BY <3>4, <4>1, Naturals DEF One
      <3>5. QED
        BY <3>3, <3>4
    <2>3. cref' = cref - One(ctx[p])
      BY <1>13 DEF ValueStrPuts, kgsl_context_put, One, TypeOK
    <2>4. QED
      BY <1>13, <2>1, <2>2, <2>3, Naturals DEF ValueStrPuts, ContextCount, TypeOK, One
  <1>14. ASSUME NEW p \in Threads, kgsl_sync_timeline_put(p) PROVE ContextCount'
    <2>1. /\ ContextThreads' = ContextThreads /\ StrThreads' = StrThreads
          /\ EventFences' = EventFences
      BY <1>14
         DEF kgsl_sync_timeline_put, Goto, fenceVars, contextVars,
             sourceVars, ContextThreads, StrThreads, EventFences, At,
             HoldsContext, TypeOK
    <2>2. QED
      BY <1>14, <2>1, Naturals
         DEF kgsl_sync_timeline_put, Goto, fenceVars, contextVars,
             sourceVars, ContextCount, TypeOK
  <1>15. ASSUME NEW p \in Threads, Unref(p) PROVE ContextCount'
    <2>1. /\ ContextThreads' = ContextThreads /\ StrThreads' = StrThreads
          /\ EventFences' = EventFences
      BY <1>15
         DEF Unref, Return, contextVars, Goto, ContextThreads, StrThreads,
             EventFences, At, HoldsContext, TypeOK
    <2>2. QED
      BY <1>15, <2>1, Naturals
         DEF Unref, Return, contextVars, Goto, ContextCount, TypeOK
  <1>16. ASSUME NEW p \in Threads, CreateSourceFence(p) PROVE ContextCount'
    <2>1. /\ ContextThreads' = ContextThreads /\ StrThreads' = StrThreads
          /\ EventFences' = EventFences
      BY <1>16
         DEF CreateSourceFence, Goto, timelineVars, contextVars, sourceVars,
             ContextThreads, StrThreads, EventFences, At, HoldsContext, TypeOK
    <2>2. QED
      BY <1>16, <2>1, Naturals
         DEF CreateSourceFence, Goto, timelineVars, contextVars, sourceVars,
             ContextCount, TypeOK
  <1>17. ASSUME NEW p \in Threads, SourceFd(p) PROVE ContextCount'
    <2>1. /\ ContextThreads' = ContextThreads /\ StrThreads' = StrThreads
          /\ EventFences' = EventFences
      BY <1>17
         DEF SourceFd, Goto, timelineVars, contextVars, sourceVars,
             ContextThreads, StrThreads, EventFences, At, HoldsContext, TypeOK
    <2>2. QED
      BY <1>17, <2>1, Naturals
         DEF SourceFd, Goto, timelineVars, contextVars, sourceVars,
             ContextCount, TypeOK
  <1>18. ASSUME NEW p \in Threads, SourceList(p) PROVE ContextCount'
    <2>1. /\ ContextThreads' = ContextThreads /\ StrThreads' = StrThreads
          /\ EventFences' = EventFences
      BY <1>18
         DEF SourceList, Goto, fenceVars, timelineVars, contextVars,
             ContextThreads, StrThreads, EventFences, At, HoldsContext, TypeOK
    <2>2. QED
      BY <1>18, <2>1, Naturals
         DEF SourceList, Goto, fenceVars, timelineVars, contextVars,
             ContextCount, TypeOK
  <1>19. ASSUME NEW p \in Threads, SourceFail(p) PROVE ContextCount'
    <2>1. /\ ContextThreads' = ContextThreads /\ StrThreads' = StrThreads
          /\ EventFences' = EventFences
      BY <1>19
         DEF SourceFail, Goto, contextVars, ContextThreads, StrThreads,
             EventFences, At, HoldsContext, TypeOK
    <2>2. QED
      BY <1>19, <2>1, Naturals
         DEF SourceFail, Goto, contextVars, ContextCount, TypeOK
  <1>20. ASSUME NEW p \in Threads, SignalSource(p) PROVE ContextCount'
    <2>1. /\ ContextThreads' = ContextThreads /\ StrThreads' = StrThreads
          /\ EventFences' = EventFences
      BY <1>20
         DEF SignalSource, Goto, timelineVars, contextVars, ContextThreads,
             StrThreads, EventFences, At, HoldsContext, TypeOK
    <2>2. QED
      BY <1>20, <2>1, Naturals
         DEF SignalSource, Goto, kgsl_syncsource_signal, timelineVars,
             contextVars, ContextCount, TypeOK
  <1>21. ASSUME NEW p \in Threads, SignalPutsFence(p) PROVE ContextCount'
    <2>1. /\ ContextThreads' = ContextThreads /\ StrThreads' = StrThreads
          /\ EventFences' = EventFences
      BY <1>21
         DEF SignalPutsFence, Goto, contextVars, ContextThreads, StrThreads,
             EventFences, At, HoldsContext, TypeOK
    <2>2. QED
      BY <1>21, <2>1, Naturals
         DEF SignalPutsFence, Goto, contextVars, ContextCount, TypeOK
  <1>22. ASSUME NEW p \in Threads, kgsl_syncsource_put(p) PROVE ContextCount'
    <2>1. /\ ContextThreads' = ContextThreads /\ StrThreads' = StrThreads
          /\ EventFences' = EventFences
      BY <1>22
         DEF kgsl_syncsource_put, Return, fenceVars, timelineVars,
             contextVars, Goto, ContextThreads, StrThreads, EventFences, At,
             HoldsContext, TypeOK
    <2>2. QED
      BY <1>22, <2>1, Naturals
         DEF kgsl_syncsource_put, Return, fenceVars, timelineVars,
             contextVars, Goto, ContextCount, TypeOK
  <1>23. ASSUME NEW f \in Fences, kgsl_sync_fence_event_cb(f) PROVE ContextCount'
    <2>1. /\ ContextThreads' = ContextThreads /\ StrThreads' = StrThreads
          /\ EventFences' = EventFences
      BY <1>23
         DEF kgsl_sync_fence_event_cb, contextVars, threadVars,
             ContextThreads, StrThreads, EventFences, At, HoldsContext, TypeOK
    <2>2. QED
      BY <1>23, <2>1, Naturals
         DEF kgsl_sync_fence_event_cb, contextVars, threadVars,
             ContextCount, TypeOK
  <1>24. ASSUME NEW f \in Fences, _kgsl_event_worker(f) PROVE ContextCount'
    <2>1. ContextThreads' = ContextThreads /\ StrThreads' = StrThreads
      BY <1>24 DEF _kgsl_event_worker, threadVars, ContextThreads, StrThreads, At
    <2>2. EventFences' = EventFences \ {f} /\ f \in EventFences
      BY <1>24 DEF _kgsl_event_worker, EventFences, TypeOK
    <2>3. Cardinality(EventFences') = Cardinality(EventFences) - 1
      BY <2>2, Finite, OneLess DEF EventFences
    <2>4. QED
      BY <1>24, <2>1, <2>3, Naturals
         DEF _kgsl_event_worker, kgsl_context_put, ContextCount, TypeOK
  <1>25. ASSUME NEW f \in Fences, kgsl_sync_fence_callback(f) PROVE ContextCount'
    <2>1. /\ ContextThreads' = ContextThreads /\ StrThreads' = StrThreads
          /\ EventFences' = EventFences
      BY <1>25
         DEF kgsl_sync_fence_callback, WaitEnds, contextVars, threadVars,
             ContextThreads, StrThreads, EventFences, At, HoldsContext, TypeOK
    <2>2. QED
      BY <1>25, <2>1, Naturals
         DEF kgsl_sync_fence_callback, WaitEnds, contextVars, threadVars,
             ContextCount, TypeOK
  <1>26. ASSUME NEW f \in Fences, kgsl_syncsource_fence_release(f)
        PROVE  ContextCount'
    <2>1. /\ ContextThreads' = ContextThreads /\ StrThreads' = StrThreads
          /\ EventFences' = EventFences
      BY <1>26
         DEF kgsl_syncsource_fence_release, timelineVars, contextVars,
             threadVars, ContextThreads, StrThreads, EventFences, At,
             HoldsContext, TypeOK
    <2>2. QED
      BY <1>26, <2>1, Naturals
         DEF kgsl_syncsource_fence_release, kgsl_syncsource_signal,
             timelineVars, contextVars, threadVars, ContextCount, TypeOK
  <1>27. ASSUME NEW f \in Fences, FreeSourceFence(f) PROVE ContextCount'
    <2>1. /\ ContextThreads' = ContextThreads /\ StrThreads' = StrThreads
          /\ EventFences' = EventFences
      BY <1>27
         DEF FreeSourceFence, timelineVars, contextVars, threadVars,
             ContextThreads, StrThreads, EventFences, At, HoldsContext, TypeOK
    <2>2. QED
      BY <1>27, <2>1, Naturals
         DEF FreeSourceFence, timelineVars, contextVars, threadVars,
             ContextCount, TypeOK
  <1>28. ASSUME NEW f \in Fences, close(f) PROVE ContextCount'
    <2>1. /\ ContextThreads' = ContextThreads /\ StrThreads' = StrThreads
          /\ EventFences' = EventFences
      BY <1>28
         DEF close, contextVars, threadVars, ContextThreads, StrThreads,
             EventFences, At, HoldsContext, TypeOK
    <2>2. QED
      BY <1>28, <2>1, Naturals
         DEF close, contextVars, threadVars, ContextCount, TypeOK
  <1>29. ASSUME NEW f \in Fences, kgsl_sync_fence_async_wait(f) PROVE ContextCount'
    <2>1. /\ ContextThreads' = ContextThreads /\ StrThreads' = StrThreads
          /\ EventFences' = EventFences
      BY <1>29
         DEF kgsl_sync_fence_async_wait, timelineVars, contextVars,
             sourceVars, threadVars, ContextThreads, StrThreads, EventFences,
             At, HoldsContext, TypeOK
    <2>2. QED
      BY <1>29, <2>1, Naturals
         DEF kgsl_sync_fence_async_wait, timelineVars, contextVars,
             sourceVars, threadVars, ContextCount, TypeOK
  <1>30. ASSUME NEW f \in Fences, kgsl_sync_fence_async_cancel(f)
        PROVE  ContextCount'
    <2>1. /\ ContextThreads' = ContextThreads /\ StrThreads' = StrThreads
          /\ EventFences' = EventFences
      BY <1>30
         DEF kgsl_sync_fence_async_cancel, WaitEnds, contextVars,
             threadVars, ContextThreads, StrThreads, EventFences, At,
             HoldsContext, TypeOK
    <2>2. QED
      BY <1>30, <2>1, Naturals
         DEF kgsl_sync_fence_async_cancel, WaitEnds, contextVars,
             threadVars, ContextCount, TypeOK
  <1>31. CASE kgsl_process_event_groups
    <2>1. /\ ContextThreads' = ContextThreads /\ StrThreads' = StrThreads
          /\ EventFences' = EventFences
      BY <1>31
         DEF kgsl_process_event_groups, timelineVars, contextVars,
             sourceVars, threadVars, ContextThreads, StrThreads, EventFences,
             At, HoldsContext, TypeOK
    <2>2. QED
      BY <1>31, <2>1, Naturals
         DEF kgsl_process_event_groups, timelineVars, contextVars,
             sourceVars, threadVars, ContextCount, TypeOK
  <1>32. CASE GpuRetire
    <2>1. /\ ContextThreads' = ContextThreads /\ StrThreads' = StrThreads
          /\ EventFences' = EventFences
      BY <1>32
         DEF GpuRetire, fenceVars, timelineVars, sourceVars, threadVars,
             ContextThreads, StrThreads, EventFences, At, HoldsContext, TypeOK
    <2>2. QED
      BY <1>32, <2>1, Naturals
         DEF GpuRetire, fenceVars, timelineVars, sourceVars, threadVars,
             ContextCount, TypeOK
  <1>33. CASE FaultInvalidate
    <2>1. /\ ContextThreads' = ContextThreads /\ StrThreads' = StrThreads
          /\ EventFences' = EventFences
      BY <1>33
         DEF FaultInvalidate, adreno_drawctxt_invalidate, SignalEvents,
             fenceVars, timelineVars, sourceVars, threadVars, ContextThreads,
             StrThreads, EventFences, At, HoldsContext, TypeOK
    <2>2. QED
      BY <1>33, <2>1, Naturals
         DEF FaultInvalidate, adreno_drawctxt_invalidate, SignalEvents,
             fenceVars, timelineVars, sourceVars, threadVars, ContextCount,
             TypeOK
  <1>34. CASE kgsl_context_detach
    <2>1. /\ ContextThreads' = ContextThreads /\ StrThreads' = StrThreads
          /\ EventFences' = EventFences
      BY <1>34
         DEF kgsl_context_detach, fenceVars, timelineVars, sourceVars,
             threadVars, ContextThreads, StrThreads, EventFences, At,
             HoldsContext, TypeOK
    <2>2. QED
      BY <1>34, <2>1, Naturals
         DEF kgsl_context_detach, fenceVars, timelineVars, sourceVars,
             threadVars, ContextCount, TypeOK
  <1>35. CASE gen7_hwsched_context_detach
    <2>1. /\ ContextThreads' = ContextThreads /\ StrThreads' = StrThreads
          /\ EventFences' = EventFences
      BY <1>35
         DEF gen7_hwsched_context_detach, adreno_drawctxt_invalidate,
             SignalEvents, fenceVars, timelineVars, sourceVars, threadVars,
             ContextThreads, StrThreads, EventFences, At, HoldsContext, TypeOK
    <2>2. QED
      BY <1>35, <2>1, Naturals
         DEF gen7_hwsched_context_detach, adreno_drawctxt_invalidate,
             SignalEvents, fenceVars, timelineVars, sourceVars, threadVars,
             ContextCount, TypeOK
  <1>36. CASE kgsl_cancel_events
    <2>1. /\ ContextThreads' = ContextThreads /\ StrThreads' = StrThreads
          /\ EventFences' = EventFences
      BY <1>36
         DEF kgsl_cancel_events, SignalEvents, timelineVars, sourceVars,
             threadVars, ContextThreads, StrThreads, EventFences, At,
             HoldsContext, TypeOK
    <2>2. QED
      BY <1>36, <2>1, Naturals
         DEF kgsl_cancel_events, SignalEvents, timelineVars, sourceVars,
             threadVars, ContextCount, TypeOK
  <1>37. CASE kgsl_sync_timeline_detach
    <2>1. /\ ContextThreads' = ContextThreads /\ StrThreads' = StrThreads
          /\ EventFences' = EventFences
      BY <1>37
         DEF kgsl_sync_timeline_detach, fenceVars, sourceVars, threadVars,
             ContextThreads, StrThreads, EventFences, At, HoldsContext, TypeOK
    <2>2. QED
      BY <1>37, <2>1, Naturals
         DEF kgsl_sync_timeline_detach, fenceVars, sourceVars, threadVars,
             ContextCount, TypeOK
  <1>38. CASE DetachPuts
    <2>1. /\ ContextThreads' = ContextThreads /\ StrThreads' = StrThreads
          /\ EventFences' = EventFences
      BY <1>38
         DEF DetachPuts, fenceVars, sourceVars, threadVars, ContextThreads,
             StrThreads, EventFences, At, HoldsContext, TypeOK
    <2>2. QED
      BY <1>38, <2>1, Naturals
         DEF DetachPuts, kgsl_context_put, fenceVars, sourceVars,
             threadVars, ContextCount, TypeOK
  <1>39. CASE kgsl_ioctl_syncsource_create
    <2>1. /\ ContextThreads' = ContextThreads /\ StrThreads' = StrThreads
          /\ EventFences' = EventFences
      BY <1>39
         DEF kgsl_ioctl_syncsource_create, fenceVars, timelineVars,
             contextVars, threadVars, ContextThreads, StrThreads, EventFences,
             At, HoldsContext, TypeOK
    <2>2. QED
      BY <1>39, <2>1, Naturals
         DEF kgsl_ioctl_syncsource_create, OneAfterTheOther, fenceVars,
             timelineVars, contextVars, threadVars, ContextCount, TypeOK
  <1>40. CASE kgsl_ioctl_syncsource_destroy
    <2>1. /\ ContextThreads' = ContextThreads /\ StrThreads' = StrThreads
          /\ EventFences' = EventFences
      BY <1>40
         DEF kgsl_ioctl_syncsource_destroy, fenceVars, timelineVars,
             contextVars, threadVars, ContextThreads, StrThreads, EventFences,
             At, HoldsContext, TypeOK
    <2>2. QED
      BY <1>40, <2>1, Naturals
         DEF kgsl_ioctl_syncsource_destroy, fenceVars, timelineVars,
             contextVars, threadVars, ContextCount, TypeOK
  <1>41. CASE kgsl_syncsource_cleanup
    <2>1. /\ ContextThreads' = ContextThreads /\ StrThreads' = StrThreads
          /\ EventFences' = EventFences
      BY <1>41
         DEF kgsl_syncsource_cleanup, timelineVars, contextVars, threadVars,
             ContextThreads, StrThreads, EventFences, At, HoldsContext, TypeOK
    <2>2. QED
      BY <1>41, <2>1, Naturals
         DEF kgsl_syncsource_cleanup, timelineVars, contextVars, threadVars,
             ContextCount, TypeOK
  <1>42. CASE CleanupPuts
    <2>1. /\ ContextThreads' = ContextThreads /\ StrThreads' = StrThreads
          /\ EventFences' = EventFences
      BY <1>42
         DEF CleanupPuts, fenceVars, timelineVars, contextVars, threadVars,
             ContextThreads, StrThreads, EventFences, At, HoldsContext, TypeOK
    <2>2. QED
      BY <1>42, <2>1, Naturals
         DEF CleanupPuts, fenceVars, timelineVars, contextVars, threadVars,
             ContextCount, TypeOK
  <1>43. CASE UNCHANGED vars
    BY <1>43
       DEF vars, fenceVars, timelineVars, contextVars, sourceVars,
           threadVars, ContextCount, ContextThreads, StrThreads, EventFences, At
  <1>44. CASE Submit
    <2>1. /\ ContextThreads' = ContextThreads /\ StrThreads' = StrThreads
          /\ EventFences' = EventFences
      BY <1>44
         DEF Submit, fenceVars, timelineVars, sourceVars, threadVars,
             ContextThreads, StrThreads, EventFences, At, HoldsContext, TypeOK
    <2>2. QED
      BY <1>44, <2>1, Naturals
         DEF Submit, fenceVars, timelineVars, sourceVars, threadVars,
             ContextCount, TypeOK
  <1>45. ASSUME NEW f \in Fences, Poll(f) PROVE ContextCount'
    <2>1. /\ ContextThreads' = ContextThreads /\ StrThreads' = StrThreads
          /\ EventFences' = EventFences
      BY <1>45
         DEF Poll, timelineVars, contextVars,
             sourceVars, threadVars, ContextThreads, StrThreads, EventFences,
             At, HoldsContext, TypeOK
    <2>2. QED
      BY <1>45, <2>1, Naturals
         DEF Poll, timelineVars, contextVars,
             sourceVars, threadVars, ContextCount, TypeOK
  <1>46. QED
    BY <1>1, <1>2, <1>3, <1>4, <1>5, <1>6, <1>7, <1>8, <1>9, <1>10, <1>11,
       <1>12, <1>13, <1>14, <1>15, <1>16, <1>17, <1>18, <1>19, <1>20, <1>21, <1>22,
       <1>23, <1>24, <1>25, <1>26, <1>27, <1>28, <1>29, <1>30, <1>31, <1>32, <1>33,
       <1>34, <1>35, <1>36, <1>37, <1>38, <1>39, <1>40, <1>41, <1>42, <1>43, <1>44,
       <1>45
       DEF Next, Call, ThreadStep, FenceStep, UserStep, DetachStep,
           CleanupStep


\* Whoever holds the syncsource is counted.
LEMMA SourceHeld ==
    ASSUME TypeOK, SourceCount
    PROVE  /\ \A p \in Threads : pc[p] \in HoldsSource => sref > 0
           /\ \A f \in Fences : kind[f] = "dying" => sref > 0
  <1>1. ASSUME NEW p \in Threads, pc[p] \in HoldsSource
        PROVE  Cardinality(SourceThreads) > 0
    <2>1. p \in SourceThreads /\ IsFiniteSet(SourceThreads)
      BY <1>1, Finite DEF SourceThreads, At
    <2>2. QED
      BY <2>1, OneLess
  <1>2. ASSUME NEW f \in Fences, kind[f] = "dying"
        PROVE  Cardinality(SourceFences) > 0
    <2>1. f \in SourceFences /\ IsFiniteSet(SourceFences)
      BY <1>2, Finite DEF SourceFences
    <2>2. QED
      BY <2>1, OneLess
  <1>3. QED
    BY <1>1, <1>2, Naturals DEF SourceCount, One


\* The references of the sync timeline are counted.
LEMMA TimelineCountStep ==
    ASSUME TypeOK, ThreadFences, FenceStates, ZeroIsDead, FenceCount,
           ContextCount, TimelineCount, [Next]_vars
    PROVE  TimelineCount'
  <1>1. ASSUME NEW p \in Threads, kgsl_context_get_owner(p) PROVE TimelineCount'
    <2>1. TimelineFences' = TimelineFences /\ DumpThreads' = DumpThreads
      BY <1>1
         DEF kgsl_context_get_owner, Goto, fenceVars, timelineVars,
             sourceVars, TimelineFences, DumpThreads, DumpPCs, At, TypeOK
    <2>2. QED
      BY <1>1, <2>1, Naturals, ContextHeld
         DEF kgsl_context_get_owner, Goto, fenceVars, timelineVars,
             sourceVars, TimelineCount, TypeOK, One, HoldsContext
  <1>2. ASSUME NEW p \in Threads, kgsl_syncsource_get(p) PROVE TimelineCount'
    <2>1. TimelineFences' = TimelineFences /\ DumpThreads' = DumpThreads
      BY <1>2
         DEF kgsl_syncsource_get, Goto, fenceVars, timelineVars,
             contextVars, TimelineFences, DumpThreads, DumpPCs, At, TypeOK
    <2>2. QED
      BY <1>2, <2>1, Naturals
         DEF kgsl_syncsource_get, Goto, fenceVars, timelineVars,
             contextVars, TimelineCount, TypeOK, One, HoldsContext
  <1>3. ASSUME NEW p \in Threads, NEW f \in Fences, kgsl_sync_timeline_value_str(p, f)
        PROVE  TimelineCount'
    <2>1. Cardinality(DumpThreads') = Cardinality(DumpThreads) + 1
      <3>1. /\ pc' = [pc EXCEPT ![p] = "str"] /\ "str" \in PCs
            /\ One("str" \in DumpPCs) = 1
            /\ One(pc[p] \in DumpPCs) = 0
        BY <1>3 DEF kgsl_sync_timeline_value_str, Goto, PCs, DumpPCs, One
      <3>2. Cardinality(DumpThreads') = Cardinality(DumpThreads)
              + One("str" \in DumpPCs) - One(pc[p] \in DumpPCs)
        BY <3>1, DumpMove
      <3>3. QED
        BY <3>1, <3>2, Naturals
    <2>2. TimelineFences' = TimelineFences
      BY <1>3
         DEF kgsl_sync_timeline_value_str, TimelineFences
    <2>3. (cref' > 0 <=> cref > 0) /\ tref' = tref + 1
      <3>1. cref' = cref + One(ctx'[p])
        BY <1>3 DEF kgsl_sync_timeline_value_str, One, TypeOK
      <3>2. ctx'[p] => cref > 0
        BY <1>3 DEF kgsl_sync_timeline_value_str, TypeOK
      <3>3. QED
        BY <1>3, <3>1, <3>2 DEF kgsl_sync_timeline_value_str, One, TypeOK
    <2>4. QED
      BY <2>1, <2>2, <2>3, Naturals DEF TimelineCount, TypeOK, One
  <1>4. ASSUME NEW p \in Threads, NEW f \in Fences, kgsl_ioctl_syncsource_signal_fence(p, f)
        PROVE  TimelineCount'
    <2>1. TimelineFences' = TimelineFences /\ DumpThreads' = DumpThreads
      BY <1>4
         DEF kgsl_ioctl_syncsource_signal_fence, Goto, timelineVars,
             contextVars, TimelineFences, DumpThreads, DumpPCs, At, TypeOK
    <2>2. QED
      BY <1>4, <2>1, Naturals
         DEF kgsl_ioctl_syncsource_signal_fence, Goto, timelineVars,
             contextVars, TimelineCount, TypeOK, One, HoldsContext
  <1>5. ASSUME NEW p \in Threads, kgsl_sync_fence_create(p) PROVE TimelineCount'
    <2>1. DumpThreads' = DumpThreads /\ cref' = cref
      BY <1>5 DEF kgsl_sync_fence_create, Goto, contextVars, DumpThreads, DumpPCs, At, TypeOK
    <2>2. CASE kind' = kind /\ tref' = tref
      BY <2>1, <2>2 DEF TimelineCount, TimelineFences
    <2>3. ASSUME NEW f \in Fences, kind[f] = "unborn",
                 kind' = [kind EXCEPT ![f] = "timeline"], tref' = tref + 1
          PROVE  TimelineCount'
      <3>1. TimelineFences' = TimelineFences \cup {f} /\ f \notin TimelineFences
        BY <2>3 DEF TimelineFences, TypeOK
      <3>2. Cardinality(TimelineFences') = Cardinality(TimelineFences) + 1
        BY <3>1, Finite, OneMore DEF TimelineFences
      <3>3. QED
        BY <2>1, <2>3, <3>2, Naturals DEF TimelineCount, TypeOK, One
    <2>4. QED
      BY <1>5, <2>2, <2>3 DEF kgsl_sync_fence_create
  <1>6. ASSUME NEW p \in Threads, kgsl_readtimestamp(p) PROVE TimelineCount'
    <2>1. TimelineFences' = TimelineFences /\ DumpThreads' = DumpThreads
      BY <1>6
         DEF kgsl_readtimestamp, Goto, fenceVars, timelineVars, contextVars,
             sourceVars, TimelineFences, DumpThreads, DumpPCs, At, TypeOK
    <2>2. QED
      BY <1>6, <2>1, Naturals
         DEF kgsl_readtimestamp, Goto, fenceVars, timelineVars, contextVars,
             sourceVars, TimelineCount, TypeOK, One, HoldsContext
  <1>7. ASSUME NEW p \in Threads, SignalRetired(p) PROVE TimelineCount'
    <2>1. PICK F \in SUBSET children : dma_fence_put(F)
      BY <1>7 DEF SignalRetired, kgsl_sync_timeline_signal
    <2>2. F \in SUBSET Fences /\ \A g \in F : ref[g] > 0
      BY <2>1, HoldersCounted DEF TypeOK
    <2>3. Cardinality(TimelineFences') = Cardinality(TimelineFences) + (tref' - tref)
      BY <2>1, <2>2, PutFences
    <2>4. DumpThreads' = DumpThreads /\ cref' = cref /\ tref' \in Int
      <3>1. tref' \in Int
        <4>1. \A S \in SUBSET Fences : Cardinality(S) \in Nat
          BY Finite
        <4>2. QED
          BY <2>1, <2>2, <4>1 DEF dma_fence_put, TypeOK
      <3>2. QED
        BY <1>7, <3>1
           DEF SignalRetired, Goto, contextVars, DumpThreads, DumpPCs, At,
               TypeOK
    <2>5. QED
      BY <2>3, <2>4, Naturals DEF TimelineCount, TypeOK, One
  <1>8. ASSUME NEW p \in Threads, _add_fence_event(p) PROVE TimelineCount'
    <2>1. TimelineFences' = TimelineFences /\ DumpThreads' = DumpThreads
      BY <1>8
         DEF _add_fence_event, Goto, timelineVars, sourceVars,
             TimelineFences, DumpThreads, DumpPCs, At, TypeOK
    <2>2. QED
      BY <1>8, <2>1, Naturals, ContextHeld
         DEF _add_fence_event, Goto, timelineVars, sourceVars,
             TimelineCount, TypeOK, One, HoldsContext
  <1>9. ASSUME NEW p \in Threads, fd_install(p) PROVE TimelineCount'
    <2>1. TimelineFences' = TimelineFences /\ DumpThreads' = DumpThreads
      BY <1>9
         DEF fd_install, Goto, timelineVars, contextVars, sourceVars,
             TimelineFences, DumpThreads, DumpPCs, At, TypeOK
    <2>2. QED
      BY <1>9, <2>1, Naturals
         DEF fd_install, Goto, timelineVars, contextVars, sourceVars,
             TimelineCount, TypeOK, One, HoldsContext
  <1>10. ASSUME NEW p \in Threads, PutContext(p) PROVE TimelineCount'
    <2>1. TimelineFences' = TimelineFences /\ DumpThreads' = DumpThreads
      BY <1>10
         DEF PutContext, Goto, Return, fenceVars, sourceVars,
             TimelineFences, DumpThreads, DumpPCs, At, TypeOK
    <2>2. QED
      BY <1>10, <2>1, Naturals, ContextHeld
         DEF PutContext, kgsl_context_put, Goto, Return, fenceVars,
             sourceVars, TimelineCount, TypeOK, One, HoldsContext
  <1>11. ASSUME NEW p \in Threads, kgsl_sync_cancel(p) PROVE TimelineCount'
    <2>1. dma_fence_put(children \cap {fen[p]})
      BY <1>11
         DEF kgsl_sync_cancel
    <2>2. (children \cap {fen[p]}) \in SUBSET Fences /\ \A g \in (children \cap {fen[p]}) : ref[g] > 0
      BY <1>11, HoldersCounted
         DEF kgsl_sync_cancel, ThreadFences, HoldsFence, Makes, TypeOK
    <2>3. Cardinality(TimelineFences') = Cardinality(TimelineFences) + (tref' - tref)
      BY <2>1, <2>2, PutFences
    <2>4. DumpThreads' = DumpThreads /\ cref' = cref /\ tref' \in Int
      <3>1. tref' \in Int
        <4>1. \A S \in SUBSET Fences : Cardinality(S) \in Nat
          BY Finite
        <4>2. QED
          BY <2>1, <2>2, <4>1 DEF dma_fence_put, TypeOK
      <3>2. QED
        BY <1>11, <3>1
           DEF kgsl_sync_cancel, Goto, contextVars, DumpThreads, DumpPCs,
               At, TypeOK
    <2>5. QED
      BY <2>3, <2>4, Naturals DEF TimelineCount, TypeOK, One
  <1>12. ASSUME NEW p \in Threads, fput(p) PROVE TimelineCount'
    <2>1. dma_fence_put({fen[p]})
      BY <1>12
         DEF fput
    <2>2. {fen[p]} \in SUBSET Fences /\ \A g \in {fen[p]} : ref[g] > 0
      BY <1>12, HoldersCounted
         DEF fput, ThreadFences, HoldsFence, Makes, TypeOK
    <2>3. Cardinality(TimelineFences') = Cardinality(TimelineFences) + (tref' - tref)
      BY <2>1, <2>2, PutFences
    <2>4. DumpThreads' = DumpThreads /\ cref' = cref /\ tref' \in Int
      <3>1. tref' \in Int
        <4>1. \A S \in SUBSET Fences : Cardinality(S) \in Nat
          BY Finite
        <4>2. QED
          BY <2>1, <2>2, <4>1 DEF dma_fence_put, TypeOK
      <3>2. QED
        BY <1>12, <3>1
           DEF fput, Return, contextVars, Goto, DumpThreads, DumpPCs, At,
               TypeOK
    <2>5. QED
      BY <2>3, <2>4, Naturals DEF TimelineCount, TypeOK, One
  <1>13. ASSUME NEW p \in Threads, ValueStrPuts(p) PROVE TimelineCount'
    <2>1. TimelineFences' = TimelineFences /\ DumpThreads' = DumpThreads
      BY <1>13
         DEF ValueStrPuts, Goto, fenceVars, sourceVars, TimelineFences,
             DumpThreads, DumpPCs, At, TypeOK
    <2>2. QED
      BY <1>13, <2>1, Naturals, ContextHeld
         DEF ValueStrPuts, kgsl_context_put, Goto, fenceVars, sourceVars,
             TimelineCount, TypeOK, One, HoldsContext
  <1>14. ASSUME NEW p \in Threads, kgsl_sync_timeline_put(p) PROVE TimelineCount'
    <2>1. Cardinality(DumpThreads') = Cardinality(DumpThreads) - 1
      <3>1. /\ pc' = [pc EXCEPT ![p] = "unref"] /\ "unref" \in PCs
            /\ One("unref" \in DumpPCs) = 0
            /\ One(pc[p] \in DumpPCs) = 1
        BY <1>14 DEF kgsl_sync_timeline_put, Goto, PCs, DumpPCs, One
      <3>2. Cardinality(DumpThreads') = Cardinality(DumpThreads)
              + One("unref" \in DumpPCs) - One(pc[p] \in DumpPCs)
        BY <3>1, DumpMove
      <3>3. QED
        BY <3>1, <3>2, Naturals
    <2>2. TimelineFences' = TimelineFences
      BY <1>14
         DEF kgsl_sync_timeline_put, fenceVars, TimelineFences
    <2>3. (cref' > 0 <=> cref > 0) /\ tref' = tref - 1
      BY <1>14
         DEF kgsl_sync_timeline_put, contextVars, TypeOK
    <2>4. QED
      BY <2>1, <2>2, <2>3, Naturals DEF TimelineCount, TypeOK, One
  <1>15. ASSUME NEW p \in Threads, Unref(p) PROVE TimelineCount'
    <2>1. dma_fence_put({fen[p]})
      BY <1>15
         DEF Unref
    <2>2. {fen[p]} \in SUBSET Fences /\ \A g \in {fen[p]} : ref[g] > 0
      BY <1>15, HoldersCounted
         DEF Unref, ThreadFences, HoldsFence, Makes, TypeOK
    <2>3. Cardinality(TimelineFences') = Cardinality(TimelineFences) + (tref' - tref)
      BY <2>1, <2>2, PutFences
    <2>4. DumpThreads' = DumpThreads /\ cref' = cref /\ tref' \in Int
      <3>1. tref' \in Int
        <4>1. \A S \in SUBSET Fences : Cardinality(S) \in Nat
          BY Finite
        <4>2. QED
          BY <2>1, <2>2, <4>1 DEF dma_fence_put, TypeOK
      <3>2. QED
        BY <1>15, <3>1
           DEF Unref, Return, contextVars, Goto, DumpThreads, DumpPCs, At,
               TypeOK
    <2>5. QED
      BY <2>3, <2>4, Naturals DEF TimelineCount, TypeOK, One
  <1>16. ASSUME NEW p \in Threads, CreateSourceFence(p) PROVE TimelineCount'
    <2>1. TimelineFences' = TimelineFences /\ DumpThreads' = DumpThreads
      BY <1>16
         DEF CreateSourceFence, Goto, timelineVars, contextVars, sourceVars,
             TimelineFences, DumpThreads, DumpPCs, At, TypeOK, FenceStates
    <2>2. QED
      BY <1>16, <2>1
         DEF CreateSourceFence, Goto, timelineVars, contextVars, sourceVars,
             TimelineCount
  <1>17. ASSUME NEW p \in Threads, SourceFd(p) PROVE TimelineCount'
    <2>1. TimelineFences' = TimelineFences /\ DumpThreads' = DumpThreads
      BY <1>17
         DEF SourceFd, Goto, timelineVars, contextVars, sourceVars,
             TimelineFences, DumpThreads, DumpPCs, At, TypeOK
    <2>2. QED
      BY <1>17, <2>1, Naturals
         DEF SourceFd, Goto, timelineVars, contextVars, sourceVars,
             TimelineCount, TypeOK, One, HoldsContext
  <1>18. ASSUME NEW p \in Threads, SourceList(p) PROVE TimelineCount'
    <2>1. TimelineFences' = TimelineFences /\ DumpThreads' = DumpThreads
      BY <1>18
         DEF SourceList, Goto, fenceVars, timelineVars, contextVars,
             TimelineFences, DumpThreads, DumpPCs, At, TypeOK
    <2>2. QED
      BY <1>18, <2>1, Naturals
         DEF SourceList, Goto, fenceVars, timelineVars, contextVars,
             TimelineCount, TypeOK, One, HoldsContext
  <1>19. ASSUME NEW p \in Threads, SourceFail(p) PROVE TimelineCount'
    <2>1. dma_fence_put({fen[p]})
      BY <1>19
         DEF SourceFail
    <2>2. {fen[p]} \in SUBSET Fences /\ \A g \in {fen[p]} : ref[g] > 0
      BY <1>19, HoldersCounted
         DEF SourceFail, ThreadFences, HoldsFence, Makes, TypeOK
    <2>3. Cardinality(TimelineFences') = Cardinality(TimelineFences) + (tref' - tref)
      BY <2>1, <2>2, PutFences
    <2>4. DumpThreads' = DumpThreads /\ cref' = cref /\ tref' \in Int
      <3>1. tref' \in Int
        <4>1. \A S \in SUBSET Fences : Cardinality(S) \in Nat
          BY Finite
        <4>2. QED
          BY <2>1, <2>2, <4>1 DEF dma_fence_put, TypeOK
      <3>2. QED
        BY <1>19, <3>1
           DEF SourceFail, Goto, contextVars, DumpThreads, DumpPCs, At,
               TypeOK
    <2>5. QED
      BY <2>3, <2>4, Naturals DEF TimelineCount, TypeOK, One
  <1>20. ASSUME NEW p \in Threads, SignalSource(p) PROVE TimelineCount'
    <2>1. TimelineFences' = TimelineFences /\ DumpThreads' = DumpThreads
      BY <1>20
         DEF SignalSource, Goto, timelineVars, contextVars, TimelineFences,
             DumpThreads, DumpPCs, At, TypeOK
    <2>2. QED
      BY <1>20, <2>1, Naturals
         DEF SignalSource, Goto, kgsl_syncsource_signal, timelineVars,
             contextVars, TimelineCount, TypeOK, One, HoldsContext
  <1>21. ASSUME NEW p \in Threads, SignalPutsFence(p) PROVE TimelineCount'
    <2>1. dma_fence_put({fen[p]})
      BY <1>21
         DEF SignalPutsFence
    <2>2. {fen[p]} \in SUBSET Fences /\ \A g \in {fen[p]} : ref[g] > 0
      BY <1>21, HoldersCounted
         DEF SignalPutsFence, ThreadFences, HoldsFence, Makes, TypeOK
    <2>3. Cardinality(TimelineFences') = Cardinality(TimelineFences) + (tref' - tref)
      BY <2>1, <2>2, PutFences
    <2>4. DumpThreads' = DumpThreads /\ cref' = cref /\ tref' \in Int
      <3>1. tref' \in Int
        <4>1. \A S \in SUBSET Fences : Cardinality(S) \in Nat
          BY Finite
        <4>2. QED
          BY <2>1, <2>2, <4>1 DEF dma_fence_put, TypeOK
      <3>2. QED
        BY <1>21, <3>1
           DEF SignalPutsFence, Goto, contextVars, DumpThreads, DumpPCs, At,
               TypeOK
    <2>5. QED
      BY <2>3, <2>4, Naturals DEF TimelineCount, TypeOK, One
  <1>22. ASSUME NEW p \in Threads, kgsl_syncsource_put(p) PROVE TimelineCount'
    <2>1. TimelineFences' = TimelineFences /\ DumpThreads' = DumpThreads
      BY <1>22
         DEF kgsl_syncsource_put, Return, fenceVars, timelineVars,
             contextVars, Goto, TimelineFences, DumpThreads, DumpPCs, At, TypeOK
    <2>2. QED
      BY <1>22, <2>1, Naturals
         DEF kgsl_syncsource_put, Return, fenceVars, timelineVars,
             contextVars, Goto, TimelineCount, TypeOK, One, HoldsContext
  <1>23. ASSUME NEW f \in Fences, kgsl_sync_fence_event_cb(f) PROVE TimelineCount'
    <2>1. PICK F \in SUBSET children : dma_fence_put(F)
      BY <1>23 DEF kgsl_sync_fence_event_cb, kgsl_sync_timeline_signal
    <2>2. F \in SUBSET Fences /\ \A g \in F : ref[g] > 0
      BY <2>1, HoldersCounted DEF TypeOK
    <2>3. Cardinality(TimelineFences') = Cardinality(TimelineFences) + (tref' - tref)
      BY <2>1, <2>2, PutFences
    <2>4. DumpThreads' = DumpThreads /\ cref' = cref /\ tref' \in Int
      <3>1. tref' \in Int
        <4>1. \A S \in SUBSET Fences : Cardinality(S) \in Nat
          BY Finite
        <4>2. QED
          BY <2>1, <2>2, <4>1 DEF dma_fence_put, TypeOK
      <3>2. QED
        BY <1>23, <3>1
           DEF kgsl_sync_fence_event_cb, contextVars, threadVars,
               DumpThreads, DumpPCs, At, TypeOK
    <2>5. QED
      BY <2>3, <2>4, Naturals DEF TimelineCount, TypeOK, One
  <1>24. ASSUME NEW f \in Fences, _kgsl_event_worker(f) PROVE TimelineCount'
    <2>1. TimelineFences' = TimelineFences /\ DumpThreads' = DumpThreads
      BY <1>24
         DEF _kgsl_event_worker, sourceVars, threadVars, TimelineFences,
             DumpThreads, DumpPCs, At, TypeOK
    <2>2. QED
      BY <1>24, <2>1, Naturals, ContextHeld
         DEF _kgsl_event_worker, kgsl_context_put, sourceVars, threadVars,
             TimelineCount, TypeOK, One
  <1>25. ASSUME NEW f \in Fences, kgsl_sync_fence_callback(f) PROVE TimelineCount'
    <2>1. dma_fence_put({f})
      BY <1>25
         DEF kgsl_sync_fence_callback, WaitEnds
    <2>2. {f} \in SUBSET Fences /\ \A g \in {f} : ref[g] > 0
      BY <1>25, HoldersCounted
         DEF kgsl_sync_fence_callback, WaitEnds, TypeOK
    <2>3. Cardinality(TimelineFences') = Cardinality(TimelineFences) + (tref' - tref)
      BY <2>1, <2>2, PutFences
    <2>4. DumpThreads' = DumpThreads /\ cref' = cref /\ tref' \in Int
      <3>1. tref' \in Int
        <4>1. \A S \in SUBSET Fences : Cardinality(S) \in Nat
          BY Finite
        <4>2. QED
          BY <2>1, <2>2, <4>1 DEF dma_fence_put, TypeOK
      <3>2. QED
        BY <1>25, <3>1
           DEF kgsl_sync_fence_callback, WaitEnds, contextVars, threadVars,
               DumpThreads, DumpPCs, At, TypeOK
    <2>5. QED
      BY <2>3, <2>4, Naturals DEF TimelineCount, TypeOK, One
  <1>26. ASSUME NEW f \in Fences, kgsl_syncsource_fence_release(f)
        PROVE  TimelineCount'
    <2>1. TimelineFences' = TimelineFences /\ DumpThreads' = DumpThreads
      BY <1>26
         DEF kgsl_syncsource_fence_release, timelineVars, contextVars,
             threadVars, TimelineFences, DumpThreads, DumpPCs, At, TypeOK,
             FenceStates
    <2>2. QED
      BY <1>26, <2>1
         DEF kgsl_syncsource_fence_release, kgsl_syncsource_signal,
             timelineVars, contextVars, threadVars, TimelineCount
  <1>27. ASSUME NEW f \in Fences, FreeSourceFence(f) PROVE TimelineCount'
    <2>1. TimelineFences' = TimelineFences /\ DumpThreads' = DumpThreads
      BY <1>27
         DEF FreeSourceFence, timelineVars, contextVars, threadVars,
             TimelineFences, DumpThreads, DumpPCs, At, TypeOK, FenceStates
    <2>2. QED
      BY <1>27, <2>1
         DEF FreeSourceFence, timelineVars, contextVars, threadVars,
             TimelineCount
  <1>28. ASSUME NEW f \in Fences, close(f) PROVE TimelineCount'
    <2>1. dma_fence_put({f})
      BY <1>28
         DEF close
    <2>2. {f} \in SUBSET Fences /\ \A g \in {f} : ref[g] > 0
      BY <1>28, HoldersCounted
         DEF close, TypeOK
    <2>3. Cardinality(TimelineFences') = Cardinality(TimelineFences) + (tref' - tref)
      BY <2>1, <2>2, PutFences
    <2>4. DumpThreads' = DumpThreads /\ cref' = cref /\ tref' \in Int
      <3>1. tref' \in Int
        <4>1. \A S \in SUBSET Fences : Cardinality(S) \in Nat
          BY Finite
        <4>2. QED
          BY <2>1, <2>2, <4>1 DEF dma_fence_put, TypeOK
      <3>2. QED
        BY <1>28, <3>1
           DEF close, contextVars, threadVars, DumpThreads, DumpPCs, At,
               TypeOK
    <2>5. QED
      BY <2>3, <2>4, Naturals DEF TimelineCount, TypeOK, One
  <1>29. ASSUME NEW f \in Fences, kgsl_sync_fence_async_wait(f) PROVE TimelineCount'
    <2>1. TimelineFences' = TimelineFences /\ DumpThreads' = DumpThreads
      BY <1>29
         DEF kgsl_sync_fence_async_wait, timelineVars, contextVars,
             sourceVars, threadVars, TimelineFences, DumpThreads, DumpPCs, At,
             TypeOK
    <2>2. QED
      BY <1>29, <2>1, Naturals
         DEF kgsl_sync_fence_async_wait, timelineVars, contextVars,
             sourceVars, threadVars, TimelineCount, TypeOK, One
  <1>30. ASSUME NEW f \in Fences, kgsl_sync_fence_async_cancel(f)
        PROVE  TimelineCount'
    <2>1. dma_fence_put({f})
      BY <1>30
         DEF kgsl_sync_fence_async_cancel, WaitEnds
    <2>2. {f} \in SUBSET Fences /\ \A g \in {f} : ref[g] > 0
      BY <1>30, HoldersCounted
         DEF kgsl_sync_fence_async_cancel, WaitEnds, TypeOK
    <2>3. Cardinality(TimelineFences') = Cardinality(TimelineFences) + (tref' - tref)
      BY <2>1, <2>2, PutFences
    <2>4. DumpThreads' = DumpThreads /\ cref' = cref /\ tref' \in Int
      <3>1. tref' \in Int
        <4>1. \A S \in SUBSET Fences : Cardinality(S) \in Nat
          BY Finite
        <4>2. QED
          BY <2>1, <2>2, <4>1 DEF dma_fence_put, TypeOK
      <3>2. QED
        BY <1>30, <3>1
           DEF kgsl_sync_fence_async_cancel, WaitEnds, contextVars,
               threadVars, DumpThreads, DumpPCs, At, TypeOK
    <2>5. QED
      BY <2>3, <2>4, Naturals DEF TimelineCount, TypeOK, One
  <1>31. CASE kgsl_process_event_groups
    <2>1. TimelineFences' = TimelineFences /\ DumpThreads' = DumpThreads
      BY <1>31
         DEF kgsl_process_event_groups, timelineVars, contextVars,
             sourceVars, threadVars, TimelineFences, DumpThreads, DumpPCs, At,
             TypeOK
    <2>2. QED
      BY <1>31, <2>1, Naturals
         DEF kgsl_process_event_groups, timelineVars, contextVars,
             sourceVars, threadVars, TimelineCount, TypeOK, One
  <1>32. CASE GpuRetire
    <2>1. TimelineFences' = TimelineFences /\ DumpThreads' = DumpThreads
      BY <1>32
         DEF GpuRetire, fenceVars, timelineVars, sourceVars, threadVars,
             TimelineFences, DumpThreads, DumpPCs, At, TypeOK
    <2>2. QED
      BY <1>32, <2>1, Naturals, ContextHeld
         DEF GpuRetire, fenceVars, timelineVars, sourceVars, threadVars,
             TimelineCount, TypeOK, One
  <1>33. CASE FaultInvalidate
    <2>1. TimelineFences' = TimelineFences /\ DumpThreads' = DumpThreads
      BY <1>33
         DEF FaultInvalidate, adreno_drawctxt_invalidate, SignalEvents,
             fenceVars, timelineVars, sourceVars, threadVars, TimelineFences,
             DumpThreads, DumpPCs, At, TypeOK
    <2>2. QED
      BY <1>33, <2>1, Naturals, ContextHeld
         DEF FaultInvalidate, adreno_drawctxt_invalidate, SignalEvents,
             fenceVars, timelineVars, sourceVars, threadVars, TimelineCount,
             TypeOK, One
  <1>34. CASE kgsl_context_detach
    <2>1. TimelineFences' = TimelineFences /\ DumpThreads' = DumpThreads
      BY <1>34
         DEF kgsl_context_detach, fenceVars, timelineVars, sourceVars,
             threadVars, TimelineFences, DumpThreads, DumpPCs, At, TypeOK
    <2>2. QED
      BY <1>34, <2>1, Naturals, ContextHeld
         DEF kgsl_context_detach, fenceVars, timelineVars, sourceVars,
             threadVars, TimelineCount, TypeOK, One
  <1>35. CASE gen7_hwsched_context_detach
    <2>1. TimelineFences' = TimelineFences /\ DumpThreads' = DumpThreads
      BY <1>35
         DEF gen7_hwsched_context_detach, adreno_drawctxt_invalidate,
             SignalEvents, fenceVars, timelineVars, sourceVars, threadVars,
             TimelineFences, DumpThreads, DumpPCs, At, TypeOK
    <2>2. QED
      BY <1>35, <2>1, Naturals, ContextHeld
         DEF gen7_hwsched_context_detach, adreno_drawctxt_invalidate,
             SignalEvents, fenceVars, timelineVars, sourceVars, threadVars,
             TimelineCount, TypeOK, One
  <1>36. CASE kgsl_cancel_events
    <2>1. TimelineFences' = TimelineFences /\ DumpThreads' = DumpThreads
      BY <1>36
         DEF kgsl_cancel_events, SignalEvents, timelineVars, sourceVars,
             threadVars, TimelineFences, DumpThreads, DumpPCs, At, TypeOK
    <2>2. QED
      BY <1>36, <2>1, Naturals, ContextHeld
         DEF kgsl_cancel_events, SignalEvents, timelineVars, sourceVars,
             threadVars, TimelineCount, TypeOK, One
  <1>37. CASE kgsl_sync_timeline_detach
    <2>1. TimelineFences' = TimelineFences /\ DumpThreads' = DumpThreads
      BY <1>37
         DEF kgsl_sync_timeline_detach, fenceVars, sourceVars, threadVars,
             TimelineFences, DumpThreads, DumpPCs, At, TypeOK
    <2>2. QED
      BY <1>37, <2>1, Naturals, ContextHeld
         DEF kgsl_sync_timeline_detach, fenceVars, sourceVars, threadVars,
             TimelineCount, TypeOK, One
  <1>38. CASE DetachPuts
    <2>1. TimelineFences' = TimelineFences /\ DumpThreads' = DumpThreads
      BY <1>38
         DEF DetachPuts, fenceVars, sourceVars, threadVars, TimelineFences,
             DumpThreads, DumpPCs, At, TypeOK
    <2>2. QED
      BY <1>38, <2>1, Naturals, ContextHeld
         DEF DetachPuts, kgsl_context_put, fenceVars, sourceVars,
             threadVars, TimelineCount, TypeOK, One
  <1>39. CASE kgsl_ioctl_syncsource_create
    <2>1. TimelineFences' = TimelineFences /\ DumpThreads' = DumpThreads
      BY <1>39
         DEF kgsl_ioctl_syncsource_create, fenceVars, timelineVars,
             contextVars, threadVars, TimelineFences, DumpThreads, DumpPCs, At,
             TypeOK
    <2>2. QED
      BY <1>39, <2>1, Naturals
         DEF kgsl_ioctl_syncsource_create, OneAfterTheOther, fenceVars,
             timelineVars, contextVars, threadVars, TimelineCount, TypeOK, One
  <1>40. CASE kgsl_ioctl_syncsource_destroy
    <2>1. TimelineFences' = TimelineFences /\ DumpThreads' = DumpThreads
      BY <1>40
         DEF kgsl_ioctl_syncsource_destroy, fenceVars, timelineVars,
             contextVars, threadVars, TimelineFences, DumpThreads, DumpPCs, At,
             TypeOK
    <2>2. QED
      BY <1>40, <2>1, Naturals
         DEF kgsl_ioctl_syncsource_destroy, fenceVars, timelineVars,
             contextVars, threadVars, TimelineCount, TypeOK, One
  <1>41. CASE kgsl_syncsource_cleanup
    <2>1. TimelineFences' = TimelineFences /\ DumpThreads' = DumpThreads
      BY <1>41
         DEF kgsl_syncsource_cleanup, timelineVars, contextVars, threadVars,
             TimelineFences, DumpThreads, DumpPCs, At, TypeOK
    <2>2. QED
      BY <1>41, <2>1, Naturals
         DEF kgsl_syncsource_cleanup, timelineVars, contextVars, threadVars,
             TimelineCount, TypeOK, One
  <1>42. CASE CleanupPuts
    <2>1. TimelineFences' = TimelineFences /\ DumpThreads' = DumpThreads
      BY <1>42
         DEF CleanupPuts, fenceVars, timelineVars, contextVars, threadVars,
             TimelineFences, DumpThreads, DumpPCs, At, TypeOK
    <2>2. QED
      BY <1>42, <2>1, Naturals
         DEF CleanupPuts, fenceVars, timelineVars, contextVars, threadVars,
             TimelineCount, TypeOK, One
  <1>43. CASE UNCHANGED vars
    BY <1>43
       DEF vars, fenceVars, timelineVars, contextVars, sourceVars,
           threadVars, TimelineCount, TimelineFences, DumpThreads, At
  <1>44. CASE Submit
    <2>1. TimelineFences' = TimelineFences /\ DumpThreads' = DumpThreads
      BY <1>44
         DEF Submit, fenceVars, timelineVars, sourceVars, threadVars,
             TimelineFences, DumpThreads, DumpPCs, At, TypeOK
    <2>2. QED
      BY <1>44, <2>1, Naturals, ContextHeld
         DEF Submit, fenceVars, timelineVars, sourceVars, threadVars,
             TimelineCount, TypeOK, One
  <1>45. ASSUME NEW f \in Fences, Poll(f) PROVE TimelineCount'
    <2>1. TimelineFences' = TimelineFences /\ DumpThreads' = DumpThreads
      BY <1>45
         DEF Poll, timelineVars, contextVars,
             sourceVars, threadVars, TimelineFences, DumpThreads, DumpPCs, At,
             TypeOK
    <2>2. QED
      BY <1>45, <2>1, Naturals
         DEF Poll, timelineVars, contextVars,
             sourceVars, threadVars, TimelineCount, TypeOK, One
  <1>46. QED
    BY <1>1, <1>2, <1>3, <1>4, <1>5, <1>6, <1>7, <1>8, <1>9, <1>10, <1>11,
       <1>12, <1>13, <1>14, <1>15, <1>16, <1>17, <1>18, <1>19, <1>20, <1>21, <1>22,
       <1>23, <1>24, <1>25, <1>26, <1>27, <1>28, <1>29, <1>30, <1>31, <1>32, <1>33,
       <1>34, <1>35, <1>36, <1>37, <1>38, <1>39, <1>40, <1>41, <1>42, <1>43, <1>44,
       <1>45
       DEF Next, Call, ThreadStep, FenceStep, UserStep, DetachStep,
           CleanupStep

\* The references of the syncsource are counted.
LEMMA SourceCountStep ==
    ASSUME TypeOK, ThreadFences, FenceStates, ZeroIsDead, FenceCount,
           SourceCount, [Next]_vars
    PROVE  SourceCount'
  <1>1. ASSUME NEW p \in Threads, kgsl_context_get_owner(p) PROVE SourceCount'
    <2>1. SourceFences' = SourceFences /\ SourceThreads' = SourceThreads
      BY <1>1
         DEF kgsl_context_get_owner, Goto, fenceVars, timelineVars,
             sourceVars, SourceFences, SourceThreads, HoldsSource, At, TypeOK,
             FenceStates
    <2>2. QED
      BY <1>1, <2>1, Naturals
         DEF kgsl_context_get_owner, sourceVars, SourceCount, TypeOK, One
  <1>2. ASSUME NEW p \in Threads, kgsl_syncsource_get(p) PROVE SourceCount'
    <2>1. Cardinality(SourceThreads') = Cardinality(SourceThreads) + 1
      <3>1. /\ pc' = [pc EXCEPT ![p] = "salloc"] /\ "salloc" \in PCs
            /\ One("salloc" \in HoldsSource) = 1
            /\ One(pc[p] \in HoldsSource) = 0
        BY <1>2
           DEF kgsl_syncsource_get, Goto, PCs, HoldsSource, One
      <3>2. Cardinality(SourceThreads') = Cardinality(SourceThreads)
              + One("salloc" \in HoldsSource) - One(pc[p] \in HoldsSource)
        BY <3>1, SourceMove
      <3>3. QED
        BY <3>1, <3>2, Naturals
    <2>2. SourceFences' = SourceFences
      BY <1>2
         DEF kgsl_syncsource_get, fenceVars, SourceFences
    <2>3. sref' = sref + 1 /\ spc' = spc /\ spc # "none"
      BY <1>2, SourceHeld
         DEF kgsl_syncsource_get, HoldsSource, SourceCount, TypeOK
    <2>4. QED
      BY <2>1, <2>2, <2>3, Naturals DEF SourceCount, TypeOK, One
  <1>3. ASSUME NEW p \in Threads, NEW f \in Fences, kgsl_sync_timeline_value_str(p, f)
        PROVE  SourceCount'
    <2>1. SourceFences' = SourceFences /\ SourceThreads' = SourceThreads
      BY <1>3
         DEF kgsl_sync_timeline_value_str, Goto, sourceVars, SourceFences,
             SourceThreads, HoldsSource, At, TypeOK, FenceStates
    <2>2. QED
      BY <1>3, <2>1, Naturals
         DEF kgsl_sync_timeline_value_str, sourceVars, SourceCount, TypeOK,
             One
  <1>4. ASSUME NEW p \in Threads, NEW f \in Fences, kgsl_ioctl_syncsource_signal_fence(p, f)
        PROVE  SourceCount'
    <2>1. Cardinality(SourceThreads') = Cardinality(SourceThreads) + 1
      <3>1. /\ pc' = [pc EXCEPT ![p] = "ssig"] /\ "ssig" \in PCs
            /\ One("ssig" \in HoldsSource) = 1
            /\ One(pc[p] \in HoldsSource) = 0
        BY <1>4
           DEF kgsl_ioctl_syncsource_signal_fence, Goto, PCs, HoldsSource,
               One
      <3>2. Cardinality(SourceThreads') = Cardinality(SourceThreads)
              + One("ssig" \in HoldsSource) - One(pc[p] \in HoldsSource)
        BY <3>1, SourceMove
      <3>3. QED
        BY <3>1, <3>2, Naturals
    <2>2. SourceFences' = SourceFences
      BY <1>4
         DEF kgsl_ioctl_syncsource_signal_fence, SourceFences
    <2>3. sref' = sref + 1 /\ spc' = spc /\ spc # "none"
      BY <1>4, SourceHeld
         DEF kgsl_ioctl_syncsource_signal_fence, HoldsSource, SourceCount,
             TypeOK
    <2>4. QED
      BY <2>1, <2>2, <2>3, Naturals DEF SourceCount, TypeOK, One
  <1>5. ASSUME NEW p \in Threads, kgsl_sync_fence_create(p) PROVE SourceCount'
    <2>1. SourceFences' = SourceFences /\ SourceThreads' = SourceThreads
      BY <1>5
         DEF kgsl_sync_fence_create, Goto, contextVars, sourceVars,
             SourceFences, SourceThreads, HoldsSource, At, TypeOK, FenceStates
    <2>2. QED
      BY <1>5, <2>1, Naturals
         DEF kgsl_sync_fence_create, sourceVars, SourceCount, TypeOK, One
  <1>6. ASSUME NEW p \in Threads, kgsl_readtimestamp(p) PROVE SourceCount'
    <2>1. SourceFences' = SourceFences /\ SourceThreads' = SourceThreads
      BY <1>6
         DEF kgsl_readtimestamp, Goto, fenceVars, timelineVars, contextVars,
             sourceVars, SourceFences, SourceThreads, HoldsSource, At, TypeOK,
             FenceStates
    <2>2. QED
      BY <1>6, <2>1, Naturals
         DEF kgsl_readtimestamp, sourceVars, SourceCount, TypeOK, One
  <1>7. ASSUME NEW p \in Threads, SignalRetired(p) PROVE SourceCount'
    <2>1. PICK F \in SUBSET children : dma_fence_put(F)
      BY <1>7 DEF SignalRetired, kgsl_sync_timeline_signal
    <2>2. F \in SUBSET Fences /\ \A g \in F : ref[g] > 0
      BY <2>1, HoldersCounted DEF TypeOK
    <2>3. SourceFences' = SourceFences
      BY <2>1, <2>2, PutFences
    <2>4. SourceThreads' = SourceThreads /\ sref' = sref /\ spc' = spc
      BY <1>7
         DEF SignalRetired, Goto, contextVars, SourceThreads, HoldsSource,
             At, TypeOK
    <2>5. QED
      BY <2>3, <2>4 DEF SourceCount
  <1>8. ASSUME NEW p \in Threads, _add_fence_event(p) PROVE SourceCount'
    <2>1. SourceFences' = SourceFences /\ SourceThreads' = SourceThreads
      BY <1>8
         DEF _add_fence_event, Goto, timelineVars, sourceVars, SourceFences,
             SourceThreads, HoldsSource, At, TypeOK, FenceStates
    <2>2. QED
      BY <1>8, <2>1, Naturals
         DEF _add_fence_event, sourceVars, SourceCount, TypeOK, One
  <1>9. ASSUME NEW p \in Threads, fd_install(p) PROVE SourceCount'
    <2>1. SourceFences' = SourceFences /\ SourceThreads' = SourceThreads
      BY <1>9
         DEF fd_install, Goto, timelineVars, contextVars, sourceVars,
             SourceFences, SourceThreads, HoldsSource, At, TypeOK, FenceStates
    <2>2. QED
      BY <1>9, <2>1, Naturals
         DEF fd_install, sourceVars, SourceCount, TypeOK, One
  <1>10. ASSUME NEW p \in Threads, PutContext(p) PROVE SourceCount'
    <2>1. SourceFences' = SourceFences /\ SourceThreads' = SourceThreads
      BY <1>10
         DEF PutContext, Goto, Return, fenceVars, sourceVars, SourceFences,
             SourceThreads, HoldsSource, At, TypeOK, FenceStates
    <2>2. QED
      BY <1>10, <2>1, Naturals
         DEF PutContext, sourceVars, SourceCount, TypeOK, One
  <1>11. ASSUME NEW p \in Threads, kgsl_sync_cancel(p) PROVE SourceCount'
    <2>1. dma_fence_put(children \cap {fen[p]})
      BY <1>11
         DEF kgsl_sync_cancel
    <2>2. (children \cap {fen[p]}) \in SUBSET Fences /\ \A g \in (children \cap {fen[p]}) : ref[g] > 0
      BY <1>11, HoldersCounted
         DEF kgsl_sync_cancel, ThreadFences, HoldsFence, Makes, TypeOK
    <2>3. SourceFences' = SourceFences
      BY <2>1, <2>2, PutFences
    <2>4. SourceThreads' = SourceThreads /\ sref' = sref /\ spc' = spc
      BY <1>11
         DEF kgsl_sync_cancel, Goto, contextVars, SourceThreads,
             HoldsSource, At, TypeOK
    <2>5. QED
      BY <2>3, <2>4 DEF SourceCount
  <1>12. ASSUME NEW p \in Threads, fput(p) PROVE SourceCount'
    <2>1. dma_fence_put({fen[p]})
      BY <1>12
         DEF fput
    <2>2. {fen[p]} \in SUBSET Fences /\ \A g \in {fen[p]} : ref[g] > 0
      BY <1>12, HoldersCounted
         DEF fput, ThreadFences, HoldsFence, Makes, TypeOK
    <2>3. SourceFences' = SourceFences
      BY <2>1, <2>2, PutFences
    <2>4. SourceThreads' = SourceThreads /\ sref' = sref /\ spc' = spc
      BY <1>12
         DEF fput, Return, contextVars, Goto, SourceThreads, HoldsSource,
             At, TypeOK
    <2>5. QED
      BY <2>3, <2>4 DEF SourceCount
  <1>13. ASSUME NEW p \in Threads, ValueStrPuts(p) PROVE SourceCount'
    <2>1. SourceFences' = SourceFences /\ SourceThreads' = SourceThreads
      BY <1>13
         DEF ValueStrPuts, Goto, fenceVars, sourceVars, SourceFences,
             SourceThreads, HoldsSource, At, TypeOK, FenceStates
    <2>2. QED
      BY <1>13, <2>1, Naturals
         DEF ValueStrPuts, sourceVars, SourceCount, TypeOK, One
  <1>14. ASSUME NEW p \in Threads, kgsl_sync_timeline_put(p) PROVE SourceCount'
    <2>1. SourceFences' = SourceFences /\ SourceThreads' = SourceThreads
      BY <1>14
         DEF kgsl_sync_timeline_put, Goto, fenceVars, contextVars,
             sourceVars, SourceFences, SourceThreads, HoldsSource, At, TypeOK,
             FenceStates
    <2>2. QED
      BY <1>14, <2>1, Naturals
         DEF kgsl_sync_timeline_put, sourceVars, SourceCount, TypeOK, One
  <1>15. ASSUME NEW p \in Threads, Unref(p) PROVE SourceCount'
    <2>1. dma_fence_put({fen[p]})
      BY <1>15
         DEF Unref
    <2>2. {fen[p]} \in SUBSET Fences /\ \A g \in {fen[p]} : ref[g] > 0
      BY <1>15, HoldersCounted
         DEF Unref, ThreadFences, HoldsFence, Makes, TypeOK
    <2>3. SourceFences' = SourceFences
      BY <2>1, <2>2, PutFences
    <2>4. SourceThreads' = SourceThreads /\ sref' = sref /\ spc' = spc
      BY <1>15
         DEF Unref, Return, contextVars, Goto, SourceThreads, HoldsSource,
             At, TypeOK
    <2>5. QED
      BY <2>3, <2>4 DEF SourceCount
  <1>16. ASSUME NEW p \in Threads, CreateSourceFence(p) PROVE SourceCount'
    <2>1. sref' = sref /\ spc' = spc
      BY <1>16 DEF CreateSourceFence, sourceVars
    <2>2. CASE kind' = kind /\ pc' = [pc EXCEPT ![p] = "sput"]
      <3>1. SourceFences' = SourceFences /\ SourceThreads' = SourceThreads
        BY <1>16, <2>2
           DEF CreateSourceFence, SourceFences, SourceThreads, HoldsSource, At,
               TypeOK
      <3>2. QED
        BY <2>1, <3>1 DEF SourceCount
    <2>3. ASSUME NEW f \in Fences, kind[f] = "unborn",
                 kind' = [kind EXCEPT ![f] = "source"],
                 NEW l \in {"sfd", "unref"}, pc' = [pc EXCEPT ![p] = l]
          PROVE  SourceCount'
      <3>1. SourceFences' = SourceFences \cup {f} /\ f \notin SourceFences
        BY <2>3 DEF SourceFences, TypeOK
      <3>2. Cardinality(SourceFences') = Cardinality(SourceFences) + 1
        BY <3>1, Finite, OneMore DEF SourceFences
      <3>3. SourceThreads' = SourceThreads \ {p} /\ p \in SourceThreads
        BY <1>16, <2>3 DEF CreateSourceFence, SourceThreads, HoldsSource, At, TypeOK
      <3>4. Cardinality(SourceThreads') = Cardinality(SourceThreads) - 1
        BY <3>3, Finite, OneLess DEF SourceThreads, At
      <3>5. QED
        BY <2>1, <3>2, <3>4, Naturals DEF SourceCount, TypeOK, One
    <2>4. QED
      BY <1>16, <2>2, <2>3 DEF CreateSourceFence, Goto
  <1>17. ASSUME NEW p \in Threads, SourceFd(p) PROVE SourceCount'
    <2>1. SourceFences' = SourceFences /\ SourceThreads' = SourceThreads
      BY <1>17
         DEF SourceFd, Goto, timelineVars, contextVars, sourceVars,
             SourceFences, SourceThreads, HoldsSource, At, TypeOK, FenceStates
    <2>2. QED
      BY <1>17, <2>1, Naturals
         DEF SourceFd, sourceVars, SourceCount, TypeOK, One
  <1>18. ASSUME NEW p \in Threads, SourceList(p) PROVE SourceCount'
    <2>1. SourceFences' = SourceFences /\ SourceThreads' = SourceThreads
      BY <1>18
         DEF SourceList, Goto, fenceVars, timelineVars, contextVars,
             SourceFences, SourceThreads, HoldsSource, At, TypeOK, FenceStates
    <2>2. QED
      BY <1>18, <2>1, Naturals
         DEF SourceList, SourceCount, TypeOK, One
  <1>19. ASSUME NEW p \in Threads, SourceFail(p) PROVE SourceCount'
    <2>1. dma_fence_put({fen[p]})
      BY <1>19
         DEF SourceFail
    <2>2. {fen[p]} \in SUBSET Fences /\ \A g \in {fen[p]} : ref[g] > 0
      BY <1>19, HoldersCounted
         DEF SourceFail, ThreadFences, HoldsFence, Makes, TypeOK
    <2>3. SourceFences' = SourceFences
      BY <2>1, <2>2, PutFences
    <2>4. SourceThreads' = SourceThreads /\ sref' = sref /\ spc' = spc
      BY <1>19
         DEF SourceFail, Goto, contextVars, SourceThreads, HoldsSource, At,
             TypeOK
    <2>5. QED
      BY <2>3, <2>4 DEF SourceCount
  <1>20. ASSUME NEW p \in Threads, SignalSource(p) PROVE SourceCount'
    <2>1. SourceFences' = SourceFences /\ SourceThreads' = SourceThreads
      BY <1>20
         DEF SignalSource, Goto, timelineVars, contextVars, SourceFences,
             SourceThreads, HoldsSource, At, TypeOK, FenceStates
    <2>2. QED
      BY <1>20, <2>1, Naturals
         DEF SignalSource, SourceCount, TypeOK, One
  <1>21. ASSUME NEW p \in Threads, SignalPutsFence(p) PROVE SourceCount'
    <2>1. dma_fence_put({fen[p]})
      BY <1>21
         DEF SignalPutsFence
    <2>2. {fen[p]} \in SUBSET Fences /\ \A g \in {fen[p]} : ref[g] > 0
      BY <1>21, HoldersCounted
         DEF SignalPutsFence, ThreadFences, HoldsFence, Makes, TypeOK
    <2>3. SourceFences' = SourceFences
      BY <2>1, <2>2, PutFences
    <2>4. SourceThreads' = SourceThreads /\ sref' = sref /\ spc' = spc
      BY <1>21
         DEF SignalPutsFence, Goto, contextVars, SourceThreads, HoldsSource,
             At, TypeOK
    <2>5. QED
      BY <2>3, <2>4 DEF SourceCount
  <1>22. ASSUME NEW p \in Threads, kgsl_syncsource_put(p) PROVE SourceCount'
    <2>1. Cardinality(SourceThreads') = Cardinality(SourceThreads) - 1
      <3>1. /\ pc' = [pc EXCEPT ![p] = "idle"] /\ "idle" \in PCs
            /\ One("idle" \in HoldsSource) = 0
            /\ One(pc[p] \in HoldsSource) = 1
        BY <1>22
           DEF kgsl_syncsource_put, Goto, Return, PCs, HoldsSource, One
      <3>2. Cardinality(SourceThreads') = Cardinality(SourceThreads)
              + One("idle" \in HoldsSource) - One(pc[p] \in HoldsSource)
        BY <3>1, SourceMove
      <3>3. QED
        BY <3>1, <3>2, Naturals
    <2>2. SourceFences' = SourceFences
      BY <1>22
         DEF kgsl_syncsource_put, fenceVars, SourceFences
    <2>3. sref' = sref - 1 /\ spc' = spc /\ spc # "none"
      BY <1>22, SourceHeld
         DEF kgsl_syncsource_put, HoldsSource, SourceCount, TypeOK
    <2>4. QED
      BY <2>1, <2>2, <2>3, Naturals DEF SourceCount, TypeOK, One
  <1>23. ASSUME NEW f \in Fences, kgsl_sync_fence_event_cb(f) PROVE SourceCount'
    <2>1. PICK F \in SUBSET children : dma_fence_put(F)
      BY <1>23 DEF kgsl_sync_fence_event_cb, kgsl_sync_timeline_signal
    <2>2. F \in SUBSET Fences /\ \A g \in F : ref[g] > 0
      BY <2>1, HoldersCounted DEF TypeOK
    <2>3. SourceFences' = SourceFences
      BY <2>1, <2>2, PutFences
    <2>4. SourceThreads' = SourceThreads /\ sref' = sref /\ spc' = spc
      BY <1>23
         DEF kgsl_sync_fence_event_cb, contextVars, threadVars,
             SourceThreads, HoldsSource, At, TypeOK
    <2>5. QED
      BY <2>3, <2>4 DEF SourceCount
  <1>24. ASSUME NEW f \in Fences, _kgsl_event_worker(f) PROVE SourceCount'
    <2>1. SourceFences' = SourceFences /\ SourceThreads' = SourceThreads
      BY <1>24
         DEF _kgsl_event_worker, sourceVars, threadVars, SourceFences,
             SourceThreads, HoldsSource, At, TypeOK, FenceStates
    <2>2. QED
      BY <1>24, <2>1, Naturals
         DEF _kgsl_event_worker, sourceVars, SourceCount, TypeOK, One
  <1>25. ASSUME NEW f \in Fences, kgsl_sync_fence_callback(f) PROVE SourceCount'
    <2>1. dma_fence_put({f})
      BY <1>25
         DEF kgsl_sync_fence_callback, WaitEnds
    <2>2. {f} \in SUBSET Fences /\ \A g \in {f} : ref[g] > 0
      BY <1>25, HoldersCounted
         DEF kgsl_sync_fence_callback, WaitEnds, TypeOK
    <2>3. SourceFences' = SourceFences
      BY <2>1, <2>2, PutFences
    <2>4. SourceThreads' = SourceThreads /\ sref' = sref /\ spc' = spc
      BY <1>25
         DEF kgsl_sync_fence_callback, WaitEnds, contextVars, threadVars,
             SourceThreads, HoldsSource, At, TypeOK
    <2>5. QED
      BY <2>3, <2>4 DEF SourceCount
  <1>26. ASSUME NEW f \in Fences, kgsl_syncsource_fence_release(f)
        PROVE  SourceCount'
    <2>1. kind[f] = "source"
      BY <1>26 DEF kgsl_syncsource_fence_release, FenceStates
    <2>2. SourceFences' = SourceFences /\ SourceThreads' = SourceThreads
      BY <1>26, <2>1
         DEF kgsl_syncsource_fence_release, threadVars, SourceFences,
             SourceThreads, At, TypeOK
    <2>3. QED
      BY <1>26, <2>2 DEF kgsl_syncsource_fence_release, SourceCount
  <1>27. ASSUME NEW f \in Fences, FreeSourceFence(f) PROVE SourceCount'
    <2>1. SourceFences' = SourceFences \ {f} /\ f \in SourceFences
      BY <1>27 DEF FreeSourceFence, SourceFences, TypeOK
    <2>2. Cardinality(SourceFences') = Cardinality(SourceFences) - 1
      BY <2>1, Finite, OneLess DEF SourceFences
    <2>3. SourceThreads' = SourceThreads
      BY <1>27 DEF FreeSourceFence, threadVars, SourceThreads, At
    <2>4. sref' = sref - 1 /\ spc' = spc /\ spc # "none"
      BY <1>27, SourceHeld DEF FreeSourceFence, SourceCount, TypeOK
    <2>5. QED
      BY <2>2, <2>3, <2>4, Naturals DEF SourceCount, TypeOK, One
  <1>28. ASSUME NEW f \in Fences, close(f) PROVE SourceCount'
    <2>1. dma_fence_put({f})
      BY <1>28
         DEF close
    <2>2. {f} \in SUBSET Fences /\ \A g \in {f} : ref[g] > 0
      BY <1>28, HoldersCounted
         DEF close, TypeOK
    <2>3. SourceFences' = SourceFences
      BY <2>1, <2>2, PutFences
    <2>4. SourceThreads' = SourceThreads /\ sref' = sref /\ spc' = spc
      BY <1>28
         DEF close, contextVars, threadVars, SourceThreads, HoldsSource, At,
             TypeOK
    <2>5. QED
      BY <2>3, <2>4 DEF SourceCount
  <1>29. ASSUME NEW f \in Fences, kgsl_sync_fence_async_wait(f) PROVE SourceCount'
    <2>1. SourceFences' = SourceFences /\ SourceThreads' = SourceThreads
      BY <1>29
         DEF kgsl_sync_fence_async_wait, timelineVars, contextVars,
             sourceVars, threadVars, SourceFences, SourceThreads, HoldsSource,
             At, TypeOK, FenceStates
    <2>2. QED
      BY <1>29, <2>1, Naturals
         DEF kgsl_sync_fence_async_wait, sourceVars, SourceCount, TypeOK,
             One
  <1>30. ASSUME NEW f \in Fences, kgsl_sync_fence_async_cancel(f) PROVE SourceCount'
    <2>1. dma_fence_put({f})
      BY <1>30
         DEF kgsl_sync_fence_async_cancel, WaitEnds
    <2>2. {f} \in SUBSET Fences /\ \A g \in {f} : ref[g] > 0
      BY <1>30, HoldersCounted
         DEF kgsl_sync_fence_async_cancel, WaitEnds, TypeOK
    <2>3. SourceFences' = SourceFences
      BY <2>1, <2>2, PutFences
    <2>4. SourceThreads' = SourceThreads /\ sref' = sref /\ spc' = spc
      BY <1>30
         DEF kgsl_sync_fence_async_cancel, WaitEnds, contextVars,
             threadVars, SourceThreads, HoldsSource, At, TypeOK
    <2>5. QED
      BY <2>3, <2>4 DEF SourceCount
  <1>31. CASE kgsl_process_event_groups
    <2>1. SourceFences' = SourceFences /\ SourceThreads' = SourceThreads
      BY <1>31
         DEF kgsl_process_event_groups, timelineVars, contextVars,
             sourceVars, threadVars, SourceFences, SourceThreads, HoldsSource,
             At, TypeOK, FenceStates
    <2>2. QED
      BY <1>31, <2>1, Naturals
         DEF kgsl_process_event_groups, sourceVars, SourceCount, TypeOK, One
  <1>32. CASE GpuRetire
    <2>1. SourceFences' = SourceFences /\ SourceThreads' = SourceThreads
      BY <1>32
         DEF GpuRetire, fenceVars, timelineVars, sourceVars, threadVars,
             SourceFences, SourceThreads, HoldsSource, At, TypeOK, FenceStates
    <2>2. QED
      BY <1>32, <2>1, Naturals
         DEF GpuRetire, sourceVars, SourceCount, TypeOK, One
  <1>33. CASE FaultInvalidate
    <2>1. SourceFences' = SourceFences /\ SourceThreads' = SourceThreads
      BY <1>33
         DEF FaultInvalidate, adreno_drawctxt_invalidate, SignalEvents,
             fenceVars, timelineVars, sourceVars, threadVars, SourceFences,
             SourceThreads, HoldsSource, At, TypeOK, FenceStates
    <2>2. QED
      BY <1>33, <2>1, Naturals
         DEF FaultInvalidate, adreno_drawctxt_invalidate, SignalEvents,
             sourceVars, SourceCount, TypeOK, One
  <1>34. CASE kgsl_context_detach
    <2>1. SourceFences' = SourceFences /\ SourceThreads' = SourceThreads
      BY <1>34
         DEF kgsl_context_detach, fenceVars, timelineVars, sourceVars,
             threadVars, SourceFences, SourceThreads, HoldsSource, At, TypeOK,
             FenceStates
    <2>2. QED
      BY <1>34, <2>1, Naturals
         DEF kgsl_context_detach, sourceVars, SourceCount, TypeOK, One
  <1>35. CASE gen7_hwsched_context_detach
    <2>1. SourceFences' = SourceFences /\ SourceThreads' = SourceThreads
      BY <1>35
         DEF gen7_hwsched_context_detach, adreno_drawctxt_invalidate,
             SignalEvents, fenceVars, timelineVars, sourceVars, threadVars,
             SourceFences, SourceThreads, HoldsSource, At, TypeOK, FenceStates
    <2>2. QED
      BY <1>35, <2>1, Naturals
         DEF gen7_hwsched_context_detach, adreno_drawctxt_invalidate,
             SignalEvents, sourceVars, SourceCount, TypeOK, One
  <1>36. CASE kgsl_cancel_events
    <2>1. SourceFences' = SourceFences /\ SourceThreads' = SourceThreads
      BY <1>36
         DEF kgsl_cancel_events, SignalEvents, timelineVars, sourceVars,
             threadVars, SourceFences, SourceThreads, HoldsSource, At, TypeOK,
             FenceStates
    <2>2. QED
      BY <1>36, <2>1, Naturals
         DEF kgsl_cancel_events, SignalEvents, sourceVars, SourceCount, TypeOK,
             One
  <1>37. CASE kgsl_sync_timeline_detach
    <2>1. SourceFences' = SourceFences /\ SourceThreads' = SourceThreads
      BY <1>37
         DEF kgsl_sync_timeline_detach, fenceVars, sourceVars, threadVars,
             SourceFences, SourceThreads, HoldsSource, At, TypeOK, FenceStates
    <2>2. QED
      BY <1>37, <2>1, Naturals
         DEF kgsl_sync_timeline_detach, sourceVars, SourceCount, TypeOK, One
  <1>38. CASE DetachPuts
    <2>1. SourceFences' = SourceFences /\ SourceThreads' = SourceThreads
      BY <1>38
         DEF DetachPuts, fenceVars, sourceVars, threadVars, SourceFences,
             SourceThreads, HoldsSource, At, TypeOK, FenceStates
    <2>2. QED
      BY <1>38, <2>1, Naturals
         DEF DetachPuts, sourceVars, SourceCount, TypeOK, One
  <1>39. CASE kgsl_ioctl_syncsource_create
    <2>1. SourceFences' = SourceFences /\ SourceThreads' = SourceThreads
      BY <1>39
         DEF kgsl_ioctl_syncsource_create, fenceVars, timelineVars,
             contextVars, threadVars, SourceFences, SourceThreads, HoldsSource,
             At, TypeOK, FenceStates
    <2>2. QED
      BY <1>39, <2>1, Naturals
         DEF kgsl_ioctl_syncsource_create, SourceCount, TypeOK, One
  <1>40. CASE kgsl_ioctl_syncsource_destroy
    <2>1. SourceFences' = SourceFences /\ SourceThreads' = SourceThreads
      BY <1>40
         DEF kgsl_ioctl_syncsource_destroy, fenceVars, timelineVars,
             contextVars, threadVars, SourceFences, SourceThreads, HoldsSource,
             At, TypeOK, FenceStates
    <2>2. QED
      BY <1>40, <2>1, Naturals
         DEF kgsl_ioctl_syncsource_destroy, SourceCount, TypeOK, One
  <1>41. CASE kgsl_syncsource_cleanup
    <2>1. SourceFences' = SourceFences /\ SourceThreads' = SourceThreads
      BY <1>41
         DEF kgsl_syncsource_cleanup, timelineVars, contextVars, threadVars,
             SourceFences, SourceThreads, HoldsSource, At, TypeOK, FenceStates
    <2>2. QED
      BY <1>41, <2>1, Naturals
         DEF kgsl_syncsource_cleanup, SourceCount, TypeOK, One
  <1>42. CASE CleanupPuts
    <2>1. SourceFences' = SourceFences /\ SourceThreads' = SourceThreads
      BY <1>42
         DEF CleanupPuts, fenceVars, timelineVars, contextVars, threadVars,
             SourceFences, SourceThreads, HoldsSource, At, TypeOK, FenceStates
    <2>2. QED
      BY <1>42, <2>1, Naturals
         DEF CleanupPuts, SourceCount, TypeOK, One
  <1>43. CASE UNCHANGED vars
    BY <1>43
       DEF vars, fenceVars, timelineVars, contextVars, sourceVars,
           threadVars, SourceCount, SourceFences, SourceThreads, At
  <1>44. CASE Submit
    <2>1. SourceFences' = SourceFences /\ SourceThreads' = SourceThreads
      BY <1>44
         DEF Submit, fenceVars, timelineVars, sourceVars, threadVars,
             SourceFences, SourceThreads, HoldsSource, At, TypeOK, FenceStates
    <2>2. QED
      BY <1>44, <2>1, Naturals
         DEF Submit, sourceVars, SourceCount, TypeOK, One
  <1>45. ASSUME NEW f \in Fences, Poll(f) PROVE SourceCount'
    <2>1. SourceFences' = SourceFences /\ SourceThreads' = SourceThreads
      BY <1>45
         DEF Poll, timelineVars, contextVars,
             sourceVars, threadVars, SourceFences, SourceThreads, HoldsSource,
             At, TypeOK, FenceStates
    <2>2. QED
      BY <1>45, <2>1, Naturals
         DEF Poll, sourceVars, SourceCount, TypeOK,
             One
  <1>46. QED
    BY <1>1, <1>2, <1>3, <1>4, <1>5, <1>6, <1>7, <1>8, <1>9, <1>10, <1>11,
       <1>12, <1>13, <1>14, <1>15, <1>16, <1>17, <1>18, <1>19, <1>20, <1>21, <1>22,
       <1>23, <1>24, <1>25, <1>26, <1>27, <1>28, <1>29, <1>30, <1>31, <1>32, <1>33,
       <1>34, <1>35, <1>36, <1>37, <1>38, <1>39, <1>40, <1>41, <1>42, <1>43, <1>44,
       <1>45
       DEF Next, Call, ThreadStep, FenceStep, UserStep, DetachStep,
           CleanupStep

\* The steps that change the timestamps of the context, and the one that gives
\* a fence its timestamp.
TimestampVars == <<bits, queued, gpu, retired, lost, dropped, dpc>>
LEMMA ContextActions ==
    ASSUME [Next]_vars
    PROVE  /\ \/ UNCHANGED TimestampVars
              \/ Submit \/ GpuRetire \/ FaultInvalidate \/ kgsl_context_detach
              \/ DetachStep
           /\ UNCHANGED ts \/ \E p \in Threads : kgsl_sync_fence_create(p)
  <1>1. ASSUME NEW p \in Threads, Call(p) PROVE UNCHANGED <<TimestampVars, ts>>
    BY <1>1
       DEF Call, kgsl_context_get_owner, kgsl_syncsource_get,
           kgsl_sync_timeline_value_str, kgsl_ioctl_syncsource_signal_fence,
           TimestampVars, contextVars, fenceVars
  <1>2. ASSUME NEW p \in Threads, ThreadStep(p)
        PROVE  /\ UNCHANGED TimestampVars
               /\ UNCHANGED ts \/ kgsl_sync_fence_create(p)
    <2>1. CASE kgsl_sync_fence_create(p) \/ kgsl_readtimestamp(p) \/ SignalRetired(p)
               \/ _add_fence_event(p) \/ fd_install(p) \/ PutContext(p)
      BY <2>1
         DEF kgsl_sync_fence_create, kgsl_readtimestamp, SignalRetired,
             _add_fence_event, fd_install, PutContext, TimestampVars, contextVars,
             fenceVars
    <2>2. CASE kgsl_sync_cancel(p) \/ fput(p) \/ ValueStrPuts(p)
               \/ kgsl_sync_timeline_put(p) \/ Unref(p) \/ CreateSourceFence(p)
      BY <2>2
         DEF kgsl_sync_cancel, fput, ValueStrPuts, kgsl_sync_timeline_put, Unref,
             CreateSourceFence, TimestampVars, contextVars, fenceVars
    <2>3. CASE SourceFd(p) \/ SourceList(p) \/ SourceFail(p) \/ SignalSource(p)
               \/ SignalPutsFence(p) \/ kgsl_syncsource_put(p)
      BY <2>3
         DEF SourceFd, SourceList, SourceFail, SignalSource, SignalPutsFence,
             kgsl_syncsource_put, TimestampVars, contextVars, fenceVars
    <2>4. QED
      BY <1>2, <2>1, <2>2, <2>3 DEF ThreadStep
  <1>3. ASSUME NEW f \in Fences, FenceStep(f) \/ UserStep(f)
        PROVE  UNCHANGED <<TimestampVars, ts>>
    BY <1>3
       DEF FenceStep, UserStep, kgsl_sync_fence_event_cb, _kgsl_event_worker,
           kgsl_sync_fence_callback, WaitEnds, kgsl_syncsource_fence_release,
           FreeSourceFence, close, Poll, kgsl_sync_fence_async_wait,
           kgsl_sync_fence_async_cancel, TimestampVars, contextVars
  <1>4. CASE kgsl_process_event_groups \/ kgsl_ioctl_syncsource_create
             \/ kgsl_ioctl_syncsource_destroy \/ CleanupStep \/ UNCHANGED vars
    BY <1>4
       DEF kgsl_process_event_groups, kgsl_ioctl_syncsource_create,
           kgsl_ioctl_syncsource_destroy, CleanupStep, kgsl_syncsource_cleanup,
           CleanupPuts, vars, TimestampVars, contextVars, fenceVars
  <1>5. CASE Submit \/ GpuRetire \/ FaultInvalidate \/ kgsl_context_detach \/ DetachStep
    BY <1>5
       DEF Submit, GpuRetire, FaultInvalidate, kgsl_context_detach, DetachStep,
           gen7_hwsched_context_detach, kgsl_cancel_events,
           kgsl_sync_timeline_detach, DetachPuts, fenceVars
  <1>6. QED
    BY <1>1, <1>2, <1>3, <1>4, <1>5 DEF Next

\* What is over or hopeless stays so: the timestamps of the context grow, and a
\* context that has ended takes no more.
Monotone ==
    /\ gpu <= gpu' /\ queued <= queued' /\ dropped \subseteq dropped'
    /\ Ended => Ended' /\ queued' = queued /\ lost' = lost
    /\ Forced => Forced'

LEMMA ContextStep ==
    ASSUME TypeOK, ContextState, [Next]_vars
    PROVE  ContextState' /\ Monotone
  <1>1. CASE UNCHANGED TimestampVars
    BY <1>1 DEF TimestampVars, ContextState, Monotone, Forced, Ended, TypeOK
  <1>2. CASE Submit
    BY <1>2 DEF Submit, ContextState, Monotone, Forced, Ended, TypeOK
  <1>3. CASE GpuRetire
    BY <1>3 DEF GpuRetire, OnGpu, ContextState, Monotone, Forced, Ended, TypeOK
  <1>4. CASE FaultInvalidate
    BY <1>4
       DEF FaultInvalidate, adreno_drawctxt_invalidate, SignalEvents,
           ContextState, Monotone, Forced, Ended, TypeOK
  <1>5. CASE kgsl_context_detach
    BY <1>5 DEF kgsl_context_detach, ContextState, Monotone, Forced, Ended, TypeOK
  <1>6. CASE gen7_hwsched_context_detach
    <2>1. /\ dpc = "marked" /\ dpc' = "detached" /\ queued' = queued /\ gpu' = gpu
          /\ Ended' /\ ~lost /\ dropped \subseteq dropped' /\ bits \subseteq bits'
          /\ queued \in Nat /\ gpu \in Nat /\ retired \in Nat
      BY <1>6
         DEF gen7_hwsched_context_detach, adreno_drawctxt_invalidate,
             SignalEvents, ContextState, Ended, TypeOK
    <2>2. CASE retired' = queued /\ UNCHANGED <<bits, lost, event, dropped>>
      BY <2>1, <2>2 DEF ContextState, Monotone, Forced, Ended
    <2>3. CASE /\ lost' = ("INVALID" \notin bits)
               /\ UNCHANGED <<bits, retired, event, dropped>>
      <3>1. CASE "INVALID" \in bits
        <4>1. lost = FALSE /\ lost' = FALSE
          BY <2>1, <2>3, <3>1 DEF TypeOK
        <4>2. Ended /\ Forced /\ Forced'
          BY <2>3, <3>1 DEF Forced, Ended
        <4>3. retired = queued
          BY <2>1, <4>2 DEF ContextState
        <4>4. ContextState'
          BY <2>1, <2>3, <4>1, <4>2, <4>3 DEF ContextState
        <4>5. lost' = lost
          BY <4>1
        <4>6. Monotone
          BY <2>1, <4>2, <4>5 DEF Monotone
        <4>7. QED
          BY <4>4, <4>6
      <3>2. CASE "INVALID" \notin bits
        <4>1. lost' = TRUE
          BY <2>3, <3>2
        <4>2. ~Ended /\ ~Forced
          BY <2>1, <3>2 DEF Forced, Ended
        <4>3. QED
          BY <2>1, <2>3, <4>1, <4>2 DEF ContextState, Monotone
      <3>3. QED
        BY <3>1, <3>2
    <2>4. CASE lost' = ("INVALID" \notin bits) /\ adreno_drawctxt_invalidate
      <3>1. retired' = queued /\ Forced'
        BY <2>4 DEF adreno_drawctxt_invalidate, Forced
      <3>2. ContextState'
        BY <2>1, <3>1 DEF ContextState
      <3>3. Ended => lost' = lost
        <4>1. SUFFICES ASSUME Ended PROVE lost' = FALSE /\ lost = FALSE
          OBVIOUS
        <4>2. "INVALID" \in bits
          BY <2>1, <4>1 DEF Ended
        <4>3. QED
          BY <2>1, <2>4, <4>2 DEF TypeOK
      <3>4. QED
        BY <2>1, <3>1, <3>2, <3>3 DEF ContextState, Monotone
    <2>5. QED
      BY <1>6, <2>2, <2>3, <2>4 DEF gen7_hwsched_context_detach
  <1>7. CASE kgsl_cancel_events
    BY <1>7
       DEF kgsl_cancel_events, SignalEvents, ContextState, Monotone, Forced,
           Ended, TypeOK
  <1>8. CASE kgsl_sync_timeline_detach \/ DetachPuts
    BY <1>8
       DEF kgsl_sync_timeline_detach, DetachPuts, ContextState, Monotone, Forced,
           Ended, TypeOK
  <1>9. QED
    BY <1>1, <1>2, <1>3, <1>4, <1>5, <1>6, <1>7, <1>8, ContextActions DEF DetachStep

LEMMA OverGrows ==
    ASSUME TypeOK, ContextState, [Next]_vars
    PROVE  OverTs \subseteq OverTs'
  <1>1. Monotone /\ ContextState'
    BY ContextStep
  <1>2. queued \in Nat /\ gpu \in Nat /\ dropped \subseteq Nat
    BY KgslSyncAssumption DEF TypeOK
  <1>3. queued' \in Nat /\ gpu' \in Nat
    <2>1. (queued' = queued \/ queued' = queued + 1) /\ (gpu' = gpu \/ gpu' = gpu + 1)
      <3>1. CASE UNCHANGED TimestampVars \/ Submit \/ GpuRetire \/ FaultInvalidate
        BY <3>1 DEF TimestampVars, Submit, GpuRetire, FaultInvalidate
      <3>2. CASE kgsl_context_detach \/ DetachStep
        BY <3>2
           DEF kgsl_context_detach, DetachStep, gen7_hwsched_context_detach,
               kgsl_cancel_events, kgsl_sync_timeline_detach, DetachPuts
      <3>3. QED
        BY <3>1, <3>2, ContextActions
    <2>2. QED
      BY <1>2, <2>1
  <1>4. QED
    BY <1>1, <1>2, <1>3, KgslSyncAssumption DEF Monotone, OverTs, Over

LEMMA OverDown ==
    ASSUME TypeOK
    PROVE  \A t \in OverTs, u \in 0 .. MaxTs : u <= t => u \in OverTs
  BY KgslSyncAssumption DEF OverTs, Over, TypeOK

LEMMA OverRetired ==
    ASSUME TypeOK, ContextState
    PROVE  retired \in OverTs
  BY KgslSyncAssumption DEF OverTs, Over, TypeOK, ContextState

LEMMA HopelessGrows ==
    ASSUME TypeOK, FenceStates, ContextState, [Next]_vars
    PROVE  Hopeless \subseteq Hopeless'
  <1>1. Monotone
    BY ContextStep
  <1>2. ASSUME NEW f \in Fences PROVE ts'[f] = ts[f] \/ ts[f] = 0
    BY ContextActions DEF kgsl_sync_fence_create, FenceStates, TypeOK
  <1>3. QED
    BY <1>1, <1>2, KgslSyncAssumption DEF Monotone, Hopeless, NeverRetires, TypeOK

\* A fence that the memstore does not cover is ahead of last_timestamp, or
\* hopeless.
LEMMA Behind ==
    ASSUME TypeOK, SignalsRetired, NEW f \in Fences, retired < ts[f]
    PROVE  last < ts[f] \/ f \in Hopeless
  BY KgslSyncAssumption
     DEF SignalsRetired, ContextState, OverTs, Over, Forced, Ended, Hopeless,
         NeverRetires, TypeOK

\* The events that an ended context signals are over: the cancelled ones are
\* counted as dropped, the others ask for what was queued.
LEMMA SignalEventsOver ==
    ASSUME TypeOK, NEW F \in SUBSET Fences, SignalEvents(F), Ended', queued' = queued,
           \A f \in Fences : event[f] = "listed" /\ f \notin F => ts[f] <= queued /\ Forced',
           NEW f \in Fences, event'[f] \in {"retired", "cancelled"}
    PROVE  event'[f] = event[f] \/ ts[f] \in OverTs'
  <1>1. ts[f] \in 0 .. MaxTs
    BY DEF TypeOK
  <1>2. CASE f \in F
    BY <1>1, <1>2, KgslSyncAssumption DEF SignalEvents, OverTs, Over
  <1>3. CASE f \notin F /\ event[f] = "listed"
    BY <1>1, <1>3, KgslSyncAssumption DEF OverTs, Over
  <1>4. CASE f \notin F /\ event[f] # "listed"
    BY <1>4 DEF SignalEvents
  <1>5. QED
    BY <1>2, <1>3, <1>4

\* Nothing is signaled, or going to be, before it is over.
LEMMA RetiredStep ==
    ASSUME TypeOK, ThreadFences, FenceStates, SignalsRetired, [Next]_vars
    PROVE  SignalsRetired'
  <1>a. ContextState' /\ OverTs \subseteq OverTs'
    BY ContextStep, OverGrows DEF SignalsRetired
  <1>b. \A t \in OverTs, u \in 0 .. MaxTs : u <= t => u \in OverTs
    BY OverDown
  <1>c. retired \in OverTs
    BY OverRetired DEF SignalsRetired
  <1>1. ASSUME NEW p \in Threads, kgsl_context_get_owner(p) PROVE SignalsRetired'
    BY <1>1, <1>a, <1>b, <1>c, KgslSyncAssumption
       DEF kgsl_context_get_owner, Goto, fenceVars, timelineVars,
           sourceVars, SignalsRetired, TypeOK
  <1>2. ASSUME NEW p \in Threads, kgsl_syncsource_get(p) PROVE SignalsRetired'
    BY <1>2, <1>a, <1>b, <1>c, KgslSyncAssumption
       DEF kgsl_syncsource_get, Goto, fenceVars, timelineVars, contextVars,
           SignalsRetired, TypeOK
  <1>3. ASSUME NEW p \in Threads, NEW f \in Fences, kgsl_sync_timeline_value_str(p, f)
        PROVE  SignalsRetired'
    BY <1>3, <1>a, <1>b, <1>c, KgslSyncAssumption
       DEF kgsl_sync_timeline_value_str, Goto, sourceVars, SignalsRetired, TypeOK
  <1>4. ASSUME NEW p \in Threads, NEW f \in Fences, kgsl_ioctl_syncsource_signal_fence(p, f)
        PROVE  SignalsRetired'
    BY <1>4, <1>a, <1>b, <1>c, KgslSyncAssumption
       DEF kgsl_ioctl_syncsource_signal_fence, Goto, timelineVars,
           contextVars, SignalsRetired, TypeOK
  <1>5. ASSUME NEW p \in Threads, kgsl_sync_fence_create(p) PROVE SignalsRetired'
    BY <1>5, <1>a, <1>b, <1>c, KgslSyncAssumption
       DEF kgsl_sync_fence_create, Goto, contextVars, sourceVars,
           SignalsRetired, TypeOK, FenceStates
  <1>6. ASSUME NEW p \in Threads, kgsl_readtimestamp(p) PROVE SignalsRetired'
    BY <1>6, <1>a, <1>b, <1>c, KgslSyncAssumption
       DEF kgsl_readtimestamp, Goto, fenceVars, timelineVars, contextVars,
           sourceVars, SignalsRetired, TypeOK
  <1>7. ASSUME NEW p \in Threads, SignalRetired(p) PROVE SignalsRetired'
    BY <1>7, <1>a, <1>b, <1>c, KgslSyncAssumption
       DEF SignalRetired, Goto, kgsl_sync_timeline_signal, contextVars,
           SignalsRetired, TypeOK, FenceStates
  <1>8. ASSUME NEW p \in Threads, _add_fence_event(p) PROVE SignalsRetired'
    BY <1>8, <1>a, <1>b, <1>c, KgslSyncAssumption
       DEF _add_fence_event, Goto, timelineVars, sourceVars, SignalsRetired,
           TypeOK, ThreadFences, Makes
  <1>9. ASSUME NEW p \in Threads, fd_install(p) PROVE SignalsRetired'
    BY <1>9, <1>a, <1>b, <1>c, KgslSyncAssumption
       DEF fd_install, Goto, timelineVars, contextVars, sourceVars,
           SignalsRetired, TypeOK
  <1>10. ASSUME NEW p \in Threads, PutContext(p) PROVE SignalsRetired'
    BY <1>10, <1>a, <1>b, <1>c, KgslSyncAssumption
       DEF PutContext, Goto, Return, fenceVars, sourceVars, SignalsRetired, TypeOK
  <1>11. ASSUME NEW p \in Threads, kgsl_sync_cancel(p) PROVE SignalsRetired'
    BY <1>11, <1>a, <1>b, <1>c, KgslSyncAssumption
       DEF kgsl_sync_cancel, Goto, contextVars, SignalsRetired, TypeOK
  <1>12. ASSUME NEW p \in Threads, fput(p) PROVE SignalsRetired'
    BY <1>12, <1>a, <1>b, <1>c, KgslSyncAssumption
       DEF fput, Return, contextVars, Goto, SignalsRetired, TypeOK
  <1>13. ASSUME NEW p \in Threads, ValueStrPuts(p) PROVE SignalsRetired'
    BY <1>13, <1>a, <1>b, <1>c, KgslSyncAssumption
       DEF ValueStrPuts, Goto, fenceVars, sourceVars, SignalsRetired, TypeOK
  <1>14. ASSUME NEW p \in Threads, kgsl_sync_timeline_put(p) PROVE SignalsRetired'
    BY <1>14, <1>a, <1>b, <1>c, KgslSyncAssumption
       DEF kgsl_sync_timeline_put, Goto, fenceVars, contextVars, sourceVars,
           SignalsRetired, TypeOK
  <1>15. ASSUME NEW p \in Threads, Unref(p) PROVE SignalsRetired'
    BY <1>15, <1>a, <1>b, <1>c, KgslSyncAssumption
       DEF Unref, Return, contextVars, Goto, SignalsRetired, TypeOK
  <1>16. ASSUME NEW p \in Threads, CreateSourceFence(p) PROVE SignalsRetired'
    BY <1>16, <1>a, <1>b, <1>c, KgslSyncAssumption
       DEF CreateSourceFence, Goto, timelineVars, contextVars, sourceVars,
           SignalsRetired, TypeOK
  <1>17. ASSUME NEW p \in Threads, SourceFd(p) PROVE SignalsRetired'
    BY <1>17, <1>a, <1>b, <1>c, KgslSyncAssumption
       DEF SourceFd, Goto, timelineVars, contextVars, sourceVars,
           SignalsRetired, TypeOK
  <1>18. ASSUME NEW p \in Threads, SourceList(p) PROVE SignalsRetired'
    BY <1>18, <1>a, <1>b, <1>c, KgslSyncAssumption
       DEF SourceList, Goto, fenceVars, timelineVars, contextVars,
           SignalsRetired, TypeOK
  <1>19. ASSUME NEW p \in Threads, SourceFail(p) PROVE SignalsRetired'
    BY <1>19, <1>a, <1>b, <1>c, KgslSyncAssumption
       DEF SourceFail, Goto, contextVars, SignalsRetired,
           TypeOK
  <1>20. ASSUME NEW p \in Threads, SignalSource(p) PROVE SignalsRetired'
    BY <1>20, <1>a, <1>b, <1>c, KgslSyncAssumption
       DEF SignalSource, Goto, kgsl_syncsource_signal, timelineVars,
           contextVars, SignalsRetired, TypeOK, FenceStates
  <1>21. ASSUME NEW p \in Threads, SignalPutsFence(p) PROVE SignalsRetired'
    BY <1>21, <1>a, <1>b, <1>c, KgslSyncAssumption
       DEF SignalPutsFence, Goto, contextVars, SignalsRetired, TypeOK
  <1>22. ASSUME NEW p \in Threads, kgsl_syncsource_put(p) PROVE SignalsRetired'
    BY <1>22, <1>a, <1>b, <1>c, KgslSyncAssumption
       DEF kgsl_syncsource_put, Return, fenceVars, timelineVars,
           contextVars, Goto, SignalsRetired, TypeOK
  <1>23. ASSUME NEW f \in Fences, kgsl_sync_fence_event_cb(f) PROVE SignalsRetired'
    BY <1>23, <1>a, <1>b, <1>c, KgslSyncAssumption
       DEF kgsl_sync_fence_event_cb, kgsl_sync_timeline_signal, contextVars,
           threadVars, SignalsRetired, TypeOK, FenceStates
  <1>24. ASSUME NEW f \in Fences, _kgsl_event_worker(f) PROVE SignalsRetired'
    BY <1>24, <1>a, <1>b, <1>c, KgslSyncAssumption
       DEF _kgsl_event_worker, sourceVars, threadVars, SignalsRetired, TypeOK
  <1>25. ASSUME NEW f \in Fences, kgsl_sync_fence_callback(f) PROVE SignalsRetired'
    BY <1>25, <1>a, <1>b, <1>c, KgslSyncAssumption
       DEF kgsl_sync_fence_callback, WaitEnds, contextVars, threadVars,
           SignalsRetired, TypeOK
  <1>26. ASSUME NEW f \in Fences, kgsl_syncsource_fence_release(f)
        PROVE  SignalsRetired'
    BY <1>26, <1>a, <1>b, <1>c, KgslSyncAssumption
       DEF kgsl_syncsource_fence_release, kgsl_syncsource_signal, timelineVars,
           contextVars, threadVars, SignalsRetired, TypeOK, FenceStates
  <1>27. ASSUME NEW f \in Fences, FreeSourceFence(f) PROVE SignalsRetired'
    BY <1>27, <1>a, <1>b, <1>c, KgslSyncAssumption
       DEF FreeSourceFence, timelineVars, contextVars, threadVars,
           SignalsRetired, TypeOK
  <1>28. ASSUME NEW f \in Fences, close(f) PROVE SignalsRetired'
    BY <1>28, <1>a, <1>b, <1>c, KgslSyncAssumption
       DEF close, contextVars, threadVars, SignalsRetired, TypeOK
  <1>29. ASSUME NEW f \in Fences, kgsl_sync_fence_async_wait(f)
        PROVE  SignalsRetired'
    BY <1>29, <1>a, <1>b, <1>c, KgslSyncAssumption
       DEF kgsl_sync_fence_async_wait, timelineVars, contextVars,
           sourceVars, threadVars, SignalsRetired, TypeOK
  <1>30. ASSUME NEW f \in Fences, kgsl_sync_fence_async_cancel(f)
        PROVE  SignalsRetired'
    BY <1>30, <1>a, <1>b, <1>c, KgslSyncAssumption
       DEF kgsl_sync_fence_async_cancel, WaitEnds, contextVars, threadVars,
           SignalsRetired, TypeOK
  <1>31. CASE kgsl_process_event_groups
    BY <1>31, <1>a, <1>b, <1>c, KgslSyncAssumption
       DEF kgsl_process_event_groups, timelineVars, contextVars, sourceVars,
           threadVars, SignalsRetired, TypeOK
  <1>32. CASE GpuRetire
    BY <1>32, <1>a, <1>b, <1>c, KgslSyncAssumption
       DEF GpuRetire, fenceVars, timelineVars, sourceVars, threadVars,
           SignalsRetired, TypeOK
  <1>33. CASE FaultInvalidate
    <2>1. \A f \in Fences : event'[f] \in {"retired", "cancelled"} =>
            event'[f] = event[f] \/ ts[f] \in OverTs'
      <3> DEFINE F == {f \in Fences : event[f] = "listed" /\ queued < ts[f]}
      <3>1. /\ SignalEvents(F) /\ Ended' /\ Forced' /\ queued' = queued
            /\ F \in SUBSET Fences
        BY <1>33 DEF FaultInvalidate, adreno_drawctxt_invalidate, Ended, Forced
      <3>2. \A f \in Fences : event[f] = "listed" /\ f \notin F => ts[f] <= queued /\ Forced'
        BY <3>1, KgslSyncAssumption DEF TypeOK
      <3> HIDE DEF F
      <3>3. QED
        BY <3>1, <3>2, SignalEventsOver
    <2>2. QED
      BY <1>33, <1>a, <2>1
         DEF FaultInvalidate, timelineVars, sourceVars, threadVars, SignalsRetired
  <1>34. CASE kgsl_context_detach
    BY <1>34, <1>a, <1>b, <1>c, KgslSyncAssumption
       DEF kgsl_context_detach, fenceVars, timelineVars, sourceVars,
           threadVars, SignalsRetired, TypeOK, FenceStates
  <1>35. CASE gen7_hwsched_context_detach
    <2>1. \A f \in Fences : event'[f] \in {"retired", "cancelled"} =>
            event'[f] = event[f] \/ ts[f] \in OverTs'
      <3> DEFINE F == {f \in Fences : event[f] = "listed" /\ queued < ts[f]}
      <3>1. event' = event \/ adreno_drawctxt_invalidate
        BY <1>35 DEF gen7_hwsched_context_detach
      <3>2. CASE adreno_drawctxt_invalidate
        <4>1. /\ SignalEvents(F) /\ Ended' /\ Forced' /\ queued' = queued
              /\ F \in SUBSET Fences
          BY <1>35, <3>2
             DEF gen7_hwsched_context_detach, adreno_drawctxt_invalidate, Ended,
                 Forced
        <4>2. \A f \in Fences : event[f] = "listed" /\ f \notin F => ts[f] <= queued /\ Forced'
          BY <4>1, KgslSyncAssumption DEF TypeOK
        <4> HIDE DEF F
        <4>3. QED
          BY <4>1, <4>2, SignalEventsOver
      <3>3. QED
        BY <3>1, <3>2
    <2>2. QED
      BY <1>35, <1>a, <2>1
         DEF gen7_hwsched_context_detach, timelineVars, sourceVars, threadVars,
             SignalsRetired
  <1>36. CASE kgsl_cancel_events
    <2>1. \A f \in Fences : event'[f] \in {"retired", "cancelled"} =>
            event'[f] = event[f] \/ ts[f] \in OverTs'
      <3> DEFINE F == {f \in Fences : event[f] = "listed"}
      <3>1. /\ SignalEvents(F) /\ Ended' /\ queued' = queued /\ F \in SUBSET Fences
            /\ \A f \in Fences : event[f] = "listed" => f \in F
        BY <1>36 DEF kgsl_cancel_events, Ended
      <3> HIDE DEF F
      <3>2. QED
        BY <3>1, SignalEventsOver
    <2>2. QED
      BY <1>36, <1>a, <2>1
         DEF kgsl_cancel_events, timelineVars, sourceVars, threadVars,
             SignalsRetired
  <1>37. CASE kgsl_sync_timeline_detach
    BY <1>37, <1>a, <1>b, <1>c, KgslSyncAssumption
       DEF kgsl_sync_timeline_detach, fenceVars, sourceVars, threadVars,
           SignalsRetired, TypeOK
  <1>38. CASE DetachPuts
    BY <1>38, <1>a, <1>b, <1>c, KgslSyncAssumption
       DEF DetachPuts, fenceVars, sourceVars, threadVars, SignalsRetired, TypeOK
  <1>39. CASE kgsl_ioctl_syncsource_create
    BY <1>39, <1>a, <1>b, <1>c, KgslSyncAssumption
       DEF kgsl_ioctl_syncsource_create, OneAfterTheOther, fenceVars,
           timelineVars, contextVars, threadVars, SignalsRetired, TypeOK
  <1>40. CASE kgsl_ioctl_syncsource_destroy
    BY <1>40, <1>a, <1>b, <1>c, KgslSyncAssumption
       DEF kgsl_ioctl_syncsource_destroy, fenceVars, timelineVars,
           contextVars, threadVars, SignalsRetired, TypeOK
  <1>41. CASE kgsl_syncsource_cleanup
    BY <1>41, <1>a, <1>b, <1>c, KgslSyncAssumption
       DEF kgsl_syncsource_cleanup, timelineVars, contextVars, threadVars,
           SignalsRetired, TypeOK, FenceStates
  <1>42. CASE CleanupPuts
    BY <1>42, <1>a, <1>b, <1>c, KgslSyncAssumption
       DEF CleanupPuts, fenceVars, timelineVars, contextVars, threadVars,
           SignalsRetired, TypeOK
  <1>43. CASE UNCHANGED vars
    BY <1>43, <1>a
       DEF vars, fenceVars, timelineVars, contextVars, sourceVars,
           threadVars, SignalsRetired
  <1>44. CASE Submit
    BY <1>44, <1>a, <1>b, <1>c, KgslSyncAssumption
       DEF Submit, fenceVars, timelineVars, sourceVars, threadVars,
           SignalsRetired, TypeOK
  <1>45. ASSUME NEW f \in Fences, Poll(f)
        PROVE  SignalsRetired'
    BY <1>45, <1>a, <1>b, <1>c, KgslSyncAssumption
       DEF Poll, kgsl_sync_fence_has_signaled, timelineVars, contextVars,
           sourceVars, threadVars, SignalsRetired, TypeOK
  <1>46. QED
    BY <1>1, <1>2, <1>3, <1>4, <1>5, <1>6, <1>7, <1>8, <1>9, <1>10, <1>11,
       <1>12, <1>13, <1>14, <1>15, <1>16, <1>17, <1>18, <1>19, <1>20, <1>21, <1>22,
       <1>23, <1>24, <1>25, <1>26, <1>27, <1>28, <1>29, <1>30, <1>31, <1>32, <1>33,
       <1>34, <1>35, <1>36, <1>37, <1>38, <1>39, <1>40, <1>41, <1>42, <1>43, <1>44,
       <1>45
       DEF Next, Call, ThreadStep, FenceStep, UserStep, DetachStep,
           CleanupStep


\* kgsl_sync_timeline_signal passes over no fence.
LEMMA SignalCovers ==
    ASSUME TypeOK, NEW t \in 0 .. MaxTs, kgsl_sync_timeline_signal(t), ts' = ts,
           Hopeless \subseteq Hopeless', NEW f \in Fences
    PROVE  /\ Covered(f) => Covered(f)'
           /\ Sought(f) => Sought(f)'
           /\ signaled[f] \/ f \in children => signaled'[f] \/ f \in children'
           /\ (signaled[f] \/ f \in children) /\ t >= ts[f] => signaled'[f]
  <1> DEFINE now == IF t > last THEN t ELSE last
             done == {g \in children : signaled[g] \/ now >= ts[g]}
  <1>1. /\ last' = now /\ children' = children \ done
        /\ signaled' = [g \in Fences |-> signaled[g] \/ g \in done]
    BY DEF kgsl_sync_timeline_signal
  <1>2. now \in Nat /\ now >= t /\ now >= last /\ ts[f] \in Nat /\ last \in Nat
    BY KgslSyncAssumption DEF TypeOK
  <1>3. signaled'[f] <=> signaled[f] \/ f \in done
    BY <1>1 DEF TypeOK
  <1>4. (Covered(f) => Covered(f)') /\ (Sought(f) => Sought(f)')
    BY <1>1, <1>2, <1>3 DEF Covered, Sought
  <1>5. QED
    BY <1>1, <1>2, <1>3, <1>4


\* No fence is passed over.
LEMMA MissedStep ==
    ASSUME TypeOK, ThreadFences, FenceStates, ZeroIsDead, FenceCount,
           SignalsRetired, NoneMissed, [Next]_vars
    PROVE  NoneMissed'
  <1>a. KindOutcome
    BY KindStep
  <1>b. \A f \in Fences :
          /\ f \in children' \/ file'[f] \in {"kernel", "fd"} \/ waiter'[f] => ref'[f] > 0
          /\ \A p \in Threads : pc'[p] \in HoldsFence /\ fen'[p] = f => ref'[f] > 0
    BY FenceCountStep, HoldersCountedNext
  <1>c. \A f \in Fences : ref'[f] > 0 =>
          kind'[f] = kind[f] \/ (kind[f] = "unborn" /\ kind'[f] \in {"timeline", "source"})
    BY <1>a DEF KindOutcome, KindChange, ZeroIsDead, Kinds
  <1>d. \A f \in Fences : kind[f] = "unborn" =>
          f \notin children /\ file[f] \notin {"kernel", "fd"} /\ ~waiter[f]
    BY HoldersCounted DEF ZeroIsDead
  <1>e. \A p \in Threads : pc[p] \in HoldsFence => kind[fen[p]] # "unborn"
    BY HoldersCounted DEF ZeroIsDead, ThreadFences
  <1>f. Hopeless \subseteq Hopeless'
    BY HopelessGrows DEF SignalsRetired
  <1>g. \A f \in Fences : retired < ts[f] => last < ts[f] \/ f \in Hopeless
    BY Behind
  <1>1. ASSUME NEW p \in Threads, kgsl_context_get_owner(p) PROVE NoneMissed'
    BY <1>1, <1>b, <1>c, <1>d, <1>e, <1>f, <1>g
       DEF kgsl_context_get_owner, Goto, fenceVars, timelineVars, sourceVars,
           NoneMissed, Covered, Sought, ThreadFences, Makes, MakesTimeline,
           TypeOK, SignalsRetired
  <1>2. ASSUME NEW p \in Threads, kgsl_syncsource_get(p) PROVE NoneMissed'
    BY <1>2, <1>b, <1>c, <1>d, <1>e, <1>f, <1>g
       DEF kgsl_syncsource_get, Goto, fenceVars, timelineVars, contextVars,
           NoneMissed, Covered, Sought, ThreadFences, Makes, MakesTimeline,
           TypeOK, SignalsRetired
  <1>3. ASSUME NEW p \in Threads, NEW f \in Fences, kgsl_sync_timeline_value_str(p, f)
        PROVE  NoneMissed'
    BY <1>3, <1>b, <1>c, <1>d, <1>e, <1>f, <1>g
       DEF kgsl_sync_timeline_value_str, Goto, sourceVars, NoneMissed, Covered,
           Sought, ThreadFences, Makes, MakesTimeline, TypeOK, SignalsRetired
  <1>4. ASSUME NEW p \in Threads, NEW f \in Fences, kgsl_ioctl_syncsource_signal_fence(p, f)
        PROVE  NoneMissed'
    BY <1>4, <1>b, <1>c, <1>d, <1>e, <1>f, <1>g
       DEF kgsl_ioctl_syncsource_signal_fence, Goto, timelineVars, contextVars,
           NoneMissed, Covered, Sought, ThreadFences, Makes, MakesTimeline,
           TypeOK, SignalsRetired
  <1>5. ASSUME NEW p \in Threads, kgsl_sync_fence_create(p) PROVE NoneMissed'
    <2>1. /\ pc[p] = "create" /\ UNCHANGED <<signaled, waiter, last, cur>>
          /\ UNCHANGED contextVars
          /\ children \subseteq children'
      BY <1>5 DEF kgsl_sync_fence_create
    <2>2. CASE /\ Goto(p, "put")
               /\ UNCHANGED <<kind, ts, ref, file, children, tref, fen>>
      BY <2>1, <2>2, <1>f
         DEF Goto, NoneMissed, Covered, Sought, TypeOK
    <2>3. ASSUME NEW f \in Fences, NEW t \in 1 .. MaxTs,
                 kind[f] = "unborn",
                 kind' = [kind EXCEPT ![f] = "timeline"],
                 ts' = [ts EXCEPT ![f] = t],
                 file' = [file EXCEPT ![f] = "kernel"],
                 children' = children \cup {f},
                 fen' = [fen EXCEPT ![p] = f], Goto(p, "fd")
          PROVE  NoneMissed'
      <3>1. \A g \in Fences \ {f} :
              /\ (Covered(g) => Covered(g)') /\ (Sought(g) => Sought(g)')
              /\ kind'[g] = kind[g] /\ file'[g] = file[g] /\ ts'[g] = ts[g]
        BY <2>1, <2>3, <1>f DEF Covered, Sought, TypeOK
      <3>2. ~waiter[f] /\ file'[f] = "kernel" /\ f \in children'
        BY <2>3, <1>d DEF TypeOK
      <3>3. \A q \in Threads \ {p} : pc'[q] = pc[q] /\ fen'[q] = fen[q]
        BY <2>3 DEF Goto, TypeOK
      <3>4. pc'[p] = "fd" /\ fen'[p] = f
        BY <2>3 DEF Goto, TypeOK
      <3>5. \A q \in Threads \ {p} : pc[q] \in {"fd", "signal", "event", "copy"} =>
              fen[q] \in Fences \ {f}
        BY <2>3 DEF ThreadFences, Makes, MakesTimeline
      <3>6. /\ \A g \in Fences : kind'[g] = "timeline" /\ file'[g] = "fd" => Covered(g)'
            /\ \A g \in Fences : kind'[g] = "timeline" /\ waiter'[g] => Sought(g)'
            /\ \A g \in Fences : waiter'[g] => file'[g] \in {"fd", "closed"}
        BY <2>1, <3>1, <3>2 DEF NoneMissed
      <3>7. /\ \A q \in Threads : pc'[q] \in {"event", "copy"} => Covered(fen[q])'
            /\ \A q \in Threads : pc'[q] \in {"fd", "signal"} =>
                  signaled'[fen'[q]] \/ fen'[q] \in children'
            /\ \A q \in Threads : pc'[q] = "signal" => cur'[q] >= ts'[fen'[q]]
        <4>1. ASSUME NEW q \in Threads \ {p}
              PROVE  /\ pc'[q] \in {"event", "copy"} => Covered(fen[q])'
                     /\ pc'[q] \in {"fd", "signal"} =>
                          signaled'[fen'[q]] \/ fen'[q] \in children'
                     /\ pc'[q] = "signal" => cur'[q] >= ts'[fen'[q]]
          <5>1. CASE pc[q] \in {"event", "copy"}
            <6>1. Covered(fen[q]) /\ fen[q] \in Fences \ {f} /\ fen'[q] = fen[q]
              BY <3>3, <3>5, <5>1 DEF NoneMissed
            <6>2. Covered(fen[q])'
              BY <2>1, <2>3, <1>f, <6>1 DEF Covered, TypeOK
            <6>3. QED
              BY <3>3, <5>1, <6>2
          <5>2. CASE pc[q] \notin {"event", "copy"}
            BY <2>1, <3>1, <3>3, <3>5, <5>2 DEF NoneMissed
          <5>3. QED
            BY <5>1, <5>2
        <4>2. QED
          BY <3>2, <3>4, <4>1
      <3>8. QED
        BY <3>6, <3>7 DEF NoneMissed
    <2>4. QED
      BY <1>5, <2>2, <2>3 DEF kgsl_sync_fence_create
  <1>6. ASSUME NEW p \in Threads, kgsl_readtimestamp(p) PROVE NoneMissed'
    BY <1>6, <1>b, <1>c, <1>d, <1>e, <1>f, <1>g
       DEF kgsl_readtimestamp, Goto, fenceVars, timelineVars, contextVars,
           sourceVars, NoneMissed, Covered, Sought, ThreadFences, Makes,
           MakesTimeline, TypeOK, SignalsRetired
  <1>7. ASSUME NEW p \in Threads, SignalRetired(p) PROVE NoneMissed'
    <2>1. \A g \in Fences :
            /\ Covered(g) => Covered(g)'
            /\ Sought(g) => Sought(g)'
            /\ signaled[g] \/ g \in children => signaled'[g] \/ g \in children'
            /\ (signaled[g] \/ g \in children) /\ cur[p] >= ts[g] => signaled'[g]
      BY <1>7, <1>f, SignalCovers DEF SignalRetired, TypeOK
    <2>2. \A g \in Fences : file'[g] = "fd" \/ waiter'[g] => kind'[g] = kind[g]
      BY <1>7, <1>b, <1>c, <1>d DEF SignalRetired
    <2>3. UNCHANGED <<ts, file, waiter, fen>> /\ pc' = [pc EXCEPT ![p] = "copy"]
          /\ cur' = [cur EXCEPT ![p] = 0]
      BY <1>7 DEF SignalRetired, Goto
    <2>4. signaled'[fen[p]]
      BY <1>7, <2>1 DEF SignalRetired, NoneMissed, ThreadFences, Makes
    <2>5. \A q \in Threads : pc[q] \in {"fd", "signal", "event", "copy"} => fen[q] \in Fences
      BY DEF ThreadFences, Makes
    <2>6. /\ \A g \in Fences : kind'[g] = "timeline" /\ file'[g] = "fd" => Covered(g)'
          /\ \A g \in Fences : kind'[g] = "timeline" /\ waiter'[g] => Sought(g)'
          /\ \A q \in Threads : pc'[q] \in {"event", "copy"} => Covered(fen[q])'
      <3>1. Covered(fen[p])'
        BY <2>3, <2>4 DEF Covered
      <3>2. QED
        BY <2>1, <2>2, <2>3, <2>5, <3>1 DEF NoneMissed, TypeOK
    <2>7. QED
      BY <1>7, <2>1, <2>3, <2>5, <2>6 DEF SignalRetired, NoneMissed, TypeOK
  <1>8. ASSUME NEW p \in Threads, _add_fence_event(p) PROVE NoneMissed'
    BY <1>8, <1>b, <1>c, <1>d, <1>e, <1>f, <1>g
       DEF _add_fence_event, Goto, timelineVars, sourceVars, NoneMissed,
           Covered, Sought, ThreadFences, Makes, MakesTimeline, TypeOK,
           SignalsRetired
  <1>9. ASSUME NEW p \in Threads, fd_install(p) PROVE NoneMissed'
    BY <1>9, <1>b, <1>c, <1>d, <1>e, <1>f, <1>g
       DEF fd_install, Goto, timelineVars, contextVars, sourceVars, NoneMissed,
           Covered, Sought, ThreadFences, Makes, MakesTimeline, TypeOK,
           SignalsRetired
  <1>10. ASSUME NEW p \in Threads, PutContext(p) PROVE NoneMissed'
    BY <1>10, <1>b, <1>c, <1>d, <1>e, <1>f, <1>g
       DEF PutContext, Goto, Return, fenceVars, sourceVars, NoneMissed, Covered,
           Sought, ThreadFences, Makes, MakesTimeline, TypeOK, SignalsRetired
  <1>11. ASSUME NEW p \in Threads, kgsl_sync_cancel(p) PROVE NoneMissed'
    BY <1>11, <1>b, <1>c, <1>d, <1>e, <1>f, <1>g
       DEF kgsl_sync_cancel, Goto, contextVars, NoneMissed, Covered, Sought,
           ThreadFences, Makes, MakesTimeline, TypeOK, SignalsRetired
  <1>12. ASSUME NEW p \in Threads, fput(p) PROVE NoneMissed'
    BY <1>12, <1>b, <1>c, <1>d, <1>e, <1>f, <1>g
       DEF fput, Return, contextVars, Goto, NoneMissed, Covered, Sought,
           ThreadFences, Makes, MakesTimeline, TypeOK, SignalsRetired
  <1>13. ASSUME NEW p \in Threads, ValueStrPuts(p) PROVE NoneMissed'
    BY <1>13, <1>b, <1>c, <1>d, <1>e, <1>f, <1>g
       DEF ValueStrPuts, Goto, fenceVars, sourceVars, NoneMissed, Covered, Sought,
           ThreadFences, Makes, MakesTimeline, TypeOK, SignalsRetired
  <1>14. ASSUME NEW p \in Threads, kgsl_sync_timeline_put(p) PROVE NoneMissed'
    BY <1>14, <1>b, <1>c, <1>d, <1>e, <1>f, <1>g
       DEF kgsl_sync_timeline_put, Goto, fenceVars, contextVars, sourceVars,
           NoneMissed, Covered, Sought, ThreadFences, Makes, MakesTimeline,
           TypeOK, SignalsRetired
  <1>15. ASSUME NEW p \in Threads, Unref(p) PROVE NoneMissed'
    BY <1>15, <1>b, <1>c, <1>d, <1>e, <1>f, <1>g
       DEF Unref, Return, contextVars, Goto, NoneMissed, Covered, Sought,
           ThreadFences, Makes, MakesTimeline, TypeOK, SignalsRetired
  <1>16. ASSUME NEW p \in Threads, CreateSourceFence(p) PROVE NoneMissed'
    BY <1>16, <1>b, <1>c, <1>d, <1>e, <1>f, <1>g
       DEF CreateSourceFence, Goto, timelineVars, contextVars, sourceVars,
           NoneMissed, Covered, Sought, ThreadFences, Makes, MakesTimeline,
           TypeOK, SignalsRetired
  <1>17. ASSUME NEW p \in Threads, SourceFd(p) PROVE NoneMissed'
    BY <1>17, <1>b, <1>c, <1>d, <1>e, <1>f, <1>g
       DEF SourceFd, Goto, timelineVars, contextVars, sourceVars, NoneMissed,
           Covered, Sought, ThreadFences, Makes, MakesTimeline, TypeOK,
           SignalsRetired
  <1>18. ASSUME NEW p \in Threads, SourceList(p) PROVE NoneMissed'
    BY <1>18, <1>b, <1>c, <1>d, <1>e, <1>f, <1>g
       DEF SourceList, Goto, fenceVars, timelineVars, contextVars, NoneMissed,
           Covered, Sought, ThreadFences, Makes, MakesTimeline, TypeOK,
           SignalsRetired
  <1>19. ASSUME NEW p \in Threads, SourceFail(p) PROVE NoneMissed'
    BY <1>19, <1>b, <1>c, <1>d, <1>e, <1>f, <1>g
       DEF SourceFail, Goto, contextVars, NoneMissed, Covered, Sought,
           ThreadFences, Makes, MakesTimeline, TypeOK, SignalsRetired
  <1>20. ASSUME NEW p \in Threads, SignalSource(p) PROVE NoneMissed'
    BY <1>20, <1>b, <1>c, <1>d, <1>e, <1>f, <1>g
       DEF SignalSource, Goto, kgsl_syncsource_signal, timelineVars,
           contextVars, NoneMissed, Covered, Sought, ThreadFences, Makes,
           MakesTimeline, TypeOK, SignalsRetired
  <1>21. ASSUME NEW p \in Threads, SignalPutsFence(p) PROVE NoneMissed'
    BY <1>21, <1>b, <1>c, <1>d, <1>e, <1>f, <1>g
       DEF SignalPutsFence, Goto, contextVars, NoneMissed, Covered, Sought,
           ThreadFences, Makes, MakesTimeline, TypeOK, SignalsRetired
  <1>22. ASSUME NEW p \in Threads, kgsl_syncsource_put(p) PROVE NoneMissed'
    BY <1>22, <1>b, <1>c, <1>d, <1>e, <1>f, <1>g
       DEF kgsl_syncsource_put, Return, fenceVars, timelineVars,
           contextVars, Goto, NoneMissed, Covered, Sought, ThreadFences, Makes,
           MakesTimeline, TypeOK, SignalsRetired
  <1>23. ASSUME NEW f \in Fences, kgsl_sync_fence_event_cb(f) PROVE NoneMissed'
    <2>1. \A g \in Fences :
            /\ Covered(g) => Covered(g)'
            /\ Sought(g) => Sought(g)'
            /\ signaled[g] \/ g \in children => signaled'[g] \/ g \in children'
      BY <1>23, <1>f, SignalCovers DEF kgsl_sync_fence_event_cb, TypeOK
    <2>2. \A g \in Fences : file'[g] = "fd" \/ waiter'[g] => kind'[g] = kind[g]
      BY <1>23, <1>b, <1>c, <1>d DEF kgsl_sync_fence_event_cb
    <2>3. UNCHANGED <<ts, file, waiter, pc, fen, cur>>
      BY <1>23 DEF kgsl_sync_fence_event_cb, threadVars
    <2>4. \A q \in Threads : pc[q] \in {"fd", "signal", "event", "copy"} => fen[q] \in Fences
      BY DEF ThreadFences, Makes
    <2>5. QED
      BY <2>1, <2>2, <2>3, <2>4 DEF NoneMissed, Covered, Sought
  <1>24. ASSUME NEW f \in Fences, _kgsl_event_worker(f) PROVE NoneMissed'
    BY <1>24, <1>b, <1>c, <1>d, <1>e, <1>f, <1>g
       DEF _kgsl_event_worker, sourceVars, threadVars, NoneMissed, Covered,
           Sought, ThreadFences, Makes, MakesTimeline, TypeOK, SignalsRetired
  <1>25. ASSUME NEW f \in Fences, kgsl_sync_fence_callback(f) PROVE NoneMissed'
    BY <1>25, <1>b, <1>c, <1>d, <1>e, <1>f, <1>g
       DEF kgsl_sync_fence_callback, WaitEnds, contextVars, threadVars,
           NoneMissed, Covered, Sought, ThreadFences, Makes, MakesTimeline,
           TypeOK, SignalsRetired
  <1>26. ASSUME NEW f \in Fences, kgsl_syncsource_fence_release(f) PROVE NoneMissed'
    BY <1>26, <1>b, <1>c, <1>d, <1>e, <1>f, <1>g
       DEF kgsl_syncsource_fence_release, kgsl_syncsource_signal,
           timelineVars, contextVars, threadVars, NoneMissed, Covered, Sought,
           ThreadFences, Makes, MakesTimeline, TypeOK, SignalsRetired
  <1>27. ASSUME NEW f \in Fences, FreeSourceFence(f) PROVE NoneMissed'
    BY <1>27, <1>b, <1>c, <1>d, <1>e, <1>f, <1>g
       DEF FreeSourceFence, timelineVars, contextVars, threadVars, NoneMissed,
           Covered, Sought, ThreadFences, Makes, MakesTimeline, TypeOK,
           SignalsRetired
  <1>28. ASSUME NEW f \in Fences, close(f) PROVE NoneMissed'
    BY <1>28, <1>b, <1>c, <1>d, <1>e, <1>f, <1>g
       DEF close, contextVars, threadVars, NoneMissed, Covered, Sought,
           ThreadFences, Makes, MakesTimeline, TypeOK, SignalsRetired
  <1>29. ASSUME NEW f \in Fences, kgsl_sync_fence_async_wait(f) PROVE NoneMissed'
    BY <1>29, <1>b, <1>c, <1>d, <1>e, <1>f, <1>g
       DEF kgsl_sync_fence_async_wait, kgsl_sync_fence_has_signaled,
           timelineVars, contextVars, sourceVars, threadVars, NoneMissed,
           Covered, Sought, ThreadFences, Makes, MakesTimeline, TypeOK,
           SignalsRetired
  <1>30. ASSUME NEW f \in Fences, kgsl_sync_fence_async_cancel(f) PROVE NoneMissed'
    BY <1>30, <1>b, <1>c, <1>d, <1>e, <1>f, <1>g
       DEF kgsl_sync_fence_async_cancel, WaitEnds, contextVars, threadVars,
           NoneMissed, Covered, Sought, ThreadFences, Makes, MakesTimeline,
           TypeOK, SignalsRetired
  <1>31. CASE kgsl_process_event_groups
    BY <1>31, <1>b, <1>c, <1>d, <1>e, <1>f, <1>g
       DEF kgsl_process_event_groups, timelineVars, contextVars, sourceVars,
           threadVars, NoneMissed, Covered, Sought, ThreadFences, Makes,
           MakesTimeline, TypeOK, SignalsRetired
  <1>32. CASE GpuRetire
    BY <1>32, <1>b, <1>c, <1>d, <1>e, <1>f, <1>g
       DEF GpuRetire, fenceVars, timelineVars, sourceVars, threadVars,
           NoneMissed, Covered, Sought, ThreadFences, Makes, MakesTimeline,
           TypeOK, SignalsRetired
  <1>33. CASE FaultInvalidate
    BY <1>33, <1>b, <1>c, <1>d, <1>e, <1>f, <1>g
       DEF FaultInvalidate, adreno_drawctxt_invalidate, SignalEvents, fenceVars,
           timelineVars, sourceVars, threadVars, NoneMissed, Covered, Sought,
           ThreadFences, Makes, MakesTimeline, TypeOK, SignalsRetired
  <1>34. CASE kgsl_context_detach
    BY <1>34, <1>b, <1>c, <1>d, <1>e, <1>f, <1>g
       DEF kgsl_context_detach, fenceVars, timelineVars, sourceVars, threadVars,
           NoneMissed, Covered, Sought, ThreadFences, Makes, MakesTimeline,
           TypeOK, SignalsRetired
  <1>35. CASE gen7_hwsched_context_detach
    BY <1>35, <1>b, <1>c, <1>d, <1>e, <1>f, <1>g
       DEF gen7_hwsched_context_detach, adreno_drawctxt_invalidate,
           SignalEvents, fenceVars, timelineVars, sourceVars, threadVars,
           NoneMissed, Covered, Sought, ThreadFences, Makes, MakesTimeline,
           TypeOK, SignalsRetired
  <1>36. CASE kgsl_cancel_events
    BY <1>36, <1>b, <1>c, <1>d, <1>e, <1>f, <1>g
       DEF kgsl_cancel_events, SignalEvents, timelineVars, sourceVars,
           threadVars, NoneMissed, Covered, Sought, ThreadFences, Makes,
           MakesTimeline, TypeOK, SignalsRetired
  <1>37. CASE kgsl_sync_timeline_detach
    BY <1>37, <1>b, <1>c, <1>d, <1>e, <1>f, <1>g
       DEF kgsl_sync_timeline_detach, fenceVars, sourceVars, threadVars,
           NoneMissed, Covered, Sought, ThreadFences, Makes, MakesTimeline,
           TypeOK, SignalsRetired
  <1>38. CASE DetachPuts
    BY <1>38, <1>b, <1>c, <1>d, <1>e, <1>f, <1>g
       DEF DetachPuts, fenceVars, sourceVars, threadVars, NoneMissed, Covered,
           Sought, ThreadFences, Makes, MakesTimeline, TypeOK, SignalsRetired
  <1>39. CASE kgsl_ioctl_syncsource_create
    BY <1>39, <1>b, <1>c, <1>d, <1>e, <1>f, <1>g
       DEF kgsl_ioctl_syncsource_create, OneAfterTheOther, fenceVars,
           timelineVars, contextVars, threadVars, NoneMissed, Covered, Sought,
           ThreadFences, Makes, MakesTimeline, TypeOK, SignalsRetired,
           FenceStates
  <1>40. CASE kgsl_ioctl_syncsource_destroy
    BY <1>40, <1>b, <1>c, <1>d, <1>e, <1>f, <1>g
       DEF kgsl_ioctl_syncsource_destroy, fenceVars, timelineVars, contextVars,
           threadVars, NoneMissed, Covered, Sought, ThreadFences, Makes,
           MakesTimeline, TypeOK, SignalsRetired
  <1>41. CASE kgsl_syncsource_cleanup
    BY <1>41, <1>b, <1>c, <1>d, <1>e, <1>f, <1>g
       DEF kgsl_syncsource_cleanup, timelineVars, contextVars, threadVars,
           NoneMissed, Covered, Sought, ThreadFences, Makes, MakesTimeline,
           TypeOK, SignalsRetired
  <1>42. CASE CleanupPuts
    BY <1>42, <1>b, <1>c, <1>d, <1>e, <1>f, <1>g
       DEF CleanupPuts, fenceVars, timelineVars, contextVars, threadVars,
           NoneMissed, Covered, Sought, ThreadFences, Makes, MakesTimeline,
           TypeOK, SignalsRetired
  <1>43. CASE UNCHANGED vars
    BY <1>43, <1>f
       DEF vars, fenceVars, timelineVars, contextVars, sourceVars,
           threadVars, NoneMissed, Covered, Sought
  <1>44. CASE Submit
    BY <1>44, <1>b, <1>c, <1>d, <1>e, <1>f, <1>g
       DEF Submit, fenceVars, timelineVars, sourceVars, threadVars, NoneMissed,
           Covered, Sought, ThreadFences, Makes, MakesTimeline, TypeOK,
           SignalsRetired
  <1>45. ASSUME NEW f \in Fences, Poll(f) PROVE NoneMissed'
    BY <1>45, <1>b, <1>c, <1>d, <1>e, <1>f, <1>g
       DEF Poll, kgsl_sync_fence_has_signaled, timelineVars, contextVars,
           sourceVars, threadVars, NoneMissed, Covered, Sought, ThreadFences,
           Makes, MakesTimeline, TypeOK, SignalsRetired
  <1>46. QED
    BY <1>1, <1>2, <1>3, <1>4, <1>5, <1>6, <1>7, <1>8, <1>9, <1>10, <1>11,
       <1>12, <1>13, <1>14, <1>15, <1>16, <1>17, <1>18, <1>19, <1>20, <1>21, <1>22,
       <1>23, <1>24, <1>25, <1>26, <1>27, <1>28, <1>29, <1>30, <1>31, <1>32, <1>33,
       <1>34, <1>35, <1>36, <1>37, <1>38, <1>39, <1>40, <1>41, <1>42, <1>43, <1>44,
       <1>45
       DEF Next, Call, ThreadStep, FenceStep, UserStep, DetachStep,
           CleanupStep

\* A listed fence is expected to signal.
LEMMA ExpectedStep ==
    ASSUME TypeOK, ThreadFences, FenceStates, SignalsRetired, NoneMissed, AllExpected,
           [Next]_vars
    PROVE  AllExpected'
  <1>a. Hopeless \subseteq Hopeless'
    BY HopelessGrows DEF SignalsRetired
  <1>b. \A f \in Fences :
          retired < ts[f] /\ dpc \in {"cancelled", "timeline", "put"} => f \in Hopeless
    BY DEF SignalsRetired, ContextState, Hopeless, NeverRetires, Ended, TypeOK
  <1>1. ASSUME NEW p \in Threads, kgsl_context_get_owner(p) PROVE AllExpected'
    BY <1>1, <1>a, <1>b, KgslSyncAssumption
       DEF kgsl_context_get_owner, Goto, fenceVars, timelineVars,
           sourceVars, AllExpected, ThreadFences, Makes, TypeOK,
           SignalsRetired
  <1>2. ASSUME NEW p \in Threads, kgsl_syncsource_get(p) PROVE AllExpected'
    BY <1>2, <1>a, <1>b, KgslSyncAssumption
       DEF kgsl_syncsource_get, Goto, fenceVars, timelineVars, contextVars,
           AllExpected, ThreadFences, Makes, TypeOK, SignalsRetired
  <1>3. ASSUME NEW p \in Threads, NEW f \in Fences, kgsl_sync_timeline_value_str(p, f)
        PROVE  AllExpected'
    BY <1>3, <1>a, <1>b, KgslSyncAssumption
       DEF kgsl_sync_timeline_value_str, Goto, sourceVars, AllExpected,
           ThreadFences, Makes, TypeOK, SignalsRetired
  <1>4. ASSUME NEW p \in Threads, NEW f \in Fences, kgsl_ioctl_syncsource_signal_fence(p, f)
        PROVE  AllExpected'
    BY <1>4, <1>a, <1>b, KgslSyncAssumption
       DEF kgsl_ioctl_syncsource_signal_fence, Goto, timelineVars,
           contextVars, AllExpected, ThreadFences, Makes, TypeOK,
           SignalsRetired
  <1>5. ASSUME NEW p \in Threads, kgsl_sync_fence_create(p) PROVE AllExpected'
    BY <1>5, <1>a, <1>b, KgslSyncAssumption
       DEF kgsl_sync_fence_create, Goto, contextVars, sourceVars,
           AllExpected, ThreadFences, Makes, TypeOK, SignalsRetired
  <1>6. ASSUME NEW p \in Threads, kgsl_readtimestamp(p) PROVE AllExpected'
    BY <1>6, <1>a, <1>b, KgslSyncAssumption
       DEF kgsl_readtimestamp, Goto, fenceVars, timelineVars, contextVars,
           sourceVars, AllExpected, ThreadFences, Makes, TypeOK,
           SignalsRetired
  <1>7. ASSUME NEW p \in Threads, SignalRetired(p) PROVE AllExpected'
    BY <1>7, <1>a, <1>b, KgslSyncAssumption
       DEF SignalRetired, Goto, kgsl_sync_timeline_signal, contextVars,
           AllExpected, ThreadFences, Makes, TypeOK, SignalsRetired,
           NoneMissed
  <1>8. ASSUME NEW p \in Threads, _add_fence_event(p) PROVE AllExpected'
    BY <1>8, <1>a, <1>b, KgslSyncAssumption
       DEF _add_fence_event, Goto, timelineVars, sourceVars,
           AllExpected, ThreadFences, Makes, TypeOK, SignalsRetired
  <1>9. ASSUME NEW p \in Threads, fd_install(p) PROVE AllExpected'
    BY <1>9, <1>a, <1>b, KgslSyncAssumption
       DEF fd_install, Goto, timelineVars, contextVars, sourceVars,
           AllExpected, ThreadFences, Makes, TypeOK, SignalsRetired
  <1>10. ASSUME NEW p \in Threads, PutContext(p) PROVE AllExpected'
    BY <1>10, <1>a, <1>b, KgslSyncAssumption
       DEF PutContext, Goto, Return, fenceVars, sourceVars,
           AllExpected, ThreadFences, Makes, TypeOK, SignalsRetired
  <1>11. ASSUME NEW p \in Threads, kgsl_sync_cancel(p) PROVE AllExpected'
    BY <1>11, <1>a, <1>b, KgslSyncAssumption
       DEF kgsl_sync_cancel, Goto, contextVars, AllExpected,
           ThreadFences, Makes, TypeOK, SignalsRetired
  <1>12. ASSUME NEW p \in Threads, fput(p) PROVE AllExpected'
    BY <1>12, <1>a, <1>b, KgslSyncAssumption
       DEF fput, Return, contextVars, Goto, AllExpected, ThreadFences,
           Makes, TypeOK, SignalsRetired
  <1>13. ASSUME NEW p \in Threads, ValueStrPuts(p) PROVE AllExpected'
    BY <1>13, <1>a, <1>b, KgslSyncAssumption
       DEF ValueStrPuts, Goto, fenceVars, sourceVars, AllExpected,
           ThreadFences, Makes, TypeOK, SignalsRetired
  <1>14. ASSUME NEW p \in Threads, kgsl_sync_timeline_put(p) PROVE AllExpected'
    BY <1>14, <1>a, <1>b, KgslSyncAssumption
       DEF kgsl_sync_timeline_put, Goto, fenceVars, contextVars, sourceVars,
           AllExpected, ThreadFences, Makes, TypeOK, SignalsRetired
  <1>15. ASSUME NEW p \in Threads, Unref(p) PROVE AllExpected'
    BY <1>15, <1>a, <1>b, KgslSyncAssumption
       DEF Unref, Return, contextVars, Goto, AllExpected, ThreadFences,
           Makes, TypeOK, SignalsRetired
  <1>16. ASSUME NEW p \in Threads, CreateSourceFence(p) PROVE AllExpected'
    BY <1>16, <1>a, <1>b, KgslSyncAssumption
       DEF CreateSourceFence, Goto, timelineVars, contextVars, sourceVars,
           AllExpected, ThreadFences, Makes, TypeOK, SignalsRetired
  <1>17. ASSUME NEW p \in Threads, SourceFd(p) PROVE AllExpected'
    BY <1>17, <1>a, <1>b, KgslSyncAssumption
       DEF SourceFd, Goto, timelineVars, contextVars, sourceVars,
           AllExpected, ThreadFences, Makes, TypeOK, SignalsRetired
  <1>18. ASSUME NEW p \in Threads, SourceList(p) PROVE AllExpected'
    BY <1>18, <1>a, <1>b, KgslSyncAssumption
       DEF SourceList, Goto, fenceVars, timelineVars, contextVars,
           AllExpected, ThreadFences, Makes, TypeOK, SignalsRetired
  <1>19. ASSUME NEW p \in Threads, SourceFail(p) PROVE AllExpected'
    BY <1>19, <1>a, <1>b, KgslSyncAssumption
       DEF SourceFail, Goto, contextVars, AllExpected, ThreadFences,
           Makes, TypeOK, SignalsRetired
  <1>20. ASSUME NEW p \in Threads, SignalSource(p) PROVE AllExpected'
    BY <1>20, <1>a, <1>b, KgslSyncAssumption
       DEF SignalSource, Goto, kgsl_syncsource_signal, timelineVars,
           contextVars, AllExpected, ThreadFences, Makes, TypeOK,
           SignalsRetired
  <1>21. ASSUME NEW p \in Threads, SignalPutsFence(p) PROVE AllExpected'
    BY <1>21, <1>a, <1>b, KgslSyncAssumption
       DEF SignalPutsFence, Goto, contextVars, AllExpected,
           ThreadFences, Makes, TypeOK, SignalsRetired
  <1>22. ASSUME NEW p \in Threads, kgsl_syncsource_put(p) PROVE AllExpected'
    BY <1>22, <1>a, <1>b, KgslSyncAssumption
       DEF kgsl_syncsource_put, Return, fenceVars, timelineVars,
           contextVars, Goto, AllExpected, ThreadFences, Makes, TypeOK,
           SignalsRetired
  <1>23. ASSUME NEW f \in Fences, kgsl_sync_fence_event_cb(f)
        PROVE  AllExpected'
    BY <1>23, <1>a, <1>b, KgslSyncAssumption
       DEF kgsl_sync_fence_event_cb, kgsl_sync_timeline_signal, contextVars,
           threadVars, AllExpected, ThreadFences, Makes, TypeOK,
           SignalsRetired
  <1>24. ASSUME NEW f \in Fences, _kgsl_event_worker(f) PROVE AllExpected'
    BY <1>24, <1>a, <1>b, KgslSyncAssumption
       DEF _kgsl_event_worker, sourceVars, threadVars, AllExpected,
           ThreadFences, Makes, TypeOK, SignalsRetired
  <1>25. ASSUME NEW f \in Fences, kgsl_sync_fence_callback(f)
        PROVE  AllExpected'
    BY <1>25, <1>a, <1>b, KgslSyncAssumption
       DEF kgsl_sync_fence_callback, WaitEnds, contextVars, threadVars,
           AllExpected, ThreadFences, Makes, TypeOK, SignalsRetired
  <1>26. ASSUME NEW f \in Fences, kgsl_syncsource_fence_release(f)
        PROVE  AllExpected'
    BY <1>26, <1>a, <1>b, KgslSyncAssumption
       DEF kgsl_syncsource_fence_release, kgsl_syncsource_signal,
           timelineVars, contextVars, threadVars, AllExpected,
           ThreadFences, Makes, TypeOK, SignalsRetired
  <1>27. ASSUME NEW f \in Fences, FreeSourceFence(f) PROVE AllExpected'
    BY <1>27, <1>a, <1>b, KgslSyncAssumption
       DEF FreeSourceFence, timelineVars, contextVars, threadVars,
           AllExpected, ThreadFences, Makes, TypeOK, SignalsRetired
  <1>28. ASSUME NEW f \in Fences, close(f) PROVE AllExpected'
    BY <1>28, <1>a, <1>b, KgslSyncAssumption
       DEF close, contextVars, threadVars, AllExpected, ThreadFences,
           Makes, TypeOK, SignalsRetired
  <1>29. ASSUME NEW f \in Fences, kgsl_sync_fence_async_wait(f)
        PROVE  AllExpected'
    BY <1>29, <1>a, <1>b, KgslSyncAssumption
       DEF kgsl_sync_fence_async_wait, timelineVars, contextVars,
           sourceVars, threadVars, AllExpected, ThreadFences, Makes,
           TypeOK, SignalsRetired
  <1>30. ASSUME NEW f \in Fences, kgsl_sync_fence_async_cancel(f)
        PROVE  AllExpected'
    BY <1>30, <1>a, <1>b, KgslSyncAssumption
       DEF kgsl_sync_fence_async_cancel, WaitEnds, contextVars, threadVars,
           AllExpected, ThreadFences, Makes, TypeOK, SignalsRetired
  <1>31. CASE kgsl_process_event_groups
    BY <1>31, <1>a, <1>b, KgslSyncAssumption
       DEF kgsl_process_event_groups, timelineVars, contextVars, sourceVars,
           threadVars, AllExpected, ThreadFences, Makes, TypeOK,
           SignalsRetired
  <1>32. CASE GpuRetire
    BY <1>32, <1>a, <1>b, KgslSyncAssumption
       DEF GpuRetire, fenceVars, timelineVars, sourceVars, threadVars,
           AllExpected, ThreadFences, Makes, TypeOK, SignalsRetired
  <1>33. CASE FaultInvalidate
    BY <1>33, <1>a, <1>b, KgslSyncAssumption
       DEF FaultInvalidate, adreno_drawctxt_invalidate, SignalEvents, fenceVars,
           timelineVars, sourceVars, threadVars, AllExpected, ThreadFences,
           Makes, TypeOK, SignalsRetired
  <1>34. CASE kgsl_context_detach
    BY <1>34, <1>a, <1>b, KgslSyncAssumption
       DEF kgsl_context_detach, fenceVars, timelineVars, sourceVars,
           threadVars, AllExpected, ThreadFences, Makes, TypeOK,
           SignalsRetired
  <1>35. CASE gen7_hwsched_context_detach
    BY <1>35, <1>a, <1>b, KgslSyncAssumption
       DEF gen7_hwsched_context_detach, adreno_drawctxt_invalidate,
           SignalEvents, fenceVars, timelineVars, sourceVars, threadVars,
           AllExpected, ThreadFences, Makes, TypeOK, SignalsRetired
  <1>36. CASE kgsl_cancel_events
    BY <1>36, <1>a, <1>b, KgslSyncAssumption
       DEF kgsl_cancel_events, SignalEvents, timelineVars, sourceVars, threadVars,
           AllExpected, ThreadFences, Makes, TypeOK, SignalsRetired
  <1>37. CASE kgsl_sync_timeline_detach
    BY <1>37, <1>a, <1>b, KgslSyncAssumption
       DEF kgsl_sync_timeline_detach, fenceVars, sourceVars, threadVars,
           AllExpected, ThreadFences, Makes, TypeOK, SignalsRetired
  <1>38. CASE DetachPuts
    BY <1>38, <1>a, <1>b, KgslSyncAssumption
       DEF DetachPuts, fenceVars, sourceVars, threadVars, AllExpected,
           ThreadFences, Makes, TypeOK, SignalsRetired
  <1>39. CASE kgsl_ioctl_syncsource_create
    BY <1>39, <1>a, <1>b, KgslSyncAssumption
       DEF kgsl_ioctl_syncsource_create, OneAfterTheOther, fenceVars,
           timelineVars, contextVars, threadVars, AllExpected,
           ThreadFences, Makes, TypeOK, SignalsRetired
  <1>40. CASE kgsl_ioctl_syncsource_destroy
    BY <1>40, <1>a, <1>b, KgslSyncAssumption
       DEF kgsl_ioctl_syncsource_destroy, fenceVars, timelineVars,
           contextVars, threadVars, AllExpected, ThreadFences, Makes,
           TypeOK, SignalsRetired
  <1>41. CASE kgsl_syncsource_cleanup
    BY <1>41, <1>a, <1>b, KgslSyncAssumption
       DEF kgsl_syncsource_cleanup, timelineVars, contextVars, threadVars,
           AllExpected, ThreadFences, Makes, TypeOK, SignalsRetired
  <1>42. CASE CleanupPuts
    BY <1>42, <1>a, <1>b, KgslSyncAssumption
       DEF CleanupPuts, fenceVars, timelineVars, contextVars, threadVars,
           AllExpected, ThreadFences, Makes, TypeOK, SignalsRetired
  <1>43. CASE UNCHANGED vars
    BY <1>43, <1>a
       DEF vars, fenceVars, timelineVars, contextVars, sourceVars,
           threadVars, AllExpected
  <1>44. CASE Submit
    BY <1>44, <1>a, <1>b, KgslSyncAssumption
       DEF Submit, fenceVars, timelineVars, sourceVars, threadVars,
           AllExpected, ThreadFences, Makes, TypeOK, SignalsRetired
  <1>45. ASSUME NEW f \in Fences, Poll(f)
        PROVE  AllExpected'
    BY <1>45, <1>a, <1>b, KgslSyncAssumption
       DEF Poll, kgsl_sync_fence_has_signaled, timelineVars, contextVars,
           sourceVars, threadVars, AllExpected, ThreadFences, Makes,
           TypeOK, SignalsRetired
  <1>46. QED
    BY <1>1, <1>2, <1>3, <1>4, <1>5, <1>6, <1>7, <1>8, <1>9, <1>10, <1>11,
       <1>12, <1>13, <1>14, <1>15, <1>16, <1>17, <1>18, <1>19, <1>20, <1>21, <1>22,
       <1>23, <1>24, <1>25, <1>26, <1>27, <1>28, <1>29, <1>30, <1>31, <1>32, <1>33,
       <1>34, <1>35, <1>36, <1>37, <1>38, <1>39, <1>40, <1>41, <1>42, <1>43, <1>44,
       <1>45
       DEF Next, Call, ThreadStep, FenceStep, UserStep, DetachStep,
           CleanupStep

\* Every variable keeps its type.
LEMMA SignalEventsType ==
    ASSUME TypeOK, NEW F \in SUBSET Fences, SignalEvents(F)
    PROVE  /\ event' \in [Fences -> {"none", "listed", "retired", "cancelled", "called"}]
           /\ dropped' \subseteq 0 .. MaxTs
  <1>1. event' \in [Fences -> {"none", "listed", "retired", "cancelled", "called"}]
    BY DEF SignalEvents, TypeOK
  <1>2. dropped' = dropped \cup {ts[f] : f \in F}
    BY DEF SignalEvents
  <1>3. \A f \in F : ts[f] \in 0 .. MaxTs
    BY DEF TypeOK
  <1>4. dropped \subseteq 0 .. MaxTs
    BY DEF TypeOK
  <1>5. QED
    BY <1>1, <1>2, <1>3, <1>4

LEMMA TypeStep ==
    ASSUME TypeOK, ThreadFences, FenceStates, ZeroIsDead, Counts, [Next]_vars
    PROVE  TypeOK'
  <1>a. /\ kind' \in [Fences -> Kinds] /\ ref' \in [Fences -> Nat]
        /\ releasing' \subseteq Fences
    BY KindStep DEF Counts, KindOutcome
  <1>b. cref' \in Nat /\ tref' \in Nat /\ sref' \in Nat
    <2>1. ContextCount' /\ TimelineCount' /\ SourceCount'
      BY ContextCountStep, TimelineCountStep, SourceCountStep DEF Counts
    <2>2. QED
      BY <2>1, Naturals DEF ContextCount, TimelineCount, SourceCount, One
  <1>c. \A p \in Threads : pc[p] \in Makes \cup HoldsFence => fen[p] \in Fences
    BY DEF ThreadFences
  <1>1. ASSUME NEW p \in Threads, kgsl_context_get_owner(p) PROVE TypeOK'
    BY <1>1, <1>a, <1>b, <1>c, KgslSyncAssumption
       DEF kgsl_context_get_owner, Goto, fenceVars, timelineVars,
           sourceVars, TypeOK, PCs, Makes, HoldsFence
  <1>2. ASSUME NEW p \in Threads, kgsl_syncsource_get(p) PROVE TypeOK'
    BY <1>2, <1>a, <1>b, <1>c, KgslSyncAssumption
       DEF kgsl_syncsource_get, Goto, fenceVars, timelineVars, contextVars,
           TypeOK, PCs, Makes, HoldsFence
  <1>3. ASSUME NEW p \in Threads, NEW f \in Fences, kgsl_sync_timeline_value_str(p, f)
        PROVE  TypeOK'
    BY <1>3, <1>a, <1>b, KgslSyncAssumption
       DEF kgsl_sync_timeline_value_str, Goto, sourceVars, TypeOK, PCs
  <1>4. ASSUME NEW p \in Threads, NEW f \in Fences, kgsl_ioctl_syncsource_signal_fence(p, f)
        PROVE  TypeOK'
    BY <1>4, <1>a, <1>b, KgslSyncAssumption
       DEF kgsl_ioctl_syncsource_signal_fence, Goto, timelineVars,
           contextVars, TypeOK, PCs
  <1>5. ASSUME NEW p \in Threads, kgsl_sync_fence_create(p) PROVE TypeOK'
    BY <1>5, <1>a, <1>b, <1>c, KgslSyncAssumption
       DEF kgsl_sync_fence_create, Goto, contextVars, sourceVars, TypeOK,
           PCs, Makes, HoldsFence
  <1>6. ASSUME NEW p \in Threads, kgsl_readtimestamp(p) PROVE TypeOK'
    BY <1>6, <1>a, <1>b, <1>c, KgslSyncAssumption
       DEF kgsl_readtimestamp, Goto, fenceVars, timelineVars, contextVars,
           sourceVars, TypeOK, PCs, Makes, HoldsFence
  <1>7. ASSUME NEW p \in Threads, SignalRetired(p) PROVE TypeOK'
    BY <1>7, <1>a, <1>b, <1>c, KgslSyncAssumption
       DEF SignalRetired, Goto, kgsl_sync_timeline_signal, contextVars,
           TypeOK, PCs, Makes, HoldsFence
  <1>8. ASSUME NEW p \in Threads, _add_fence_event(p) PROVE TypeOK'
    BY <1>8, <1>a, <1>b, <1>c, KgslSyncAssumption
       DEF _add_fence_event, Goto, timelineVars, sourceVars, TypeOK, PCs,
           Makes, HoldsFence
  <1>9. ASSUME NEW p \in Threads, fd_install(p) PROVE TypeOK'
    BY <1>9, <1>a, <1>b, <1>c, KgslSyncAssumption
       DEF fd_install, Goto, timelineVars, contextVars, sourceVars, TypeOK,
           PCs, Makes, HoldsFence
  <1>10. ASSUME NEW p \in Threads, PutContext(p) PROVE TypeOK'
    BY <1>10, <1>a, <1>b, <1>c, KgslSyncAssumption
       DEF PutContext, Goto, Return, fenceVars, sourceVars, TypeOK, PCs,
           Makes, HoldsFence
  <1>11. ASSUME NEW p \in Threads, kgsl_sync_cancel(p) PROVE TypeOK'
    BY <1>11, <1>a, <1>b, <1>c, KgslSyncAssumption
       DEF kgsl_sync_cancel, Goto, contextVars, TypeOK, PCs, Makes,
           HoldsFence
  <1>12. ASSUME NEW p \in Threads, fput(p) PROVE TypeOK'
    BY <1>12, <1>a, <1>b, <1>c, KgslSyncAssumption
       DEF fput, Return, contextVars, Goto, TypeOK, PCs, Makes, HoldsFence
  <1>13. ASSUME NEW p \in Threads, ValueStrPuts(p) PROVE TypeOK'
    BY <1>13, <1>a, <1>b, <1>c, KgslSyncAssumption
       DEF ValueStrPuts, Goto, fenceVars, sourceVars, TypeOK, PCs, Makes,
           HoldsFence
  <1>14. ASSUME NEW p \in Threads, kgsl_sync_timeline_put(p) PROVE TypeOK'
    BY <1>14, <1>a, <1>b, <1>c, KgslSyncAssumption
       DEF kgsl_sync_timeline_put, Goto, fenceVars, contextVars, sourceVars,
           TypeOK, PCs, Makes, HoldsFence
  <1>15. ASSUME NEW p \in Threads, Unref(p) PROVE TypeOK'
    BY <1>15, <1>a, <1>b, <1>c, KgslSyncAssumption
       DEF Unref, Return, contextVars, Goto, TypeOK, PCs, Makes, HoldsFence
  <1>16. ASSUME NEW p \in Threads, CreateSourceFence(p) PROVE TypeOK'
    BY <1>16, <1>a, <1>b, <1>c, KgslSyncAssumption
       DEF CreateSourceFence, Goto, timelineVars, contextVars, sourceVars,
           TypeOK, PCs, Makes, HoldsFence
  <1>17. ASSUME NEW p \in Threads, SourceFd(p) PROVE TypeOK'
    BY <1>17, <1>a, <1>b, <1>c, KgslSyncAssumption
       DEF SourceFd, Goto, timelineVars, contextVars, sourceVars, TypeOK,
           PCs, Makes, HoldsFence
  <1>18. ASSUME NEW p \in Threads, SourceList(p) PROVE TypeOK'
    BY <1>18, <1>a, <1>b, <1>c, KgslSyncAssumption
       DEF SourceList, Goto, fenceVars, timelineVars, contextVars, TypeOK,
           PCs, Makes, HoldsFence
  <1>19. ASSUME NEW p \in Threads, SourceFail(p) PROVE TypeOK'
    BY <1>19, <1>a, <1>b, <1>c, KgslSyncAssumption
       DEF SourceFail, Goto, contextVars, TypeOK, PCs, Makes, HoldsFence
  <1>20. ASSUME NEW p \in Threads, SignalSource(p) PROVE TypeOK'
    BY <1>20, <1>a, <1>b, <1>c, KgslSyncAssumption
       DEF SignalSource, Goto, kgsl_syncsource_signal, timelineVars,
           contextVars, TypeOK, PCs, Makes, HoldsFence
  <1>21. ASSUME NEW p \in Threads, SignalPutsFence(p) PROVE TypeOK'
    BY <1>21, <1>a, <1>b, <1>c, KgslSyncAssumption
       DEF SignalPutsFence, Goto, contextVars, TypeOK, PCs, Makes,
           HoldsFence
  <1>22. ASSUME NEW p \in Threads, kgsl_syncsource_put(p) PROVE TypeOK'
    BY <1>22, <1>a, <1>b, <1>c, KgslSyncAssumption
       DEF kgsl_syncsource_put, Return, fenceVars, timelineVars,
           contextVars, Goto, TypeOK, PCs, Makes, HoldsFence
  <1>23. ASSUME NEW f \in Fences, kgsl_sync_fence_event_cb(f) PROVE TypeOK'
    BY <1>23, <1>a, <1>b, KgslSyncAssumption
       DEF kgsl_sync_fence_event_cb, kgsl_sync_timeline_signal, contextVars,
           threadVars, TypeOK, PCs
  <1>24. ASSUME NEW f \in Fences, _kgsl_event_worker(f) PROVE TypeOK'
    BY <1>24, <1>a, <1>b, KgslSyncAssumption
       DEF _kgsl_event_worker, sourceVars, threadVars, TypeOK, PCs
  <1>25. ASSUME NEW f \in Fences, kgsl_sync_fence_callback(f) PROVE TypeOK'
    BY <1>25, <1>a, <1>b, KgslSyncAssumption
       DEF kgsl_sync_fence_callback, WaitEnds, contextVars, threadVars,
           TypeOK, PCs
  <1>26. ASSUME NEW f \in Fences, kgsl_syncsource_fence_release(f) PROVE TypeOK'
    BY <1>26, <1>a, <1>b, KgslSyncAssumption
       DEF kgsl_syncsource_fence_release, kgsl_syncsource_signal,
           timelineVars, contextVars, threadVars, TypeOK, PCs
  <1>27. ASSUME NEW f \in Fences, FreeSourceFence(f) PROVE TypeOK'
    BY <1>27, <1>a, <1>b, KgslSyncAssumption
       DEF FreeSourceFence, timelineVars, contextVars, threadVars, TypeOK,
           PCs
  <1>28. ASSUME NEW f \in Fences, close(f) PROVE TypeOK'
    BY <1>28, <1>a, <1>b, KgslSyncAssumption
       DEF close, contextVars, threadVars, TypeOK, PCs
  <1>29. ASSUME NEW f \in Fences, kgsl_sync_fence_async_wait(f) PROVE TypeOK'
    BY <1>29, <1>a, <1>b, KgslSyncAssumption
       DEF kgsl_sync_fence_async_wait, timelineVars, contextVars,
           sourceVars, threadVars, TypeOK, PCs
  <1>30. ASSUME NEW f \in Fences, kgsl_sync_fence_async_cancel(f) PROVE TypeOK'
    BY <1>30, <1>a, <1>b, KgslSyncAssumption
       DEF kgsl_sync_fence_async_cancel, WaitEnds, contextVars, threadVars,
           TypeOK, PCs
  <1>31. CASE kgsl_process_event_groups
    BY <1>31, <1>a, <1>b, KgslSyncAssumption
       DEF kgsl_process_event_groups, timelineVars, contextVars, sourceVars,
           threadVars, TypeOK, PCs
  <1>32. CASE GpuRetire
    BY <1>32, <1>a, <1>b, KgslSyncAssumption
       DEF GpuRetire, OnGpu, fenceVars, timelineVars, sourceVars, threadVars,
           TypeOK, PCs
  <1>33. CASE FaultInvalidate
    <2>1. /\ event' \in [Fences -> {"none", "listed", "retired", "cancelled", "called"}]
          /\ dropped' \subseteq 0 .. MaxTs
      BY <1>33, SignalEventsType DEF FaultInvalidate, adreno_drawctxt_invalidate
    <2>2. QED
      BY <1>33, <1>a, <1>b, <2>1
         DEF FaultInvalidate, adreno_drawctxt_invalidate, timelineVars,
             sourceVars, threadVars, TypeOK
  <1>34. CASE kgsl_context_detach
    BY <1>34, <1>a, <1>b, KgslSyncAssumption
       DEF kgsl_context_detach, fenceVars, timelineVars, sourceVars,
           threadVars, TypeOK, PCs
  <1>35. CASE gen7_hwsched_context_detach
    <2>1. /\ event' \in [Fences -> {"none", "listed", "retired", "cancelled", "called"}]
          /\ dropped' \subseteq 0 .. MaxTs
      <3>1. CASE UNCHANGED <<event, dropped>>
        BY <3>1 DEF TypeOK
      <3>2. CASE adreno_drawctxt_invalidate
        BY <3>2, SignalEventsType DEF adreno_drawctxt_invalidate
      <3>3. QED
        BY <1>35, <3>1, <3>2 DEF gen7_hwsched_context_detach
    <2>2. /\ lost' \in BOOLEAN /\ retired' \in 0 .. MaxTs
          /\ bits' \subseteq {"INVALID", "DETACHED"}
      BY <1>35 DEF gen7_hwsched_context_detach, adreno_drawctxt_invalidate, TypeOK
    <2>3. QED
      BY <1>35, <1>a, <1>b, <2>1, <2>2
         DEF gen7_hwsched_context_detach, timelineVars, sourceVars, threadVars,
             TypeOK
  <1>36. CASE kgsl_cancel_events
    <2>1. /\ event' \in [Fences -> {"none", "listed", "retired", "cancelled", "called"}]
          /\ dropped' \subseteq 0 .. MaxTs
      BY <1>36, SignalEventsType DEF kgsl_cancel_events
    <2>2. QED
      BY <1>36, <1>a, <1>b, <2>1
         DEF kgsl_cancel_events, timelineVars, sourceVars, threadVars, TypeOK
  <1>37. CASE kgsl_sync_timeline_detach
    BY <1>37, <1>a, <1>b, KgslSyncAssumption
       DEF kgsl_sync_timeline_detach, fenceVars, sourceVars, threadVars,
           TypeOK, PCs
  <1>38. CASE DetachPuts
    BY <1>38, <1>a, <1>b, KgslSyncAssumption
       DEF DetachPuts, fenceVars, sourceVars, threadVars, TypeOK, PCs
  <1>39. CASE kgsl_ioctl_syncsource_create
    BY <1>39, <1>a, <1>b, KgslSyncAssumption
       DEF kgsl_ioctl_syncsource_create, OneAfterTheOther, fenceVars,
           timelineVars, contextVars, threadVars, TypeOK, PCs
  <1>40. CASE kgsl_ioctl_syncsource_destroy
    BY <1>40, <1>a, <1>b, KgslSyncAssumption
       DEF kgsl_ioctl_syncsource_destroy, fenceVars, timelineVars,
           contextVars, threadVars, TypeOK, PCs
  <1>41. CASE kgsl_syncsource_cleanup
    BY <1>41, <1>a, <1>b, KgslSyncAssumption
       DEF kgsl_syncsource_cleanup, timelineVars, contextVars, threadVars,
           TypeOK, PCs
  <1>42. CASE CleanupPuts
    BY <1>42, <1>a, <1>b, KgslSyncAssumption
       DEF CleanupPuts, fenceVars, timelineVars, contextVars, threadVars,
           TypeOK, PCs
  <1>43. CASE UNCHANGED vars
    BY <1>43
       DEF vars, fenceVars, timelineVars, contextVars, sourceVars,
           threadVars, TypeOK
  <1>44. CASE Submit
    BY <1>44, <1>a, <1>b, KgslSyncAssumption
       DEF Submit, fenceVars, timelineVars, sourceVars, threadVars,
           TypeOK, PCs
  <1>45. ASSUME NEW f \in Fences, Poll(f) PROVE TypeOK'
    BY <1>45, <1>a, <1>b, KgslSyncAssumption
       DEF Poll, timelineVars, contextVars,
           sourceVars, threadVars, TypeOK, PCs
  <1>46. QED
    BY <1>1, <1>2, <1>3, <1>4, <1>5, <1>6, <1>7, <1>8, <1>9, <1>10, <1>11,
       <1>12, <1>13, <1>14, <1>15, <1>16, <1>17, <1>18, <1>19, <1>20, <1>21, <1>22,
       <1>23, <1>24, <1>25, <1>26, <1>27, <1>28, <1>29, <1>30, <1>31, <1>32, <1>33,
       <1>34, <1>35, <1>36, <1>37, <1>38, <1>39, <1>40, <1>41, <1>42, <1>43, <1>44,
       <1>45
       DEF Next, Call, ThreadStep, FenceStep, UserStep, DetachStep,
           CleanupStep


-----------------------------------------------------------------------------
(***************************************************************************)
(* The theorems.                                                           *)
(***************************************************************************)
LEMMA InitInv == Init => IInv
  <1> SUFFICES ASSUME Init PROVE IInv
    OBVIOUS
  <1>1. TypeOK
    <2>1. 0 \in 0 .. MaxTs /\ "idle" \in PCs /\ "unborn" \in Kinds
      BY KgslSyncAssumption DEF PCs, Kinds
    <2>2. QED
      BY <2>1 DEF Init, TypeOK
  <1>2. /\ ContextThreads = {} /\ StrThreads = {} /\ DumpThreads = {}
        /\ SourceThreads = {} /\ EventFences = {} /\ TimelineFences = {}
        /\ SourceFences = {} /\ \A f \in Fences : FenceHolders(f) = {}
    BY DEF Init, ContextThreads, StrThreads, DumpThreads, DumpPCs, SourceThreads,
           EventFences, TimelineFences, SourceFences, FenceHolders, At, HoldsContext,
           HoldsSource, HoldsFence
  <1>3. Counts
    BY <1>2, FS_EmptySet
       DEF Init, Counts, ContextCount, TimelineCount, FenceCount, SourceCount, One
  <1>4. ThreadFences /\ FenceStates /\ ZeroIsDead
    BY DEF Init, ThreadFences, FenceStates, ZeroIsDead, Makes, MakesTimeline, HoldsFence
  <1>5. SignalsRetired /\ NoneMissed /\ AllExpected
    <2>1. ContextState /\ 0 \in OverTs
      BY KgslSyncAssumption DEF Init, ContextState, Ended, Forced, OverTs, Over
    <2>2. QED
      BY <2>1, KgslSyncAssumption DEF Init, SignalsRetired, NoneMissed, AllExpected
  <1>6. QED
    BY <1>1, <1>3, <1>4, <1>5 DEF IInv

LEMMA NextInv == IInv /\ [Next]_vars => IInv'
  <1> SUFFICES ASSUME IInv, [Next]_vars PROVE IInv'
    OBVIOUS
  <1>1. TypeOK'
    BY TypeStep DEF IInv
  <1>2. ThreadFences' /\ FenceStates'
    BY ThreadFencesStep, FenceStatesStep DEF IInv, Counts
  <1>3. ZeroIsDead'
    BY KindStep DEF IInv, Counts, KindOutcome
  <1>4. Counts'
    BY FenceCountStep, ContextCountStep, TimelineCountStep, SourceCountStep
       DEF IInv, Counts
  <1>5. SignalsRetired' /\ NoneMissed' /\ AllExpected'
    BY RetiredStep, MissedStep, ExpectedStep DEF IInv, Counts
  <1>6. QED
    BY <1>1, <1>2, <1>3, <1>4, <1>5 DEF IInv

\* The strengthened invariant holds in every reachable state of kgsl_sync.c.
THEOREM Invariance == Spec => []IInv
  BY InitInv, NextInv, PTL DEF Spec

\* Every variable keeps its type: no count of references goes below zero.
THEOREM TypeCorrect == Spec => []TypeOK
  <1>1. IInv => TypeOK
    BY DEF IInv
  <1>2. QED
    BY <1>1, Invariance, PTL

\* The references to contexts, timelines, fences and syncsources are exact, for
\* every error path of kgsl_add_fence_event and of the syncsource ioctls.
THEOREM CountsExact == Spec => []SyncRefCounts
  <1>1. ASSUME IInv PROVE SyncRefCounts
    <2>1. tcontext => cref > 0
      BY <1>1, ContextHeld DEF IInv, Counts, ContextCount, TypeOK
    <2>2. \A f \in Live : ref[f] > 0 \/ f \in releasing \/ kind[f] = "dying"
      BY <1>1 DEF IInv, ZeroIsDead, Live, TypeOK
    <2>3. children \cup schildren \subseteq Live /\ \A f \in schildren : kind[f] # "dying"
      BY <1>1 DEF IInv, FenceStates, Live, TypeOK
    <2>4. QED
      BY <1>1, <2>1, <2>2, <2>3
         DEF IInv, Counts, SyncRefCounts, ContextCount, TimelineCount,
             FenceCount, SourceCount, ContextThreads, StrThreads, DumpThreads,
             DumpPCs, SourceThreads, EventFences, TimelineFences, SourceFences,
             FenceHolders
  <1>2. QED
    BY <1>1, Invariance, PTL

\* No timeline fence of a context that lives is signaled before the GPU has
\* finished its timestamp; the fences of one that has ended are signaled only up
\* to what was queued when the memstore was forced, or up to a cancelled event.
THEOREM NothingEarly == Spec => []SignaledIsRetired
  <1>1. IInv => SignaledIsRetired
    BY DEF IInv, SignalsRetired, SignaledIsRetired, OverTs
  <1>2. QED
    BY <1>1, Invariance, PTL

\* Every listed fence has an event or a thread that will signal or unlist it; no
\* event waits that the detach has passed over, kgsl_sync_timeline_signal passes
\* over no open fence, but for timestamps that never retire; and whoever waits
\* for a fence is told when last_timestamp covers it.
THEOREM NothingForgotten == Spec => []NoFenceForgotten
  <1>1. ASSUME IInv PROVE NoFenceForgotten
    <2>1. PollFindsNothing /\ WaitersTold
      BY <1>1
         DEF IInv, NoneMissed, Covered, Sought, Hopeless, PollFindsNothing,
             WaitersTold, kgsl_sync_fence_has_signaled, TypeOK
    <2>2. ListedIsExpected
      BY <1>1 DEF IInv, AllExpected, ListedIsExpected, Hopeless
    <2>3. QED
      BY <2>1, <2>2 DEF NoFenceForgotten
  <1>2. QED
    BY <1>1, Invariance, PTL
=============================================================================
