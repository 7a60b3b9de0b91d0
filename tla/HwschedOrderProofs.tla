------------------------- MODULE HwschedOrderProofs -------------------------
(***************************************************************************)
(* The order of the timestamps through the hardware scheduler, when one    *)
(* thread submits to each context, for any number of contexts, priorities  *)
(* and faults and any sizes of the queues.                                 *)
(*                                                                         *)
(* The line of a context is the object the dispatcher has popped, followed *)
(* by the queue; out is the set of the timestamps of the context that are  *)
(* on cmd_list.  What the steps do to a line and to out is first looked at *)
(* for their own sake, without the variables of the scheduler.             *)
(***************************************************************************)
EXTENDS HwschedProofs

\* Every timestamp of out and of line before position j is at most n.
Covers(line, out, n, j) ==
    /\ \A t \in out : t <= n
    /\ \A i \in 1 .. j - 1 : line[i].ts <= n

\* Timestamps are in the line once they are queued; only sync objects have
\* none; only the first object may be a marker that has been retired.
Stamped(line, last) ==
    \A j \in 1 .. Len(line) :
        /\ line[j].ts <= last
        /\ line[j].ts = 0 <=> line[j].type = "sync"
        /\ line[j].state = "expired" => j = 1 /\ line[j].type = "marker"

\* Time is linear in the line and behind out.
Sorted(line, out) ==
    \A j \in 1 .. Len(line) : line[j].ts # 0 =>
        /\ \A t \in out : t < line[j].ts
        /\ \A i \in 1 .. j - 1 : line[i].ts < line[j].ts

\* Nothing in the line has retired, but for an expired marker.
Unretired(line, eop_) ==
    \A j \in 1 .. Len(line) : line[j].ts # 0 /\ line[j].state # "expired" => eop_ < line[j].ts

\* A marker waits for everything before it.
MarkersWait(line, out) ==
    \A j \in 1 .. Len(line) : line[j].type = "marker" => Covers(line, out, line[j].mts, j)

\* A sync object waits for nothing of the context, or for everything before it.
SyncsWait(line, out) ==
    \A j \in 1 .. Len(line) : line[j].type = "sync" =>
        line[j].mts = 0 \/ Covers(line, out, line[j].mts, j)

\* When it has signaled, everything before it has retired.
SyncsSignal(line, out, eop_) ==
    \A j \in 1 .. Len(line) : line[j].type = "sync" /\ line[j].state = "ready" =>
        (Covers(line, out, line[j].mts, j) => Covers(line, out, eop_, j))

\* What needs no GPU is behind a sync object that waits for everything before
\* it, or all that has retired.
Behind(line, out, j, i) ==
    /\ line[i].type = "sync" /\ Covers(line, out, line[i].mts, i)
    /\ \A k \in 1 .. j - 1 : k >= i => line[k].type = "sync"

\* Every bind and timeline object waits so.
AuxWaits(line, out, eop_) ==
    \A j \in 1 .. Len(line) : Aux(line[j]) =>
        Covers(line, out, eop_, j) \/ \E i \in 1 .. j - 1 : Behind(line, out, j, i)

\* A line in order.
LineInv(line, out, eop_, last) ==
    /\ Stamped(line, last) /\ Sorted(line, out) /\ Unretired(line, eop_)
    /\ MarkersWait(line, out) /\ SyncsWait(line, out)
    /\ SyncsSignal(line, out, eop_) /\ AuxWaits(line, out, eop_)

\* The objects of line l in other states; f is what has retired now.
Restated(m, l, f) ==
    /\ Len(m) = Len(l)
    /\ \A i \in 1 .. Len(l) :
        /\ m[i].type = l[i].type /\ m[i].ts = l[i].ts /\ m[i].mts = l[i].mts
        /\ \/ m[i].state = l[i].state
           \/ m[i].state = "expired" /\ m[i].type = "marker" /\ i = 1
           \/ m[i].state \in {"ready", "go"} /\ m[i].type = "bind"
           \/ m[i].state = "ready" /\ m[i].type = "sync" /\ m[i].mts <= f

\* Line m is line l without its first object.
Rest(m, l) ==
    /\ Len(l) >= 1 /\ Len(m) = Len(l) - 1
    /\ \A i \in 1 .. Len(m) : m[i] = l[i + 1]

\* Line m is line l and new objects behind it, the last of which may get the
\* timestamp new.
Longer(m, l, last, new) ==
    /\ Len(m) >= Len(l) /\ \A i \in 1 .. Len(l) : Alike(m[i], l[i])
    /\ \A j \in 1 .. Len(m) : j > Len(l) =>
        /\ m[j].state = "wait"
        /\ m[j].type = "sync" => m[j].ts = 0 /\ (m[j].mts = 0 \/ m[j].mts >= last)
        /\ m[j].type # "sync" => j = Len(m) /\ m[j].ts = new /\ last < new
        /\ m[j].type = "marker" => m[j].mts = last
        /\ Aux(m[j]) => j - 1 > Len(l) /\ m[j - 1].type = "sync" /\ m[j - 1].mts >= last

\* The objects of a line.
LEMMA LineObjects ==
    ASSUME NEW l \in Seq(Objects)
    PROVE  /\ Len(l) \in Nat
           /\ \A i \in 1 .. Len(l) : l[i].ts \in Nat /\ l[i].mts \in Nat
<1>1. \A i \in 1 .. Len(l) : l[i] \in Objects
  OBVIOUS
<1>2. \A o \in Objects : o.ts \in Nat /\ o.mts \in Nat
  BY DEF Objects
<1> QED
  BY <1>1, <1>2

\* Nothing is covered by less than was covered before.
LEMMA CoversLess ==
    ASSUME NEW l, NEW m, NEW S, NEW R, NEW n, NEW i \in Nat, NEW j \in Nat, i <= j,
           \A k \in 1 .. i - 1 : m[k].ts = l[k].ts, R \subseteq S, Covers(l, S, n, j)
    PROVE  Covers(m, R, n, i)
  BY DEF Covers

\* The same without the first object, which may have gone to out.
LEMMA CoversRest ==
    ASSUME NEW l \in Seq(Objects), NEW m, NEW S, NEW R, NEW n, NEW j \in 1 .. Len(l) - 1,
           Rest(m, l), R \subseteq S \cup {l[1].ts}, Covers(l, S, n, j + 1)
    PROVE  Covers(m, R, n, j)
<1>1. \A k \in 1 .. j - 1 : k + 1 \in 1 .. (j + 1) - 1 /\ m[k] = l[k + 1]
  BY DEF Rest
<1>2. \A k \in 1 .. j - 1 : m[k].ts <= n
  BY <1>1 DEF Covers
<1>3. 1 \in 1 .. (j + 1) - 1
  OBVIOUS
<1>4. \A t \in R : t <= n
  BY <1>3 DEF Covers
<1> QED
  BY <1>2, <1>4 DEF Covers

\* Objects change their state, parts of out are reaped, and another timestamp
\* is the one that has retired: a later one, or one of out while a part of
\* out was not retired.
LEMMA LineChanges ==
    ASSUME NEW l \in Seq(Objects), NEW m \in Seq(Objects), NEW S \in SUBSET Nat, NEW R \in SUBSET S,
           NEW e \in Nat, NEW f \in Nat, NEW last \in Nat, LineInv(l, S, e, last), Restated(m, l, f),
           Unretired(m, f),
           \A j \in 1 .. Len(l) : Covers(l, S, e, j) => Covers(l, S, f, j)
    PROVE  LineInv(m, R, f, last)
<1>0. Len(l) \in Nat /\ \A i \in 1 .. Len(l) : l[i].ts \in Nat /\ l[i].mts \in Nat
  BY LineObjects
<1>1. /\ Len(m) = Len(l)
      /\ \A i \in 1 .. Len(l) : m[i].type = l[i].type /\ m[i].ts = l[i].ts /\ m[i].mts = l[i].mts
  BY DEF Restated
<1>2. ASSUME NEW j \in 1 .. Len(l), NEW n, Covers(l, S, n, j)
      PROVE  Covers(m, R, n, j)
  <2>1. \A k \in 1 .. j - 1 : k \in 1 .. Len(l)
    BY <1>0
  <2>2. \A k \in 1 .. j - 1 : m[k].ts = l[k].ts
    BY <1>1, <2>1
  <2>3. j \in Nat /\ j <= j
    BY <1>0
  <2> QED BY <1>2, <2>2, <2>3, CoversLess
<1>3. Stamped(m, last)
  BY <1>1 DEF LineInv, Stamped, Restated
<1>4. Sorted(m, R)
  <2> SUFFICES ASSUME NEW j \in 1 .. Len(l), l[j].ts # 0
               PROVE  (\A t \in R : t < l[j].ts) /\ \A i \in 1 .. j - 1 : m[i].ts < l[j].ts
    BY <1>1 DEF Sorted
  <2>1. \A i \in 1 .. j - 1 : i \in 1 .. Len(l)
    BY <1>0
  <2> QED BY <1>1, <2>1 DEF LineInv, Sorted
<1>6. MarkersWait(m, R)
  BY <1>1, <1>2 DEF LineInv, MarkersWait
<1>7. SyncsWait(m, R)
  BY <1>1, <1>2 DEF LineInv, SyncsWait
<1>8. SyncsSignal(m, R, f)
  <2> SUFFICES ASSUME NEW j \in 1 .. Len(l), l[j].type = "sync", m[j].state = "ready",
                      Covers(m, R, l[j].mts, j)
               PROVE  Covers(m, R, f, j)
    BY <1>1 DEF SyncsSignal
  <2>0. /\ l[j].mts \in Nat /\ j \in Nat
        /\ \A i \in 1 .. j - 1 : m[i].ts = l[i].ts /\ l[i].ts \in Nat
    BY <1>0, <1>1
  <2>1. CASE l[j].mts <= f
    <3>1. (\A t \in R : t <= l[j].mts) /\ \A i \in 1 .. j - 1 : m[i].ts <= l[j].mts
      BY DEF Covers
    <3>2. \A t \in R : t \in Nat
      OBVIOUS
    <3>3. \A t \in R : t <= f
      BY <2>0, <2>1, <3>1, <3>2
    <3>4. \A i \in 1 .. j - 1 : m[i].ts <= f
      BY <2>0, <2>1, <3>1
    <3> QED BY <3>3, <3>4 DEF Covers
  <2>2. CASE ~(l[j].mts <= f)
    <3>1. l[j].mts # 0
      BY <2>0, <2>2
    <3>2. Covers(l, S, l[j].mts, j)
      BY <3>1 DEF LineInv, SyncsWait
    <3>3. l[j].state = "ready"
      BY <1>1, <2>2 DEF Restated
    <3>4. Covers(l, S, e, j)
      BY <3>2, <3>3 DEF LineInv, SyncsSignal
    <3> QED BY <1>2, <2>0, <3>4
  <2> QED BY <2>1, <2>2
<1>9. AuxWaits(m, R, f)
  <2> SUFFICES ASSUME NEW j \in 1 .. Len(l), Aux(l[j])
               PROVE  Covers(m, R, f, j) \/ \E i \in 1 .. j - 1 : Behind(m, R, j, i)
    BY <1>1 DEF AuxWaits, Aux
  <2>1. CASE Covers(l, S, e, j)
    <3>1. j \in Nat
      BY <1>0
    <3> QED BY <1>2, <2>1, <3>1
  <2>2. ASSUME NEW i \in 1 .. j - 1, Behind(l, S, j, i)
        PROVE  Behind(m, R, j, i)
    <3>1. \A k \in 1 .. j - 1 : k \in 1 .. Len(l)
      BY <1>0
    <3>2. \A k \in 1 .. j - 1 : m[k].type = l[k].type /\ m[k].mts = l[k].mts
      BY <1>1, <3>1
    <3>3. i \in 1 .. Len(l) /\ l[i].type = "sync" /\ Covers(l, S, l[i].mts, i)
      BY <2>2, <3>1 DEF Behind
    <3>4. Covers(m, R, l[i].mts, i)
      BY <1>2, <3>3
    <3>5. \A k \in 1 .. j - 1 : k >= i => m[k].type = "sync"
      BY <2>2, <3>2 DEF Behind
    <3> QED BY <3>2, <3>3, <3>4, <3>5 DEF Behind
  <2> QED BY <2>1, <2>2 DEF LineInv, AuxWaits
<1> QED
  BY <1>3, <1>4, <1>6, <1>7, <1>8, <1>9 DEF LineInv

\* The first object leaves the line: it goes to out, or it needs no GPU and is
\* retired.
LEMMA LineLeaves ==
    ASSUME NEW l \in Seq(Objects), NEW m \in Seq(Objects), NEW S \in SUBSET Nat,
           NEW R \in SUBSET (S \cup {l[1].ts}), NEW e \in Nat, NEW f \in Nat, NEW last \in Nat,
           LineInv(l, S, e, last), Rest(m, l), l[1].type = "sync" => l[1].state = "ready",
           f = e \/ (l[1].type # "sync" /\ f = l[1].ts)
    PROVE  LineInv(m, R, f, last)
<1>0. Len(l) \in Nat /\ \A i \in 1 .. Len(l) : l[i].ts \in Nat /\ l[i].mts \in Nat
  BY LineObjects
<1>1. /\ Len(l) >= 1 /\ Len(m) = Len(l) - 1 /\ 1 \in 1 .. Len(l)
      /\ \A j \in 1 .. Len(m) : /\ m[j] = l[j + 1] /\ j + 1 \in 1 .. Len(l) /\ j \in 1 .. Len(l) - 1
                                /\ j + 1 # 1 /\ j \in Nat
  BY <1>0 DEF Rest
<1>2. ASSUME NEW j \in 1 .. Len(m), NEW n, Covers(l, S, n, j + 1)
      PROVE  Covers(m, R, n, j)
  <2>1. j \in 1 .. Len(l) - 1
    BY <1>1
  <2> QED BY <1>2, <2>1, CoversRest
<1>a. R \subseteq Nat
  BY <1>0, <1>1
<1>c. \A j \in 1 .. Len(m) : \A i \in 1 .. j - 1 : m[i].ts \in Nat
  <2>1. \A i \in 1 .. Len(m) : m[i].ts \in Nat
    BY <1>0, <1>1
  <2>2. \A j \in 1 .. Len(m) : \A i \in 1 .. j - 1 : i \in 1 .. Len(m)
    BY <1>0, <1>1
  <2> QED BY <2>1, <2>2
<1>3. Stamped(m, last)
  BY <1>1 DEF LineInv, Stamped
<1>4. Sorted(m, R)
  <2> SUFFICES ASSUME NEW j \in 1 .. Len(m), m[j].ts # 0
               PROVE  (\A t \in R : t < m[j].ts) /\ \A i \in 1 .. j - 1 : m[i].ts < m[j].ts
    BY DEF Sorted
  <2>1. /\ \A t \in S : t < l[j + 1].ts
        /\ \A i \in 1 .. (j + 1) - 1 : l[i].ts < l[j + 1].ts
    BY <1>1 DEF LineInv, Sorted
  <2>2. 1 \in 1 .. (j + 1) - 1 /\ \A i \in 1 .. j - 1 : i + 1 \in 1 .. (j + 1) - 1 /\ i \in 1 .. Len(m)
    BY <1>1
  <2> QED BY <1>1, <2>1, <2>2
<1>5. Unretired(m, f)
  <2> SUFFICES ASSUME NEW j \in 1 .. Len(m), m[j].ts # 0
               PROVE  f < m[j].ts
    BY DEF Unretired
  <2>1. l[j + 1].state # "expired" /\ m[j] = l[j + 1] /\ j + 1 \in 1 .. Len(l)
    BY <1>1 DEF LineInv, Stamped
  <2>2. e < m[j].ts
    BY <2>1 DEF LineInv, Unretired
  <2>3. l[1].ts < m[j].ts
    <3>1. 1 \in 1 .. (j + 1) - 1
      BY <1>1
    <3> QED BY <2>1, <3>1 DEF LineInv, Sorted
  <2> QED BY <2>2, <2>3
<1>6. MarkersWait(m, R)
  BY <1>1, <1>2 DEF LineInv, MarkersWait
<1>7. SyncsWait(m, R)
  BY <1>1, <1>2 DEF LineInv, SyncsWait
<1>b. ASSUME NEW j \in 1 .. Len(m), Covers(m, R, e, j)
      PROVE  Covers(m, R, f, j)
  <2> SUFFICES ASSUME l[1].type # "sync", f = l[1].ts PROVE Covers(m, R, f, j)
    BY <1>b
  <2>1. (\A t \in R : t <= e) /\ \A i \in 1 .. j - 1 : m[i].ts <= e
    BY <1>b DEF Covers
  <2>2. \A t \in S : t < f
    <3>1. l[1].ts # 0
      BY <1>1 DEF LineInv, Stamped
    <3> QED BY <1>1, <3>1 DEF LineInv, Sorted
  <2>3. \A t \in R : t <= f
    <3>1. \A t \in R : t \in S \/ t = f
      OBVIOUS
    <3> QED BY <1>a, <2>2, <3>1
  <2>4. \A i \in 1 .. j - 1 : m[i].ts = 0
    <3> SUFFICES ASSUME NEW i \in 1 .. j - 1 PROVE m[i].ts = 0
      OBVIOUS
    <3>1. i \in 1 .. Len(m) /\ m[i].ts \in Nat
      BY <1>0, <1>1, <1>c
    <3>2. m[i] = l[i + 1] /\ i + 1 \in 1 .. Len(l) /\ l[i + 1].state # "expired"
      BY <1>1, <3>1 DEF LineInv, Stamped
    <3>3. m[i].ts # 0 => e < m[i].ts
      BY <3>2 DEF LineInv, Unretired
    <3> QED BY <2>1, <3>1, <3>3
  <2> QED BY <2>3, <2>4 DEF Covers
<1>8. SyncsSignal(m, R, f)
  <2> SUFFICES ASSUME NEW j \in 1 .. Len(m), m[j].type = "sync", m[j].state = "ready",
                      Covers(m, R, m[j].mts, j)
               PROVE  Covers(m, R, f, j)
    BY DEF SyncsSignal
  <2>0. m[j] = l[j + 1] /\ j + 1 \in 1 .. Len(l)
    BY <1>1
  <2>1. CASE m[j].mts = 0
    <3>1. (\A t \in R : t <= 0) /\ \A i \in 1 .. j - 1 : m[i].ts <= 0
      BY <2>1 DEF Covers
    <3>2. \A t \in R : t <= f
      BY <1>a, <3>1
    <3>3. \A i \in 1 .. j - 1 : m[i].ts \in Nat
      BY <1>c
    <3>4. \A i \in 1 .. j - 1 : m[i].ts <= f
      BY <3>1, <3>3
    <3> QED BY <3>2, <3>4 DEF Covers
  <2>2. CASE m[j].mts # 0
    <3>1. Covers(l, S, m[j].mts, j + 1)
      BY <2>0, <2>2 DEF LineInv, SyncsWait
    <3>2. Covers(l, S, e, j + 1)
      BY <2>0, <3>1 DEF LineInv, SyncsSignal
    <3> QED BY <1>2, <1>b, <3>2
  <2> QED BY <2>1, <2>2
<1>9. AuxWaits(m, R, f)
  <2> SUFFICES ASSUME NEW j \in 1 .. Len(m), Aux(m[j])
               PROVE  Covers(m, R, f, j) \/ \E i \in 1 .. j - 1 : Behind(m, R, j, i)
    BY DEF AuxWaits
  <2>0. m[j] = l[j + 1] /\ j + 1 \in 1 .. Len(l) /\ j \in Nat
    BY <1>1
  <2>1. CASE Covers(l, S, e, j + 1)
    BY <1>2, <1>b, <2>1
  <2>2. ASSUME NEW i \in 1 .. (j + 1) - 1, Behind(l, S, j + 1, i), i # 1
        PROVE  \E h \in 1 .. j - 1 : Behind(m, R, j, h)
    <3>1. PICK h \in 1 .. j - 1 : i = h + 1
      <4>1. i - 1 \in 1 .. j - 1 /\ i = (i - 1) + 1
        BY <2>0, <2>2
      <4> QED BY <4>1
    <3>2. m[h] = l[i] /\ h \in 1 .. Len(m)
      BY <1>1, <3>1
    <3>3. Covers(m, R, m[h].mts, h)
      BY <1>2, <2>2, <3>1, <3>2 DEF Behind
    <3>4. \A k \in 1 .. j - 1 : k >= h => m[k].type = "sync"
      <4> SUFFICES ASSUME NEW k \in 1 .. j - 1, k >= h PROVE m[k].type = "sync"
        OBVIOUS
      <4>1. k + 1 \in 1 .. (j + 1) - 1 /\ k + 1 >= i /\ m[k] = l[k + 1]
        BY <1>1, <2>0, <3>1
      <4> QED BY <2>2, <4>1 DEF Behind
    <3> QED BY <2>2, <3>2, <3>3, <3>4 DEF Behind
  <2>3. ASSUME Behind(l, S, j + 1, 1)
        PROVE  Covers(m, R, f, j)
    <3>1. /\ l[1].type = "sync" /\ Covers(l, S, l[1].mts, 1)
          /\ \A k \in 1 .. (j + 1) - 1 : k >= 1 => l[k].type = "sync"
      BY <2>3 DEF Behind
    <3>2. Covers(l, S, e, 1)
      BY <1>1, <3>1 DEF LineInv, SyncsSignal
    <3>3. \A k \in 1 .. j - 1 : m[k].ts = 0
      <4> SUFFICES ASSUME NEW k \in 1 .. j - 1 PROVE m[k].ts = 0
        OBVIOUS
      <4>1. k + 1 \in 1 .. (j + 1) - 1 /\ k + 1 >= 1 /\ m[k] = l[k + 1] /\ k + 1 \in 1 .. Len(l)
        BY <1>1, <2>0
      <4>2. l[k + 1].type = "sync"
        BY <3>1, <4>1
      <4> QED BY <4>1, <4>2 DEF LineInv, Stamped
    <3>4. l[1].ts = 0
      BY <1>1, <3>1 DEF LineInv, Stamped
    <3>5. \A t \in S : t <= e
      BY <3>2 DEF Covers
    <3>6. \A t \in R : t <= e
      BY <3>4, <3>5
    <3> QED BY <1>b, <3>3, <3>6 DEF Covers
  <2> QED BY <2>0, <2>1, <2>2, <2>3 DEF LineInv, AuxWaits
<1> QED
  BY <1>3, <1>4, <1>5, <1>6, <1>7, <1>8, <1>9 DEF LineInv

\* Objects are queued behind the line.
LEMMA LineGrows ==
    ASSUME NEW l \in Seq(Objects), NEW m \in Seq(Objects), NEW S \in SUBSET Nat,
           NEW e \in Nat, NEW last \in Nat, NEW new \in Nat,
           LineInv(l, S, e, last), Longer(m, l, last, new), last <= new,
           last < new => e < new, \A t \in S : t <= last
    PROVE  LineInv(m, S, e, new)
<1>0. /\ Len(l) \in Nat /\ \A i \in 1 .. Len(l) : l[i].ts \in Nat /\ l[i].mts \in Nat
      /\ Len(m) \in Nat /\ \A i \in 1 .. Len(m) : m[i].ts \in Nat /\ m[i].mts \in Nat
  BY LineObjects
<1>1. /\ Len(m) >= Len(l) /\ \A i \in 1 .. Len(l) : Alike(m[i], l[i]) /\ i \in 1 .. Len(m)
  BY <1>0 DEF Longer
<1>2. \A i \in 1 .. Len(l) : /\ m[i].type = l[i].type /\ m[i].ts = l[i].ts /\ m[i].mts = l[i].mts
                             /\ m[i].state = l[i].state
  BY <1>1 DEF Alike
<1>3. ASSUME NEW j \in 1 .. Len(l), NEW n, Covers(l, S, n, j)
      PROVE  Covers(m, S, n, j)
  <2>1. \A k \in 1 .. j - 1 : k \in 1 .. Len(l)
    BY <1>0
  <2>2. \A k \in 1 .. j - 1 : m[k].ts = l[k].ts
    BY <1>2, <2>1
  <2>3. j \in Nat /\ j <= j
    BY <1>0
  <2> QED BY <1>3, <2>2, <2>3, CoversLess
<1>4. \A i \in 1 .. Len(m) : i < Len(m) => m[i].ts <= last
  <2> SUFFICES ASSUME NEW i \in 1 .. Len(m), i < Len(m) PROVE m[i].ts <= last
    OBVIOUS
  <2>1. CASE i <= Len(l)
    <3>1. i \in 1 .. Len(l)
      BY <1>0, <2>1
    <3> QED BY <1>2, <3>1 DEF LineInv, Stamped
  <2>2. CASE i > Len(l)
    <3>1. m[i].type = "sync" => m[i].ts = 0
      BY <2>2 DEF Longer
    <3>2. m[i].type = "sync"
      BY <1>0, <2>2 DEF Longer
    <3> QED BY <3>1, <3>2
  <2> QED BY <1>0, <2>1, <2>2
<1>5. ASSUME NEW j \in 1 .. Len(m), NEW n \in Nat, last <= n
      PROVE  Covers(m, S, n, j)
  <2>1. \A t \in S : t <= n
    BY <1>5
  <2>2. \A i \in 1 .. j - 1 : i \in 1 .. Len(m) /\ i < Len(m)
    BY <1>0
  <2>3. \A i \in 1 .. j - 1 : m[i].ts <= last /\ m[i].ts \in Nat
    BY <1>0, <1>4, <2>2
  <2>4. \A i \in 1 .. j - 1 : m[i].ts <= n
    BY <1>5, <2>3
  <2> QED BY <2>1, <2>4 DEF Covers
<1>6. \A j \in 1 .. Len(m) : j > Len(l) \/ j \in 1 .. Len(l)
  BY <1>0
<1>7. Stamped(m, new)
  <2> SUFFICES ASSUME NEW j \in 1 .. Len(m)
               PROVE  /\ m[j].ts <= new /\ (m[j].ts = 0 <=> m[j].type = "sync")
                      /\ m[j].state = "expired" => j = 1 /\ m[j].type = "marker"
    BY DEF Stamped
  <2>1. CASE j \in 1 .. Len(l)
    <3>1. /\ l[j].ts <= last /\ (l[j].ts = 0 <=> l[j].type = "sync")
          /\ l[j].state = "expired" => j = 1 /\ l[j].type = "marker"
      BY <2>1 DEF LineInv, Stamped
    <3>2. l[j].ts <= new
      BY <1>0, <2>1, <3>1
    <3> QED BY <1>2, <2>1, <3>1, <3>2
  <2>2. CASE j > Len(l)
    <3>1. m[j].state = "wait" /\ (m[j].type = "sync" => m[j].ts = 0)
          /\ (m[j].type # "sync" => m[j].ts = new /\ last < new)
      BY <2>2 DEF Longer
    <3> QED BY <3>1
  <2> QED BY <1>6, <2>1, <2>2
<1>8. Sorted(m, S)
  <2> SUFFICES ASSUME NEW j \in 1 .. Len(m), m[j].ts # 0
               PROVE  (\A t \in S : t < m[j].ts) /\ \A i \in 1 .. j - 1 : m[i].ts < m[j].ts
    BY DEF Sorted
  <2>1. CASE j \in 1 .. Len(l)
    <3>1. \A i \in 1 .. j - 1 : i \in 1 .. Len(l)
      BY <1>0, <2>1
    <3>2. (\A t \in S : t < l[j].ts) /\ \A i \in 1 .. j - 1 : l[i].ts < l[j].ts
      BY <1>2, <2>1 DEF LineInv, Sorted
    <3> QED BY <1>2, <2>1, <3>1, <3>2
  <2>2. CASE j > Len(l)
    <3>1. m[j].ts = new /\ last < new /\ j = Len(m)
      BY <2>2 DEF Longer
    <3>2. \A i \in 1 .. j - 1 : i \in 1 .. Len(m) /\ i < Len(m)
      BY <1>0
    <3>3. \A i \in 1 .. j - 1 : m[i].ts <= last /\ m[i].ts \in Nat
      BY <1>0, <1>4, <3>2
    <3>4. \A t \in S : t <= last /\ t \in Nat
      OBVIOUS
    <3>5. \A t \in S : t < m[j].ts
      BY <3>1, <3>4
    <3>6. \A i \in 1 .. j - 1 : m[i].ts < m[j].ts
      BY <3>1, <3>3
    <3> QED BY <3>5, <3>6
  <2> QED BY <1>6, <2>1, <2>2
<1>9. Unretired(m, e)
  <2> SUFFICES ASSUME NEW j \in 1 .. Len(m), m[j].ts # 0, m[j].state # "expired"
               PROVE  e < m[j].ts
    BY DEF Unretired
  <2>1. CASE j \in 1 .. Len(l)
    BY <1>2, <2>1 DEF LineInv, Unretired
  <2>2. CASE j > Len(l)
    <3>1. m[j].ts = new /\ last < new
      BY <2>2 DEF Longer
    <3> QED BY <3>1
  <2> QED BY <1>6, <2>1, <2>2
<1>10. MarkersWait(m, S)
  <2> SUFFICES ASSUME NEW j \in 1 .. Len(m), m[j].type = "marker"
               PROVE  Covers(m, S, m[j].mts, j)
    BY DEF MarkersWait
  <2>1. CASE j \in 1 .. Len(l)
    BY <1>2, <1>3, <2>1 DEF LineInv, MarkersWait
  <2>2. CASE j > Len(l)
    <3>1. m[j].mts = last
      BY <2>2 DEF Longer
    <3> QED BY <1>5, <3>1
  <2> QED BY <1>6, <2>1, <2>2
<1>11. SyncsWait(m, S)
  <2> SUFFICES ASSUME NEW j \in 1 .. Len(m), m[j].type = "sync"
               PROVE  m[j].mts = 0 \/ Covers(m, S, m[j].mts, j)
    BY DEF SyncsWait
  <2>1. CASE j \in 1 .. Len(l)
    BY <1>2, <1>3, <2>1 DEF LineInv, SyncsWait
  <2>2. CASE j > Len(l)
    <3>1. m[j].mts = 0 \/ m[j].mts >= last
      BY <2>2 DEF Longer
    <3>2. m[j].mts \in Nat
      BY <1>0
    <3> QED BY <1>5, <3>1, <3>2
  <2> QED BY <1>6, <2>1, <2>2
<1>12. SyncsSignal(m, S, e)
  <2> SUFFICES ASSUME NEW j \in 1 .. Len(m), m[j].type = "sync", m[j].state = "ready",
                      Covers(m, S, m[j].mts, j)
               PROVE  Covers(m, S, e, j)
    BY DEF SyncsSignal
  <2>1. j \in 1 .. Len(l)
    <3>1. CASE j > Len(l)
      <4>1. m[j].state = "wait"
        BY <3>1 DEF Longer
      <4> QED BY <4>1
    <3> QED BY <1>6, <3>1
  <2>2. Covers(l, S, l[j].mts, j)
    <3>1. \A k \in 1 .. j - 1 : k \in 1 .. Len(l)
      BY <1>0, <2>1
    <3>2. \A k \in 1 .. j - 1 : l[k].ts = m[k].ts
      BY <1>2, <3>1
    <3>3. j \in Nat /\ j <= j
      BY <1>0
    <3> QED BY <1>2, <2>1, <3>2, <3>3, CoversLess
  <2>3. Covers(l, S, e, j)
    BY <1>2, <2>1, <2>2 DEF LineInv, SyncsSignal
  <2> QED BY <1>3, <2>1, <2>3
<1>13. AuxWaits(m, S, e)
  <2> SUFFICES ASSUME NEW j \in 1 .. Len(m), Aux(m[j])
               PROVE  Covers(m, S, e, j) \/ \E i \in 1 .. j - 1 : Behind(m, S, j, i)
    BY DEF AuxWaits
  <2>1. CASE j \in 1 .. Len(l)
    <3>0. Aux(l[j])
      BY <1>2, <2>1 DEF Aux
    <3>1. CASE Covers(l, S, e, j)
      BY <1>3, <2>1, <3>1
    <3>2. ASSUME NEW i \in 1 .. j - 1, Behind(l, S, j, i)
          PROVE  Behind(m, S, j, i)
      <4>1. \A k \in 1 .. j - 1 : k \in 1 .. Len(l)
        BY <1>0, <2>1
      <4>2. \A k \in 1 .. j - 1 : m[k].type = l[k].type /\ m[k].mts = l[k].mts
        BY <1>2, <4>1
      <4>3. i \in 1 .. Len(l) /\ l[i].type = "sync" /\ Covers(l, S, l[i].mts, i)
        BY <3>2, <4>1 DEF Behind
      <4>4. Covers(m, S, l[i].mts, i)
        BY <1>3, <4>3
      <4>5. \A k \in 1 .. j - 1 : k >= i => m[k].type = "sync"
        BY <3>2, <4>2 DEF Behind
      <4> QED BY <4>2, <4>3, <4>4, <4>5 DEF Behind
    <3> QED BY <2>1, <3>0, <3>1, <3>2 DEF LineInv, AuxWaits
  <2>2. CASE j > Len(l)
    <3>1. j - 1 > Len(l) /\ m[j - 1].type = "sync" /\ m[j - 1].mts >= last
      BY <2>2 DEF Longer
    <3>2. j - 1 \in 1 .. j - 1 /\ j - 1 \in 1 .. Len(m)
      BY <1>0, <3>1
    <3>3. Covers(m, S, m[j - 1].mts, j - 1)
      BY <1>0, <1>5, <3>1, <3>2
    <3>4. \A k \in 1 .. j - 1 : k >= j - 1 => m[k].type = "sync"
      BY <3>1
    <3> QED BY <3>1, <3>2, <3>3, <3>4 DEF Behind
  <2> QED BY <1>6, <2>1, <2>2
<1> QED
  BY <1>7, <1>8, <1>9, <1>10, <1>11, <1>12, <1>13 DEF LineInv

-----------------------------------------------------------------------------
(***************************************************************************)
(* The invariant.                                                          *)
(***************************************************************************)

\* The object of context c that the dispatcher with frame d has in its hands,
\* and the line of a context: that object, then the queue.
Hand(d, c) == IF d.ctx = c THEN d.obj ELSE None
LineOf(o, q) == IF o = None THEN q ELSE <<o>> \o q
Line(c) == LineOf(Hand(disp, c), queue[c])

\* The timestamps of context c on cmd_list.
Out(c) ==
    {t \in Nat : \E k \in 1 .. Len(cmdList) : cmdList[k].ctx = c /\ cmdList[k].obj.ts = t}

\* The queue of context c has not been emptied.
Live(c) == dpc[c] \in {"live", "marked"} /\ "INVALID" \notin bits[c]

\* Nothing retires that was not issued, nothing is listed that was not queued.
Times ==
    \A c \in Ctx :
        /\ queuedTs[c] <= timestamp[c] /\ eop[c] <= timestamp[c]
        /\ \A t \in Out(c) : t <= queuedTs[c]

\* The lines are in order as long as the queues are not emptied.
LineOk(c) == LineInv(Line(c), Out(c), eop[c], queuedTs[c])
Lines == \A c \in Ctx : Live(c) => LineOk(c)

\* What is in the dispatcher's hands is for the GMU, and its context is not
\* invalidated behind its back but by the detach.
HandIs ==
    disp.obj # None =>
        /\ disp.obj.type \in {"cmd", "big", "marker"}
        /\ "INVALID" \in bits[disp.ctx] => "DETACHED" \in bits[disp.ctx]

\* The sync objects os wait for nothing of the context, or for what was queued
\* last; the one before a bind or a timeline object does the latter.
BatchWaits(os, last) ==
    /\ \A k \in 1 .. Len(os) : os[k].type = "sync" => os[k].mts = 0 \/ os[k].mts >= last
    /\ Aux(os[Len(os)]) => os[Len(os) - 1].mts >= last

\* So do the batches of the threads that wait for the lock or for room.
BatchesWait ==
    \A p \in Threads : pc[p] \in {"queue", "sleep", "woken"} =>
        BatchWaits(batch[p], queuedTs[CtxOf(p)])

\* The commands of a context are on cmd_list in the order of their timestamps.
EntriesUp ==
    \A i, j \in 1 .. Len(cmdList) :
        i < j /\ cmdList[i].ctx = cmdList[j].ctx => cmdList[i].obj.ts < cmdList[j].obj.ts

\* The GMU holds commands of the list, in order, and none that has retired.
GmuListed == \A c \in Ctx : \A i \in 1 .. Len(gmu[c]) : gmu[c][i] \in Out(c)
GmuUp == \A c \in Ctx : \A i, j \in 1 .. Len(gmu[c]) : i < j => gmu[c][i] < gmu[c][j]
GmuAhead ==
    \A c \in Ctx : fault = {} \/ Live(c) => \A i \in 1 .. Len(gmu[c]) : eop[c] < gmu[c][i]

\* What has started and not retired is listed, until a reset clears the list of
\* a bad context.
Started ==
    \A c \in Ctx : sop[c] # eop[c] =>
        \/ eop[c] < sop[c] /\ sop[c] \in Out(c)
        \/ bits[c] # {} /\ Out(c) = {}

\* The command that the GMU blames is listed and has not retired.
Blamed ==
    ctxtBad # None =>
        /\ fault # {} /\ ctxtBad[2] \in Out(ctxtBad[1])
        /\ Live(ctxtBad[1]) => eop[ctxtBad[1]] < ctxtBad[2]

\* All of it.
Order ==
    /\ Times /\ Lines /\ HandIs /\ BatchesWait /\ EntriesUp
    /\ GmuListed /\ GmuUp /\ GmuAhead /\ Started /\ Blamed

-----------------------------------------------------------------------------
(***************************************************************************)
(* What the steps do to the lines, to cmd_list and to the memstore.        *)
(***************************************************************************)
\* The objects of a line.
LEMMA LineOfIs ==
    ASSUME NEW q \in Seq(Objects), NEW o \in Objects \cup {None}
    PROVE  /\ LineOf(o, q) \in Seq(Objects)
           /\ o = None => LineOf(o, q) = q
           /\ o # None => /\ Len(LineOf(o, q)) = Len(q) + 1 /\ LineOf(o, q)[1] = o
                          /\ \A j \in 1 .. Len(q) : LineOf(o, q)[j + 1] = q[j]
<1>1. CASE o = None
  BY <1>1 DEF LineOf
<1>2. CASE o # None
  <2>1. o \in Objects /\ LineOf(o, q) = <<o>> \o q
    BY <1>2 DEF LineOf
  <2>2. PICK u \in Seq(Objects) : u = <<o>>
    <3>1. <<o>> \in Seq(Objects)
      BY <2>1
    <3> QED BY <3>1
  <2>3. Len(u) = 1 /\ u[1] = o
    BY <2>2
  <2>4. u \o q \in Seq(Objects) /\ Len(u \o q) = Len(u) + Len(q) /\ Len(q) \in Nat
    OBVIOUS
  <2>5. \A i \in 1 .. Len(u) + Len(q) : (u \o q)[i] = IF i <= Len(u) THEN u[i] ELSE q[i - Len(u)]
    OBVIOUS
  <2>6. (u \o q)[1] = o
    BY <2>3, <2>4, <2>5
  <2>7. ASSUME NEW j \in 1 .. Len(q) PROVE (u \o q)[j + 1] = q[j]
    <3>1. j + 1 \in 1 .. Len(u) + Len(q) /\ ~(j + 1 <= Len(u)) /\ (j + 1) - Len(u) = j
      BY <2>3, <2>4
    <3> QED BY <2>5, <3>1
  <2> QED BY <1>2, <2>1, <2>2, <2>3, <2>4, <2>6, <2>7
<1> QED
  BY <1>1, <1>2

\* The line of a context has the type that its queue and the dispatcher give it.
LineTyped(c) == queue[c] \in Seq(Objects) /\ Hand(disp, c) \in Objects \cup {None} /\ Line(c) \in Seq(Objects)

\* All lines have it.
LEMMA LinesTyped == CtxTypes /\ DispTypes => \A c \in Ctx : LineTyped(c)
<1> SUFFICES ASSUME CtxTypes, DispTypes, NEW c \in Ctx PROVE LineTyped(c)
  OBVIOUS
<1>1. queue[c] \in Seq(Objects)
  BY DEF CtxTypes
<1>2. Hand(disp, c) \in Objects \cup {None}
  BY DEF DispTypes, DispType, Hand
<1> QED
  BY <1>1, <1>2, LineOfIs DEF LineTyped, Line

\* Nothing of the lines, of cmd_list and of what has retired changes.
Calm ==
    /\ UNCHANGED <<queue, timestamp, queuedTs, eop, cmdList, bigObj, gmu>>
    /\ disp' = disp \/ disp'.obj = None
    /\ \A x \in Ctx : Hand(disp', x) = Hand(disp, x)

\* The steps, but for those that leave all of this alone.
Moves ==
    \/ Calm
    \/ \E p \in Threads : SubmitOutcome(p) /\ Fast(p)
    \/ \E p \in Threads : SubmitOutcome(p) /\ \E os : Offers(p, os) /\ Enqueues(p, os)
    \/ WalkOutcome \/ SendOutcome \/ RequeueOutcome \/ retire_cmd_list \/ FaultOutcome
    \/ \E c \in Ctx :
        \/ GpuRetire(c) \/ adreno_hwsched_queue_context(c) \/ drawctxt_detach_drawobjs(c)
        \/ gen7_hwsched_context_detach(c) \/ UnregisterTimeout(c)

\* Most steps leave them alone.
LEMMA MovesStep ==
    ASSUME TypeOK, Control, Step
    PROVE  Moves
<1>a. /\ disp.pc \notin {"send", "back"} => disp.obj = None
      /\ NoDisp.obj = None /\ [NoDisp EXCEPT !.pc = "level"].obj = None
  BY DEF Control, ControlOf, NoDisp
<1>1. ASSUME NEW p \in Threads, SubmitOutcome(p)
      PROVE  Moves
  <2>1. CASE Refused(p)
    BY <1>1, <2>1 DEF SubmitOutcome, SubmitRest, Refused, Moves, Calm, ctxVars, gpuVars, schedVars
  <2>2. ASSUME NEW os, Sleeps(p, os)
        PROVE  Moves
    BY <1>1, <2>2 DEF SubmitOutcome, SubmitRest, Sleeps, Moves, Calm, ctxVars, gpuVars, schedVars
  <2> QED BY <1>1, <2>1, <2>2 DEF SubmitOutcome, Moves
<1>2. ASSUME NEW p \in Threads, kgsl_ioctl_gpu_aux_command(p)
      PROVE  Moves
  BY <1>2 DEF kgsl_ioctl_gpu_aux_command, Moves, Calm, ctxVars, gpuVars, schedVars, faultVars, threadVars, boundVars, listVars
<1>3. ASSUME NEW p \in Threads, _wait_for_room_in_context_queue(p)
      PROVE  Moves
  BY <1>3 DEF _wait_for_room_in_context_queue, Moves, Calm, ctxVars, gpuVars, schedVars, faultVars, threadVars, boundVars, listVars
<1>4. ASSUME NEW p \in Threads, WaitTimeout(p)
      PROVE  Moves
  BY <1>4 DEF WaitTimeout, Moves, Calm, ctxVars, gpuVars, schedVars, faultVars, threadVars, boundVars, listVars
<1>5. ASSUME NEW p \in Threads, QueueJob(p)
      PROVE  Moves
  BY <1>5 DEF QueueJob, Moves, Calm, ctxVars, gpuVars, schedVars, faultVars, threadVars, boundVars, listVars
<1>6. ASSUME NEW p \in Threads, adreno_hwsched_issuecmds(p)
      PROVE  Moves
  <2>1. /\ disp' = disp \/ disp'.obj = None
        /\ \A x \in Ctx : Hand(disp', x) = Hand(disp, x)
    <3>1. CASE mutex # None \/ fault # {}
      BY <1>6, <3>1 DEF adreno_hwsched_issuecmds
    <3>2. CASE ~(mutex # None \/ fault # {})
      <4>1. disp.obj = None
        BY <1>a, <3>2 DEF Control, ControlOf
      <4>2. disp'.obj = None
        BY <1>6, <1>a, <3>2 DEF adreno_hwsched_issuecmds
      <4> QED BY <4>1, <4>2 DEF Hand
    <3> QED BY <3>1, <3>2
  <2> QED BY <1>6, <2>1 DEF adreno_hwsched_issuecmds, Moves, Calm, ctxVars, gpuVars, schedVars
<1>7. ASSUME NEW p \in Threads, IssuedByThread(p)
      PROVE  Moves
  <2>1. disp.obj = None /\ disp'.obj = None
    BY <1>7, <1>a DEF IssuedByThread, Issued
  <2>2. \A x \in Ctx : Hand(disp', x) = Hand(disp, x)
    BY <2>1 DEF Hand
  <2> QED BY <1>7, <2>1, <2>2 DEF IssuedByThread, Issued, Moves, Calm, ctxVars, gpuVars, schedVars
<1>8. ASSUME hwsched_handle_jobs
      PROVE  Moves
  <2>1. disp.obj = None /\ disp'.obj = None
    BY <1>8, <1>a, JobArrives DEF hwsched_handle_jobs, AtRest
  <2>2. \A x \in Ctx : Hand(disp', x) = Hand(disp, x)
    BY <2>1 DEF Hand
  <2> QED BY <1>8, <2>1, <2>2 DEF hwsched_handle_jobs, AtRest, Moves, Calm, ctxVars, gpuVars, schedVars
<1>9. ASSUME hwsched_handle_jobs_list
      PROVE  Moves
  <2>1. disp.obj = None /\ disp'.obj = None
    BY <1>9, <1>a, JobArrives DEF hwsched_handle_jobs_list, AtRest
  <2>2. \A x \in Ctx : Hand(disp', x) = Hand(disp, x)
    BY <2>1 DEF Hand
  <2> QED BY <1>9, <2>1, <2>2 DEF hwsched_handle_jobs_list, AtRest, Moves, Calm, ctxVars, gpuVars, schedVars
<1>10. ASSUME WalkOutcome
       PROVE  Moves
  BY <1>10 DEF Moves
<1>11. ASSUME SendOutcome
       PROVE  Moves
  BY <1>11 DEF Moves
<1>12. ASSUME RequeueOutcome
       PROVE  Moves
  BY <1>12 DEF Moves
<1>13. ASSUME SendcmdsDone
       PROVE  Moves
  <2>1. disp.obj = None /\ disp'.obj = None
    BY <1>13, <1>a, JobDone DEF SendcmdsDone, JobEnds
  <2>2. \A x \in Ctx : Hand(disp', x) = Hand(disp, x)
    BY <2>1 DEF Hand
  <2> QED BY <1>13, <2>1, <2>2 DEF SendcmdsDone, JobEnds, Moves, Calm, ctxVars, gpuVars, schedVars
<1>14. ASSUME IssuedByWorker
       PROVE  Moves
  <2>1. disp.obj = None /\ disp'.obj = None
    BY <1>14, <1>a DEF IssuedByWorker, Issued
  <2>2. \A x \in Ctx : Hand(disp', x) = Hand(disp, x)
    BY <2>1 DEF Hand
  <2> QED BY <1>14, <2>1, <2>2 DEF IssuedByWorker, Issued, Moves, Calm, ctxVars, gpuVars, schedVars
<1>15. ASSUME retire_cmd_list
       PROVE  Moves
  BY <1>15 DEF Moves
<1>16. ASSUME FaultOutcome
       PROVE  Moves
  BY <1>16 DEF Moves
<1>17. ASSUME TsRetire
       PROVE  Moves
  BY <1>17 DEF TsRetire, Moves, Calm, ctxVars, gpuVars, schedVars, faultVars, threadVars, boundVars, listVars
<1>18. ASSUME NEW c \in Ctx, GpuStart(c)
       PROVE  Moves
  BY <1>18 DEF GpuStart, Moves, Calm, ctxVars, gpuVars, schedVars, faultVars, threadVars, boundVars, listVars
<1>19. ASSUME NEW c \in Ctx, GpuRetire(c)
       PROVE  Moves
  BY <1>19 DEF Moves
<1>20. ASSUME NEW c \in Ctx, adreno_hwsched_fault(c)
       PROVE  Moves
  BY <1>20 DEF adreno_hwsched_fault, Moves, Calm, ctxVars, gpuVars, schedVars, faultVars, threadVars, boundVars, listVars
<1>21. ASSUME NEW c \in Ctx, adreno_hwsched_queue_context(c)
       PROVE  Moves
  BY <1>21 DEF Moves
<1>22. ASSUME NEW c \in Ctx, kgsl_context_detach(c)
       PROVE  Moves
  BY <1>22 DEF kgsl_context_detach, Moves, Calm, ctxVars, gpuVars, schedVars, faultVars, threadVars, boundVars, listVars
<1>23. ASSUME NEW c \in Ctx, drawctxt_detach_drawobjs(c)
       PROVE  Moves
  BY <1>23 DEF Moves
<1>24. ASSUME NEW c \in Ctx, gen7_hwsched_context_detach(c)
       PROVE  Moves
  BY <1>24 DEF Moves
<1>25. ASSUME NEW c \in Ctx, UnregisterTimeout(c)
       PROVE  Moves
  BY <1>25 DEF Moves
<1>26. ASSUME IdleHalt
       PROVE  Moves
  BY <1>26 DEF IdleHalt, Moves, Calm, ctxVars, gpuVars, schedVars, faultVars, threadVars, boundVars, listVars
<1>27. ASSUME IdleFlush
       PROVE  Moves
  BY <1>27 DEF IdleFlush, Moves, Calm, ctxVars, gpuVars, schedVars, faultVars, threadVars, boundVars, listVars
<1>28. ASSUME IdleGate
       PROVE  Moves
  BY <1>28 DEF IdleGate, Moves, Calm, ctxVars, gpuVars, schedVars, faultVars, threadVars, boundVars, listVars
<1>29. ASSUME IdleUnhalt
       PROVE  Moves
  BY <1>29 DEF IdleUnhalt, Moves, Calm, ctxVars, gpuVars, schedVars, faultVars, threadVars, boundVars, listVars
<1>30. ASSUME IdleDone
       PROVE  Moves
  BY <1>30 DEF IdleDone, Moves, Calm, ctxVars, gpuVars, schedVars, faultVars, threadVars, boundVars, listVars
<1> QED
  BY <1>1, <1>2, <1>3, <1>4, <1>5, <1>6, <1>7, <1>8, <1>9, <1>10, <1>11, <1>12,
     <1>13, <1>14, <1>15, <1>16, <1>17, <1>18, <1>19, <1>20, <1>21, <1>22, <1>23, <1>24,
     <1>25, <1>26, <1>27, <1>28, <1>29, <1>30 DEF Step

\* A context that is live was live before.
LEMMA LiveStep ==
    ASSUME TypeOK, Step
    PROVE  \A x \in Ctx : Live(x)' => Live(x)
<1>1. ASSUME NEW p \in Threads, SubmitOutcome(p)
      PROVE  \A x \in Ctx : Live(x)' => Live(x)
  <2>1. bits' = bits /\ dpc' = dpc
    BY <1>1 DEF SubmitOutcome, SubmitRest, Refused, Sleeps, Fast, FastMarker, Enqueues, ctxVars
  <2> QED BY <2>1 DEF Live
<1>2. ASSUME NEW p \in Threads, kgsl_ioctl_gpu_aux_command(p)
      PROVE  \A x \in Ctx : Live(x)' => Live(x)
  BY <1>2 DEF kgsl_ioctl_gpu_aux_command, Live, ctxVars, SubmitRest, Refused, WalkRest, SendRest
<1>3. ASSUME NEW p \in Threads, _wait_for_room_in_context_queue(p)
      PROVE  \A x \in Ctx : Live(x)' => Live(x)
  BY <1>3 DEF _wait_for_room_in_context_queue, Live, ctxVars, SubmitRest, Refused, WalkRest, SendRest
<1>4. ASSUME NEW p \in Threads, WaitTimeout(p)
      PROVE  \A x \in Ctx : Live(x)' => Live(x)
  BY <1>4 DEF WaitTimeout, Live, ctxVars, SubmitRest, Refused, WalkRest, SendRest
<1>5. ASSUME NEW p \in Threads, QueueJob(p)
      PROVE  \A x \in Ctx : Live(x)' => Live(x)
  BY <1>5 DEF QueueJob, Live, ctxVars, SubmitRest, Refused, WalkRest, SendRest
<1>6. ASSUME NEW p \in Threads, adreno_hwsched_issuecmds(p)
      PROVE  \A x \in Ctx : Live(x)' => Live(x)
  BY <1>6 DEF adreno_hwsched_issuecmds, Live, ctxVars, SubmitRest, Refused, WalkRest, SendRest
<1>7. ASSUME NEW p \in Threads, IssuedByThread(p)
      PROVE  \A x \in Ctx : Live(x)' => Live(x)
  BY <1>7 DEF IssuedByThread, Live, ctxVars, SubmitRest, Refused, WalkRest, SendRest
<1>8. ASSUME hwsched_handle_jobs
      PROVE  \A x \in Ctx : Live(x)' => Live(x)
  BY <1>8 DEF hwsched_handle_jobs, Live, ctxVars, SubmitRest, Refused, WalkRest, SendRest
<1>9. ASSUME hwsched_handle_jobs_list
      PROVE  \A x \in Ctx : Live(x)' => Live(x)
  BY <1>9 DEF hwsched_handle_jobs_list, Live, ctxVars, SubmitRest, Refused, WalkRest, SendRest
<1>10. ASSUME WalkOutcome
       PROVE  \A x \in Ctx : Live(x)' => Live(x)
  BY <1>10 DEF WalkOutcome, Live, ctxVars, SubmitRest, Refused, WalkRest, SendRest
<1>11. ASSUME SendOutcome
       PROVE  \A x \in Ctx : Live(x)' => Live(x)
  BY <1>11 DEF SendOutcome, Live, ctxVars, SubmitRest, Refused, WalkRest, SendRest
<1>12. ASSUME RequeueOutcome
       PROVE  \A x \in Ctx : Live(x)' => Live(x)
  BY <1>12 DEF RequeueOutcome, Live, ctxVars, SubmitRest, Refused, WalkRest, SendRest
<1>13. ASSUME SendcmdsDone
       PROVE  \A x \in Ctx : Live(x)' => Live(x)
  BY <1>13 DEF SendcmdsDone, Live, ctxVars, SubmitRest, Refused, WalkRest, SendRest
<1>14. ASSUME IssuedByWorker
       PROVE  \A x \in Ctx : Live(x)' => Live(x)
  BY <1>14 DEF IssuedByWorker, Live, ctxVars, SubmitRest, Refused, WalkRest, SendRest
<1>15. ASSUME retire_cmd_list
       PROVE  \A x \in Ctx : Live(x)' => Live(x)
  BY <1>15 DEF retire_cmd_list, Live, ctxVars, SubmitRest, Refused, WalkRest, SendRest
<1>16. ASSUME FaultOutcome
       PROVE  \A x \in Ctx : Live(x)' => Live(x)
  <2>1. PICK cs, m : adreno_drawctxt_invalidate(cs, m)
    BY <1>16 DEF FaultOutcome
  <2>2. dpc' = dpc
    BY <1>16 DEF FaultOutcome
  <2>3. \A x \in Ctx : bits[x] \subseteq bits'[x]
    BY <2>1 DEF adreno_drawctxt_invalidate
  <2> QED BY <2>2, <2>3 DEF Live
<1>17. ASSUME TsRetire
       PROVE  \A x \in Ctx : Live(x)' => Live(x)
  BY <1>17 DEF TsRetire, Live, ctxVars, SubmitRest, Refused, WalkRest, SendRest
<1>18. ASSUME NEW c \in Ctx, GpuStart(c)
       PROVE  \A x \in Ctx : Live(x)' => Live(x)
  BY <1>18 DEF GpuStart, Live, ctxVars, SubmitRest, Refused, WalkRest, SendRest
<1>19. ASSUME NEW c \in Ctx, GpuRetire(c)
       PROVE  \A x \in Ctx : Live(x)' => Live(x)
  BY <1>19 DEF GpuRetire, Live, ctxVars, SubmitRest, Refused, WalkRest, SendRest
<1>20. ASSUME NEW c \in Ctx, adreno_hwsched_fault(c)
       PROVE  \A x \in Ctx : Live(x)' => Live(x)
  BY <1>20 DEF adreno_hwsched_fault, Live, ctxVars, SubmitRest, Refused, WalkRest, SendRest
<1>21. ASSUME NEW c \in Ctx, adreno_hwsched_queue_context(c)
       PROVE  \A x \in Ctx : Live(x)' => Live(x)
  BY <1>21 DEF adreno_hwsched_queue_context, Live, ctxVars, SubmitRest, Refused, WalkRest, SendRest
<1>22. ASSUME NEW c \in Ctx, kgsl_context_detach(c)
       PROVE  \A x \in Ctx : Live(x)' => Live(x)
  <2>1. dpc \in [Ctx -> {"live", "marked", "drained", "done"}] /\ bits \in [Ctx -> SUBSET {"INVALID", "DETACHED"}]
    BY TypesAre DEF RestTypes, CtxTypes
  <2>2. \A x \in Ctx : bits[x] \subseteq bits'[x] /\ (dpc'[x] = dpc[x] \/ dpc[x] = "live")
    BY <1>22, <2>1 DEF kgsl_context_detach
  <2> QED BY <2>2 DEF Live
<1>23. ASSUME NEW c \in Ctx, drawctxt_detach_drawobjs(c)
       PROVE  \A x \in Ctx : Live(x)' => Live(x)
  <2>1. dpc \in [Ctx -> {"live", "marked", "drained", "done"}]
    BY TypesAre DEF RestTypes
  <2>2. \A x \in Ctx : bits[x] \subseteq bits'[x] /\ (dpc'[x] = dpc[x] \/ dpc'[x] \in {"drained", "done"})
    BY <1>23, <2>1 DEF drawctxt_detach_drawobjs, adreno_drawctxt_invalidate, ctxVars
  <2> QED BY <2>2 DEF Live
<1>24. ASSUME NEW c \in Ctx, gen7_hwsched_context_detach(c)
       PROVE  \A x \in Ctx : Live(x)' => Live(x)
  <2>1. dpc \in [Ctx -> {"live", "marked", "drained", "done"}]
    BY TypesAre DEF RestTypes
  <2>2. \A x \in Ctx : bits[x] \subseteq bits'[x] /\ (dpc'[x] = dpc[x] \/ dpc'[x] \in {"drained", "done"})
    BY <1>24, <2>1 DEF gen7_hwsched_context_detach, adreno_drawctxt_invalidate, ctxVars
  <2> QED BY <2>2 DEF Live
<1>25. ASSUME NEW c \in Ctx, UnregisterTimeout(c)
       PROVE  \A x \in Ctx : Live(x)' => Live(x)
  <2>1. dpc \in [Ctx -> {"live", "marked", "drained", "done"}]
    BY TypesAre DEF RestTypes
  <2>2. \A x \in Ctx : bits[x] \subseteq bits'[x] /\ (dpc'[x] = dpc[x] \/ dpc'[x] \in {"drained", "done"})
    BY <1>25, <2>1 DEF UnregisterTimeout, adreno_drawctxt_invalidate, ctxVars
  <2> QED BY <2>2 DEF Live
<1>26. ASSUME IdleHalt
       PROVE  \A x \in Ctx : Live(x)' => Live(x)
  BY <1>26 DEF IdleHalt, Live, ctxVars, SubmitRest, Refused, WalkRest, SendRest
<1>27. ASSUME IdleFlush
       PROVE  \A x \in Ctx : Live(x)' => Live(x)
  BY <1>27 DEF IdleFlush, Live, ctxVars, SubmitRest, Refused, WalkRest, SendRest
<1>28. ASSUME IdleGate
       PROVE  \A x \in Ctx : Live(x)' => Live(x)
  BY <1>28 DEF IdleGate, Live, ctxVars, SubmitRest, Refused, WalkRest, SendRest
<1>29. ASSUME IdleUnhalt
       PROVE  \A x \in Ctx : Live(x)' => Live(x)
  BY <1>29 DEF IdleUnhalt, Live, ctxVars, SubmitRest, Refused, WalkRest, SendRest
<1>30. ASSUME IdleDone
       PROVE  \A x \in Ctx : Live(x)' => Live(x)
  BY <1>30 DEF IdleDone, Live, ctxVars, SubmitRest, Refused, WalkRest, SendRest
<1> QED
  BY <1>1, <1>2, <1>3, <1>4, <1>5, <1>6, <1>7, <1>8, <1>9, <1>10, <1>11, <1>12,
     <1>13, <1>14, <1>15, <1>16, <1>17, <1>18, <1>19, <1>20, <1>21, <1>22, <1>23, <1>24,
     <1>25, <1>26, <1>27, <1>28, <1>29, <1>30 DEF Step

\* The types after a step.
LEMMA TypesStep ==
    ASSUME Base, Step
    PROVE  /\ TypeOK' /\ CtxTypes' /\ DispTypes' /\ SchedTypes' /\ GpuTypes'
           /\ \A x \in Ctx : LineTyped(x) /\ LineTyped(x)'
<1>1. Base'
  BY BaseStep
<1>2. TypeOK /\ TypeOK'
  BY <1>1 DEF Base
<1>3. CtxTypes /\ DispTypes
  BY <1>2, TypesAre
<1>4. (TypeOK => CtxTypes /\ DispTypes /\ SchedTypes /\ GpuTypes)'
  BY TypesAre, PTL
<1>5. (CtxTypes /\ DispTypes => \A c \in Ctx : LineTyped(c))'
  BY LinesTyped, PTL
<1>6. \A c \in Ctx : LineTyped(c)
  BY <1>3, LinesTyped
<1> QED
  BY <1>2, <1>4, <1>5, <1>6

\* Objects that keep their timestamps keep what is unretired.
LEMMA UnretiredKept ==
    ASSUME NEW l \in Seq(Objects), NEW m \in Seq(Objects), NEW S, NEW e \in Nat, NEW last,
           LineInv(l, S, e, last), Restated(m, l, e)
    PROVE  Unretired(m, e)
<1> SUFFICES ASSUME NEW i \in 1 .. Len(m), m[i].ts # 0, m[i].state # "expired"
             PROVE  e < m[i].ts
  BY DEF Unretired
<1>1. i \in 1 .. Len(l) /\ m[i].ts = l[i].ts /\ m[i].type = l[i].type
  BY DEF Restated
<1>2. l[i].state # "expired"
  <2>1. l[i].state = "expired" => l[i].type = "marker"
    BY <1>1 DEF LineInv, Stamped
  <2>2. m[i].state = l[i].state \/ m[i].type \in {"bind", "sync"}
    BY <1>1 DEF Restated
  <2> QED BY <1>1, <2>1, <2>2
<1> QED
  BY <1>1, <1>2 DEF LineInv, Unretired

\* Lines with the same objects.
Same(m, l) == Len(m) = Len(l) /\ \A i \in 1 .. Len(l) : m[i] = l[i]

\* They are in the same states.
LEMMA SameIsRestated ==
    ASSUME NEW m, NEW l, NEW f, Same(m, l)
    PROVE  Restated(m, l, f)
  BY DEF Same, Restated

\* A line with the same objects in the same or other states.
LEMMA LineKept ==
    ASSUME NEW x \in Ctx, LineTyped(x), LineTyped(x)', eop[x] \in Nat, queuedTs[x] \in Nat,
           LineOk(x), Restated(Line(x)', Line(x), eop[x]),
           eop'[x] = eop[x], queuedTs'[x] = queuedTs[x], Out(x)' \subseteq Out(x)
    PROVE  LineOk(x)'
<1>1. Line(x) \in Seq(Objects) /\ Line(x)' \in Seq(Objects)
  BY DEF LineTyped
<1>2. PICK l \in Seq(Objects), m \in Seq(Objects) : l = Line(x) /\ m = Line(x)'
  BY <1>1
<1>3. PICK S \in SUBSET Nat : S = Out(x)
  BY DEF Out
<1>4. PICK R \in SUBSET S : R = Out(x)'
  BY <1>3
<1>5. PICK e \in Nat, last \in Nat : e = eop[x] /\ last = queuedTs[x]
  OBVIOUS
<1>6. LineInv(l, S, e, last) /\ Restated(m, l, e)
  BY <1>2, <1>3, <1>5 DEF LineOk
<1>7. Unretired(m, e)
  BY <1>6, UnretiredKept
<1>8. LineInv(m, R, e, last)
  BY <1>6, <1>7, LineChanges
<1> QED
  BY <1>2, <1>4, <1>5, <1>8 DEF LineOk

\* The same objects, and a timestamp of out retires while a part of out was
\* not retired.
LEMMA LineJumps ==
    ASSUME NEW x \in Ctx, LineTyped(x), LineTyped(x)', eop[x] \in Nat, queuedTs[x] \in Nat,
           LineOk(x), Same(Line(x)', Line(x)), eop'[x] \in Out(x), \E t \in Out(x) : eop[x] < t,
           queuedTs'[x] = queuedTs[x], Out(x)' \subseteq Out(x)
    PROVE  LineOk(x)'
<1>1. Line(x) \in Seq(Objects) /\ Line(x)' \in Seq(Objects)
  BY DEF LineTyped
<1>2. PICK l \in Seq(Objects), m \in Seq(Objects) : l = Line(x) /\ m = Line(x)'
  BY <1>1
<1>3. PICK S \in SUBSET Nat : S = Out(x)
  BY DEF Out
<1>4. PICK R \in SUBSET S : R = Out(x)'
  BY <1>3
<1>5. PICK e \in Nat, f \in Nat, last \in Nat : e = eop[x] /\ f = eop'[x] /\ last = queuedTs[x]
  BY <1>3
<1>6. LineInv(l, S, e, last) /\ Same(m, l) /\ f \in S
  BY <1>2, <1>3, <1>5 DEF LineOk
<1>7. Unretired(m, f)
  <2> SUFFICES ASSUME NEW i \in 1 .. Len(m), m[i].ts # 0 PROVE f < m[i].ts
    BY DEF Unretired
  <2>1. i \in 1 .. Len(l) /\ m[i] = l[i]
    BY <1>6 DEF Same
  <2> QED BY <1>6, <2>1 DEF LineInv, Sorted
<1>8. \A j \in 1 .. Len(l) : ~Covers(l, S, e, j)
  <2>1. PICK t \in S : e < t
    BY <1>3, <1>5
  <2>2. ~(t <= e)
    BY <2>1
  <2> QED BY <2>2 DEF Covers
<1>9. LineInv(m, R, f, last)
  BY <1>6, <1>7, <1>8, SameIsRestated, LineChanges
<1> QED
  BY <1>2, <1>4, <1>5, <1>9 DEF LineOk

\* The first object leaves.
LEMMA LineShorter ==
    ASSUME NEW x \in Ctx, LineTyped(x), LineTyped(x)', eop[x] \in Nat, queuedTs[x] \in Nat,
           LineOk(x), Rest(Line(x)', Line(x)), NEW o \in Objects, Line(x)[1] = o,
           o.type = "sync" => o.state = "ready",
           eop'[x] = eop[x] \/ (o.type # "sync" /\ eop'[x] = o.ts),
           queuedTs'[x] = queuedTs[x], Out(x)' \subseteq Out(x) \cup {o.ts}
    PROVE  LineOk(x)'
<1>1. Line(x) \in Seq(Objects) /\ Line(x)' \in Seq(Objects)
  BY DEF LineTyped
<1>2. PICK l \in Seq(Objects), m \in Seq(Objects) : l = Line(x) /\ m = Line(x)'
  BY <1>1
<1>3. PICK S \in SUBSET Nat : S = Out(x)
  BY DEF Out
<1>4. PICK R \in SUBSET (S \cup {l[1].ts}) : R = Out(x)'
  BY <1>2, <1>3
<1>5. o.ts \in Nat
  BY DEF Objects
<1>6. PICK e \in Nat, f \in Nat, last \in Nat : e = eop[x] /\ f = eop'[x] /\ last = queuedTs[x]
  BY <1>5
<1>7. /\ LineInv(l, S, e, last) /\ Rest(m, l)
      /\ l[1].type = "sync" => l[1].state = "ready"
      /\ f = e \/ (l[1].type # "sync" /\ f = l[1].ts)
  BY <1>2, <1>3, <1>6 DEF LineOk
<1>8. LineInv(m, R, f, last)
  BY <1>7, LineLeaves
<1> QED
  BY <1>2, <1>4, <1>6, <1>8 DEF LineOk

\* The first object is a marker that has expired.
LEMMA LineExpires ==
    ASSUME NEW x \in Ctx, LineTyped(x), LineTyped(x)', eop[x] \in Nat, queuedTs[x] \in Nat,
           LineOk(x), Len(Line(x)) >= 1, Line(x)[1].type = "marker",
           Stated(Line(x)', Line(x), 1, "expired"), eop'[x] = Line(x)[1].ts,
           queuedTs'[x] = queuedTs[x], Out(x)' = Out(x)
    PROVE  LineOk(x)'
<1>1. Line(x) \in Seq(Objects) /\ Line(x)' \in Seq(Objects)
  BY DEF LineTyped
<1>2. PICK l \in Seq(Objects), m \in Seq(Objects) : l = Line(x) /\ m = Line(x)'
  BY <1>1
<1>3. PICK S \in SUBSET Nat : S = Out(x)
  BY DEF Out
<1>4. Len(l) \in Nat /\ \A i \in 1 .. Len(l) : l[i].ts \in Nat /\ l[i].mts \in Nat
  BY LineObjects
<1>5. 1 \in 1 .. Len(l)
  BY <1>2, <1>4
<1>6. PICK e \in Nat, f \in Nat, last \in Nat : e = eop[x] /\ f = eop'[x] /\ last = queuedTs[x]
  BY <1>2, <1>4, <1>5
<1>7. LineInv(l, S, e, last) /\ Stated(m, l, 1, "expired") /\ l[1].type = "marker" /\ f = l[1].ts
  BY <1>2, <1>3, <1>6 DEF LineOk
<1>8. Restated(m, l, f)
  <2>1. m[1].type = "marker"
    BY <1>5, <1>7 DEF Stated
  <2> QED BY <1>7, <2>1 DEF Stated, Restated
<1>9. f # 0
  BY <1>5, <1>7 DEF LineInv, Stamped
<1>10. \A i \in 1 .. Len(l) : i # 1 /\ l[i].ts # 0 => f < l[i].ts /\ e < l[i].ts
  <2> SUFFICES ASSUME NEW i \in 1 .. Len(l), i # 1, l[i].ts # 0 PROVE f < l[i].ts /\ e < l[i].ts
    OBVIOUS
  <2>1. 1 \in 1 .. i - 1
    BY <1>4
  <2>2. l[i].state # "expired"
    BY <1>7 DEF LineInv, Stamped
  <2> QED BY <1>7, <2>1, <2>2 DEF LineInv, Sorted, Unretired
<1>11. Unretired(m, f)
  <2> SUFFICES ASSUME NEW i \in 1 .. Len(m), m[i].ts # 0, m[i].state # "expired" PROVE f < m[i].ts
    BY DEF Unretired
  <2>1. i \in 1 .. Len(l) /\ m[i].ts = l[i].ts /\ i # 1
    BY <1>5, <1>7 DEF Stated
  <2> QED BY <1>10, <2>1
<1>12. ASSUME NEW j \in 1 .. Len(l), Covers(l, S, e, j)
       PROVE  Covers(l, S, f, j)
  <2>1. \A t \in S : t < f
    BY <1>5, <1>7, <1>9 DEF LineInv, Sorted
  <2>2. \A t \in S : t <= f
    BY <2>1
  <2>3. ASSUME NEW i \in 1 .. j - 1 PROVE l[i].ts <= f
    <3>1. i \in 1 .. Len(l) /\ l[i].ts \in Nat
      BY <1>4, <1>12
    <3>2. CASE i = 1
      BY <1>7, <3>2
    <3>3. CASE i # 1
      <4>1. l[i].ts <= e
        BY <1>12 DEF Covers
      <4>2. l[i].ts = 0
        BY <1>10, <3>1, <3>3, <4>1
      <4> QED BY <4>2
    <3> QED BY <3>2, <3>3
  <2> QED BY <2>2, <2>3 DEF Covers
<1>13. LineInv(m, S, f, last)
  BY <1>7, <1>8, <1>11, <1>12, LineChanges
<1> QED
  BY <1>2, <1>3, <1>6, <1>13 DEF LineOk

\* cmd_list loses what is reaped.
LEMMA OutReap ==
    ASSUME SchedTypes, NEW done, Reap(done), NEW x \in Ctx
    PROVE  /\ Out(x)' \subseteq Out(x)
           /\ \A t \in Out(x) : t \in Out(x)' \/ \E e \in done : e.ctx = x /\ e.obj.ts = t
<1>1. /\ \A k \in 1 .. Len(cmdList') :
            cmdList'[k] \notin done /\ \E i \in 1 .. Len(cmdList) : cmdList'[k] = cmdList[i]
      /\ \A i \in 1 .. Len(cmdList) :
            cmdList[i] \notin done => \E k \in 1 .. Len(cmdList') : cmdList'[k] = cmdList[i]
  BY ReapIs
<1> QED
  BY <1>1 DEF Out

\* It gets what is sent.
LEMMA OutSubmit ==
    ASSUME SchedTypes, NEW c \in Ctx, NEW o \in Objects, Submit(c, o), NEW x \in Ctx
    PROVE  /\ x = c /\ o.state # "expired" => Out(x)' = Out(x) \cup {o.ts}
           /\ ~(x = c /\ o.state # "expired") => Out(x)' = Out(x)
<1>1. CASE o.state = "expired"
  <2>1. cmdList' = cmdList
    BY <1>1 DEF Submit
  <2> QED BY <1>1, <2>1 DEF Out
<1>2. CASE o.state # "expired"
  <2>1. PICK s \in Seq(Entries) : s = cmdList
    BY DEF SchedTypes
  <2>2. PICK e \in Entries : e = [ctx |-> c, obj |-> o]
    BY DEF Entries
  <2>3. e.ctx = c /\ e.obj = o /\ o.ts \in Nat
    BY <2>2 DEF Objects
  <2>4. cmdList' = Append(s, e)
    BY <1>2, <2>1, <2>2 DEF Submit
  <2>5. /\ Len(cmdList') = Len(s) + 1 /\ Len(s) \in Nat
        /\ \A k \in 1 .. Len(s) : cmdList'[k] = s[k]
        /\ cmdList'[Len(s) + 1] = e
    BY <2>4
  <2>6. \A k \in 1 .. Len(cmdList') : k \in 1 .. Len(s) \/ k = Len(s) + 1
    BY <2>5
  <2>7. Len(s) + 1 \in 1 .. Len(cmdList') /\ \A k \in 1 .. Len(s) : k \in 1 .. Len(cmdList')
    BY <2>5
  <2>8. Out(x)' \subseteq Out(x) \cup (IF x = c THEN {o.ts} ELSE {})
    BY <2>1, <2>3, <2>5, <2>6 DEF Out
  <2>9. Out(x) \subseteq Out(x)'
    BY <2>1, <2>5, <2>7 DEF Out
  <2>10. x = c => o.ts \in Out(x)'
    BY <2>3, <2>5, <2>7 DEF Out
  <2> QED BY <1>2, <2>8, <2>9, <2>10
<1> QED
  BY <1>1, <1>2

\* A context of which nothing changes.
Untouched(x) ==
    /\ Line(x)' = Line(x) /\ Out(x)' \subseteq Out(x)
    /\ eop'[x] = eop[x] /\ queuedTs'[x] = queuedTs[x]

\* It stays in order.
LEMMA LineUntouched ==
    ASSUME Base, Step, NEW x \in Ctx, LineOk(x), Untouched(x)
    PROVE  LineOk(x)'
<1>1. LineTyped(x) /\ LineTyped(x)'
  BY TypesStep
<1>2. eop[x] \in Nat /\ queuedTs[x] \in Nat
  BY TypesAre DEF Base, GpuTypes, CtxTypes
<1>3. Restated(Line(x)', Line(x), eop[x])
  <2>1. Same(Line(x)', Line(x))
    BY DEF Untouched, Same
  <2> QED BY <2>1, SameIsRestated
<1> QED
  BY <1>1, <1>2, <1>3, LineKept DEF Untouched

\* A marker that retires at once.
LEMMA LineFast ==
    ASSUME Base, Times, Step, NEW p \in Threads, SubmitOutcome(p), Fast(p), NEW x \in Ctx, LineOk(x)
    PROVE  LineOk(x)'
<1>1. LineTyped(x) /\ LineTyped(x)'
  BY TypesStep
<1>2. /\ eop[x] \in Nat /\ queuedTs[x] \in Nat /\ timestamp[x] \in Nat
      /\ eop \in [Ctx -> Nat]
  BY TypesAre DEF Base, GpuTypes, CtxTypes
<1>3. queue' = queue /\ disp' = disp /\ cmdList' = cmdList /\ queuedTs' = queuedTs
      /\ eop' = [eop EXCEPT ![CtxOf(p)] = timestamp[CtxOf(p)] + 1]
  BY DEF SubmitOutcome, SubmitRest, Fast, FastMarker, schedVars
<1>4. Line(x)' = Line(x) /\ Out(x)' = Out(x)
  BY <1>3 DEF Line, Out
<1>5. CASE x # CtxOf(p)
  BY <1>2, <1>3, <1>4, <1>5, LineUntouched DEF Untouched
<1>6. CASE x = CtxOf(p)
  <2>1. PICK l \in Seq(Objects) : l = Line(x)
    BY <1>1 DEF LineTyped
  <2>2. PICK S \in SUBSET Nat : S = Out(x)
    BY DEF Out
  <2>3. PICK e \in Nat, f \in Nat, last \in Nat : e = eop[x] /\ f = eop'[x] /\ last = queuedTs[x]
    BY <1>2, <1>3, <1>6
  <2>4. last <= e /\ e <= f
    <3>1. queuedTs[x] <= eop[x]
      BY <1>2, <1>6 DEF Fast
    <3>2. eop[x] <= timestamp[x] /\ eop'[x] = timestamp[x] + 1
      BY <1>2, <1>3, <1>6 DEF Times
    <3> QED BY <1>2, <2>3, <3>1, <3>2
  <2>5. LineInv(l, S, e, last)
    BY <2>1, <2>2, <2>3 DEF LineOk
  <2>6. Len(l) \in Nat /\ \A i \in 1 .. Len(l) : l[i].ts \in Nat /\ l[i].mts \in Nat
    BY LineObjects
  <2>7. Unretired(l, f)
    <3> SUFFICES ASSUME NEW i \in 1 .. Len(l), l[i].ts # 0, l[i].state # "expired" PROVE FALSE
      BY DEF Unretired
    <3>1. e < l[i].ts /\ l[i].ts <= last
      BY <2>5 DEF LineInv, Unretired, Stamped
    <3> QED BY <2>4, <2>6, <3>1
  <2>8. ASSUME NEW j \in 1 .. Len(l), Covers(l, S, e, j)
        PROVE  Covers(l, S, f, j)
    <3>1. (\A t \in S : t <= e) /\ \A i \in 1 .. j - 1 : l[i].ts <= e
      BY <2>8 DEF Covers
    <3>2. \A t \in S : t <= f
      BY <2>4, <3>1
    <3>3. \A i \in 1 .. j - 1 : i \in 1 .. Len(l)
      BY <2>6
    <3>4. \A i \in 1 .. j - 1 : l[i].ts \in Nat
      BY <2>6, <3>3
    <3>5. \A i \in 1 .. j - 1 : l[i].ts <= f
      BY <2>4, <3>1, <3>4
    <3> QED BY <3>2, <3>5 DEF Covers
  <2>9. Same(l, l)
    BY DEF Same
  <2>10. LineInv(l, S, f, last)
    BY <2>5, <2>7, <2>8, <2>9, SameIsRestated, LineChanges
  <2> QED BY <1>3, <1>4, <2>1, <2>2, <2>3, <2>10 DEF LineOk
<1> QED
  BY <1>5, <1>6

\* What a thread queues makes the queue longer ...
LEMMA LongerQueue ==
    ASSUME NEW c \in Ctx, NEW q \in Seq(Objects), NEW r \in Seq(Objects), NEW os \in Seq(Objects),
           BatchShape(os), Len(r) = Len(q) + Len(os),
           \A j \in 1 .. Len(r) : /\ j <= Len(q) => Alike(r[j], q[j])
                                  /\ j > Len(q) => Fresh(c, r[j], os, j - Len(q)),
           NEW last \in Nat, last = queuedTs[c], NEW new \in Nat,
           os[Len(os)].type # "sync" => new = timestamp[c] + 1 /\ last < new, BatchWaits(os, last)
    PROVE  Longer(r, q, last, new)
<1>1. Len(os) \in Nat /\ Len(os) >= 1 /\ Len(q) \in Nat /\ Len(r) \in Nat
  BY DEF BatchShape
<1>2. /\ Len(r) >= Len(q)
      /\ \A i \in 1 .. Len(q) : Alike(r[i], q[i])
  BY <1>1
<1> SUFFICES ASSUME NEW j \in 1 .. Len(r), j > Len(q)
             PROVE  /\ r[j].state = "wait"
                    /\ r[j].type = "sync" => r[j].ts = 0 /\ (r[j].mts = 0 \/ r[j].mts >= last)
                    /\ r[j].type # "sync" => j = Len(r) /\ r[j].ts = new /\ last < new
                    /\ r[j].type = "marker" => r[j].mts = last
                    /\ Aux(r[j]) => j - 1 > Len(q) /\ r[j - 1].type = "sync" /\ r[j - 1].mts >= last
  BY <1>2 DEF Longer
<1>3. PICK k \in 1 .. Len(os) : j = Len(q) + k /\ k = j - Len(q)
  <2>1. j - Len(q) \in 1 .. Len(os)
    BY <1>1
  <2> QED BY <1>1, <2>1
<1>4. Fresh(c, r[j], os, k)
  BY <1>3
<1>5. r[j].type = os[k].type /\ r[j].state = "wait"
  BY <1>4 DEF Fresh
<1>6. r[j].type = "sync" => r[j].ts = 0 /\ (r[j].mts = 0 \/ r[j].mts >= last)
  BY <1>4, <1>5 DEF Fresh, BatchWaits
<1>7. r[j].type # "sync" => k = Len(os) /\ r[j].ts = new /\ last < new /\ j = Len(r)
  <2>1. r[j].type # "sync" => ~(k < Len(os)) /\ r[j].ts = timestamp[c] + 1
    BY <1>4 DEF Fresh
  <2>2. r[j].type # "sync" => k = Len(os)
    BY <1>1, <2>1
  <2>3. r[j].type # "sync" => j = Len(r)
    BY <1>1, <1>3, <2>2
  <2>4. r[j].type # "sync" => os[Len(os)].type # "sync"
    BY <1>5, <2>2
  <2> QED BY <2>1, <2>2, <2>3, <2>4
<1>8. r[j].type = "marker" => r[j].mts = last
  BY <1>4 DEF Fresh
<1>9. ASSUME Aux(r[j])
      PROVE  j - 1 > Len(q) /\ r[j - 1].type = "sync" /\ r[j - 1].mts >= last
  <2>1. r[j].type # "sync" /\ k = Len(os)
    BY <1>7, <1>9 DEF Aux
  <2>2. Aux(os[Len(os)])
    BY <1>5, <1>9, <2>1 DEF Aux
  <2>3. Len(os) > 1 /\ os[Len(os) - 1].mts >= last
    BY <2>2 DEF BatchShape, BatchWaits
  <2>4. j - 1 \in 1 .. Len(r) /\ j - 1 > Len(q) /\ (j - 1) - Len(q) = Len(os) - 1
    BY <1>1, <1>3, <2>1, <2>3
  <2>5. Fresh(c, r[j - 1], os, Len(os) - 1)
    BY <2>4
  <2>6. Len(os) - 1 < Len(os)
    BY <1>1
  <2>7. r[j - 1].type = "sync"
    BY <2>5, <2>6 DEF Fresh
  <2>8. r[j - 1].mts = os[Len(os) - 1].mts
    BY <2>5, <2>7 DEF Fresh
  <2> QED BY <2>3, <2>4, <2>7, <2>8
<1> QED
  BY <1>5, <1>6, <1>7, <1>8, <1>9

\* ... and so the line.
LEMMA LongerHand ==
    ASSUME NEW q \in Seq(Objects), NEW r \in Seq(Objects), NEW h \in Objects \cup {None},
           NEW last, NEW new, Longer(r, q, last, new)
    PROVE  Longer(LineOf(h, r), LineOf(h, q), last, new)
<1>1. CASE h = None
  BY <1>1, LineOfIs
<1>2. CASE h # None
  <2>1. PICK l \in Seq(Objects), m \in Seq(Objects) : l = LineOf(h, q) /\ m = LineOf(h, r)
    BY LineOfIs
  <2>2. /\ Len(l) = Len(q) + 1 /\ Len(m) = Len(r) + 1 /\ Len(q) \in Nat /\ Len(r) \in Nat
        /\ l[1] = h /\ m[1] = h
        /\ \A j \in 1 .. Len(q) : l[j + 1] = q[j]
        /\ \A j \in 1 .. Len(r) : m[j + 1] = r[j]
    <3>1. Len(l) = Len(q) + 1 /\ l[1] = h /\ \A j \in 1 .. Len(q) : l[j + 1] = q[j]
      BY <1>2, <2>1, LineOfIs
    <3>2. Len(m) = Len(r) + 1 /\ m[1] = h /\ \A j \in 1 .. Len(r) : m[j + 1] = r[j]
      BY <1>2, <2>1, LineOfIs
    <3> QED BY <3>1, <3>2
  <2>3. Len(r) >= Len(q) /\ \A i \in 1 .. Len(q) : Alike(r[i], q[i])
    BY DEF Longer
  <2>4. Len(m) >= Len(l)
    BY <2>2, <2>3
  <2>5. ASSUME NEW i \in 1 .. Len(l) PROVE Alike(m[i], l[i])
    <3>1. CASE i = 1
      BY <2>2, <3>1 DEF Alike
    <3>2. CASE i # 1
      <4>1. PICK k \in 1 .. Len(q) : i = k + 1 /\ k \in 1 .. Len(r)
        <5>1. i - 1 \in 1 .. Len(q) /\ i = (i - 1) + 1 /\ i - 1 \in 1 .. Len(r)
          BY <2>2, <2>3, <3>2
        <5> QED BY <5>1
      <4>2. m[i] = r[k] /\ l[i] = q[k]
        BY <2>2, <4>1
      <4> QED BY <2>3, <4>2
    <3> QED BY <3>1, <3>2
  <2>6. ASSUME NEW j \in 1 .. Len(m), j > Len(l)
        PROVE  /\ m[j].state = "wait"
               /\ m[j].type = "sync" => m[j].ts = 0 /\ (m[j].mts = 0 \/ m[j].mts >= last)
               /\ m[j].type # "sync" => j = Len(m) /\ m[j].ts = new /\ last < new
               /\ m[j].type = "marker" => m[j].mts = last
               /\ Aux(m[j]) => j - 1 > Len(l) /\ m[j - 1].type = "sync" /\ m[j - 1].mts >= last
    <3>1. PICK k \in 1 .. Len(r) : j = k + 1 /\ k > Len(q)
      <4>1. j - 1 \in 1 .. Len(r) /\ j = (j - 1) + 1 /\ j - 1 > Len(q)
        BY <2>2, <2>6
      <4> QED BY <4>1
    <3>2. m[j] = r[k]
      BY <2>2, <3>1
    <3>3. /\ r[k].state = "wait"
          /\ r[k].type = "sync" => r[k].ts = 0 /\ (r[k].mts = 0 \/ r[k].mts >= last)
          /\ r[k].type # "sync" => k = Len(r) /\ r[k].ts = new /\ last < new
          /\ r[k].type = "marker" => r[k].mts = last
          /\ Aux(r[k]) => k - 1 > Len(q) /\ r[k - 1].type = "sync" /\ r[k - 1].mts >= last
      BY <3>1 DEF Longer
    <3>4. k = Len(r) => j = Len(m)
      BY <2>2, <3>1
    <3>5. ASSUME k - 1 > Len(q)
          PROVE  j - 1 > Len(l) /\ m[j - 1] = r[k - 1]
      <4>1. k - 1 \in 1 .. Len(r) /\ (k - 1) + 1 = j - 1 /\ j - 1 > Len(l)
        BY <2>2, <3>1, <3>5
      <4>2. m[(k - 1) + 1] = r[k - 1]
        BY <2>2, <4>1
      <4> QED BY <4>1, <4>2
    <3> QED BY <3>2, <3>3, <3>4, <3>5
  <2> QED BY <2>1, <2>4, <2>5, <2>6 DEF Longer
<1> QED
  BY <1>1, <1>2

\* A thread queues objects.
LEMMA LineEnqueues ==
    ASSUME Base, Room, Times, BatchesWait, Step, NEW p \in Threads, SubmitOutcome(p),
           NEW os, Offers(p, os), Enqueues(p, os), NEW x \in Ctx, LineOk(x)
    PROVE  LineOk(x)'
<1>0. TypeOK /\ QueuedCounts /\ SlotsKept /\ Roomy
  BY DEF Base, Room
<1>1. LineTyped(x) /\ LineTyped(x)'
  BY TypesStep
<1>2. /\ eop[x] \in Nat /\ queuedTs[x] \in Nat /\ timestamp[x] \in Nat /\ queued[x] \in Nat
      /\ queue \in [Ctx -> Seq(Objects)] /\ queuedTs \in [Ctx -> Nat]
  BY <1>0, TypesAre DEF GpuTypes, CtxTypes
<1>3. disp' = disp /\ cmdList' = cmdList /\ eop' = eop
  BY DEF SubmitOutcome, SubmitRest, Enqueues, schedVars, gpuVars
<1>4. Out(x)' = Out(x) /\ Hand(disp', x) = Hand(disp, x)
  BY <1>3 DEF Out
<1>5. PICK r, d : Tailed(CtxOf(p), os, r, d) /\ queue' = [queue EXCEPT ![CtxOf(p)] = r]
  BY DEF Enqueues
<1>6. CASE x # CtxOf(p)
  <2>1. queue'[x] = queue[x]
    BY <1>2, <1>5, <1>6
  <2>2. queuedTs'[x] = queuedTs[x]
    BY <1>2, <1>6 DEF Enqueues
  <2>3. Line(x)' = Line(x)
    BY <1>4, <2>1 DEF Line
  <2> QED BY <1>3, <1>4, <2>2, <2>3, LineUntouched DEF Untouched
<1>7. CASE x = CtxOf(p)
  <2>1. PICK q \in Seq(Objects) : q = queue[x]
    BY <1>2
  <2>2. Tailed(x, os, r, d) /\ queue'[x] = r /\ r \in Seq(Objects)
    BY <1>2, <1>5, <1>7 DEF Tailed
  <2>3. os \in Seq(Objects) /\ BatchShape(os) /\ Len(os) \in Nat /\ Len(q) \in Nat
    BY DEF Offers
  <2>4. d = 0
    <3>1. Slots(x) + Len(os) <= DrawqueueSize - 1
      BY <1>0, <1>7, QueuesTakes
    <3>2. Slots(x) \in Nat /\ queued[x] <= Slots(x) /\ DrawqueueSize \in Nat
      BY <1>0, SlotsAre, Nones
    <3>3. Len(q) <= queued[x]
      BY <1>0, <2>1 DEF QueuedCounts
    <3>4. Len(q) + Len(os) < DrawqueueSize
      BY <1>2, <2>3, <3>1, <3>2, <3>3
    <3> QED BY <2>1, <2>2, <3>4 DEF Tailed
  <2>5. /\ Len(r) = Len(q) + Len(os)
        /\ \A j \in 1 .. Len(r) : /\ j <= Len(q) => Alike(r[j], q[j])
                                  /\ j > Len(q) => Fresh(x, r[j], os, j - Len(q))
    <3>1. /\ Len(r) = Len(q) + Len(os) - 0
          /\ \A j \in 1 .. Len(r) : /\ j + 0 <= Len(q) => Alike(r[j], q[j + 0])
                                    /\ j + 0 > Len(q) => Fresh(x, r[j], os, j + 0 - Len(q))
      BY <2>1, <2>2, <2>4 DEF Tailed
    <3>2. \A j \in 1 .. Len(r) : j + 0 = j
      BY <2>2
    <3>3. Len(q) + Len(os) - 0 = Len(q) + Len(os)
      BY <2>3
    <3> QED BY <3>1, <3>2, <3>3
  <2>6. PICK e \in Nat, last \in Nat : e = eop[x] /\ last = queuedTs[x]
    BY <1>2
  <2>7. /\ queuedTs'[x] \in Nat /\ last <= queuedTs'[x]
        /\ last < queuedTs'[x] => e < queuedTs'[x]
        /\ os[Len(os)].type # "sync" => queuedTs'[x] = timestamp[x] + 1 /\ last < queuedTs'[x]
    <3>1. last <= timestamp[x] /\ e <= timestamp[x]
      BY <2>6 DEF Times
    <3>2. CASE os[Len(os)].type = "sync"
      <4>1. queuedTs' = queuedTs
        BY <1>7, <3>2 DEF Enqueues, Stamp
      <4> QED BY <2>6, <3>2, <4>1
    <3>3. CASE os[Len(os)].type # "sync"
      <4>1. Stamp(x, os) # 0
        BY <1>2, <3>3 DEF Stamp
      <4>2. queuedTs'[x] = timestamp[x] + 1
        BY <1>2, <1>7, <4>1 DEF Enqueues
      <4> QED BY <1>2, <2>6, <3>1, <4>2
    <3> QED BY <3>2, <3>3
  <2>8. PICK new \in Nat : new = queuedTs'[x]
    BY <2>7
  <2>9. BatchWaits(os, last)
    <3>1. CASE pc[p] \in {"queue", "woken"} /\ os = batch[p]
      BY <1>7, <2>6, <3>1 DEF BatchesWait
    <3>2. CASE ~Aux(os[Len(os)]) /\ \A i \in 1 .. Len(os) : os[i].mts = 0
      BY <3>2 DEF BatchWaits
    <3> QED BY <3>1, <3>2 DEF Offers
  <2>10. Longer(r, q, last, new)
    BY <2>2, <2>3, <2>5, <2>6, <2>7, <2>8, <2>9, LongerQueue
  <2>11. PICK h \in Objects \cup {None} : h = Hand(disp, x)
    BY <1>1 DEF LineTyped
  <2>12. PICK l \in Seq(Objects), m \in Seq(Objects) : l = LineOf(h, q) /\ m = LineOf(h, r)
    BY <2>2, LineOfIs
  <2>13. Longer(m, l, last, new)
    BY <2>2, <2>10, <2>12, LongerHand
  <2>14. l = Line(x) /\ m = Line(x)'
    BY <1>4, <2>1, <2>2, <2>11, <2>12 DEF Line
  <2>15. PICK S \in SUBSET Nat : S = Out(x)
    BY DEF Out
  <2>16. LineInv(l, S, e, last) /\ \A t \in S : t <= last
    BY <2>6, <2>14, <2>15 DEF LineOk, Times
  <2>17. LineInv(m, S, e, new)
    BY <2>7, <2>8, <2>13, <2>16, LineGrows
  <2> QED BY <1>3, <1>4, <2>6, <2>8, <2>14, <2>15, <2>17 DEF LineOk
<1> QED
  BY <1>6, <1>7

\* An object in the dispatcher's hands and the queue without its first object.
LEMMA FirstInHand ==
    ASSUME NEW q \in Seq(Objects), NEW r \in Seq(Objects), NEW o \in Objects,
           q # <<>>, Len(r) = Len(q) - 1, \A j \in 1 .. Len(r) : r[j] = q[j + 1]
    PROVE  /\ Len(q) \in Nat /\ Len(q) >= 1
           /\ Len(LineOf(o, r)) = Len(q) /\ LineOf(o, r)[1] = o
           /\ \A i \in 1 .. Len(q) : i # 1 => LineOf(o, r)[i] = q[i]
<1>1. Len(q) \in Nat /\ Len(q) >= 1
  OBVIOUS
<1>2. o # None
  BY Nones
<1>3. PICK m \in Seq(Objects) : m = LineOf(o, r)
  BY LineOfIs
<1>4. Len(m) = Len(r) + 1 /\ m[1] = o /\ \A j \in 1 .. Len(r) : m[j + 1] = r[j]
  <2>1. o \in Objects \cup {None}
    OBVIOUS
  <2>2. /\ Len(LineOf(o, r)) = Len(r) + 1 /\ LineOf(o, r)[1] = o
        /\ \A j \in 1 .. Len(r) : LineOf(o, r)[j + 1] = r[j]
    BY <1>2, <2>1, LineOfIs
  <2> QED BY <1>3, <2>2
<1>5. ASSUME NEW i \in 1 .. Len(q), i # 1 PROVE m[i] = q[i]
  <2>1. i - 1 \in 1 .. Len(r) /\ (i - 1) + 1 = i
    BY <1>1, <1>5
  <2>2. m[(i - 1) + 1] = r[i - 1] /\ r[i - 1] = q[(i - 1) + 1]
    BY <1>4, <2>1
  <2> QED BY <2>1, <2>2
<1> QED
  BY <1>1, <1>3, <1>4, <1>5

\* The dispatcher walks over the queue.
LEMMA LineWalks ==
    ASSUME Base, Step, WalkOutcome, NEW x \in Ctx, LineOk(x)
    PROVE  LineOk(x)'
<1>0. TypeOK /\ Control
  BY DEF Base
<1>1. LineTyped(x) /\ LineTyped(x)'
  BY TypesStep
<1>2. /\ eop[x] \in Nat /\ queuedTs[x] \in Nat /\ queue[x] \in Seq(Objects)
      /\ queue \in [Ctx -> Seq(Objects)] /\ eop \in [Ctx -> Nat]
  BY <1>0, TypesAre DEF GpuTypes, CtxTypes
<1>3. Out(x)' = Out(x) /\ queuedTs' = queuedTs
  BY DEF WalkOutcome, WalkRest, schedVars, Out
<1>4. disp.pc = "next" /\ disp.ctx \in Ctx /\ disp.obj = None
  BY <1>0 DEF WalkOutcome, Control, ControlOf
<1>5. disp'.ctx = disp.ctx
  BY <1>0, WalkDisp DEF SameJob
<1>6. CASE x # disp.ctx
  <2>1. Hand(disp', x) = Hand(disp, x)
    BY <1>5, <1>6 DEF Hand
  <2>2. queue'[x] = queue[x] /\ eop'[x] = eop[x]
    BY <1>2, <1>6 DEF WalkOutcome, WalkEnds, WalkSends, WalkExpires, WalkSyncs, WalkRetires,
                      WalkBinds, Pops, RetireTimestamp
  <2>3. Line(x)' = Line(x)
    BY <2>1, <2>2 DEF Line
  <2> QED BY <1>3, <2>2, <2>3, LineUntouched DEF Untouched
<1>7. CASE x = disp.ctx
  <2>1. PICK q \in Seq(Objects) : q = queue[x]
    BY <1>2
  <2>2. Hand(disp, x) = None /\ Hand(disp', x) = disp'.obj
    BY <1>4, <1>5, <1>7 DEF Hand
  <2>3. Line(x) = q
    BY <2>1, <2>2, LineOfIs DEF Line
  <2>4. Line(x)' = LineOf(disp'.obj, queue'[x])
    BY <2>2 DEF Line
  <2>a. disp'.obj = None => Line(x)' = queue'[x]
    BY <2>4 DEF LineOf
  <2>5. CASE WalkEnds(x)
    <3>1. queue'[x] = queue[x] /\ eop' = eop
      BY <2>5 DEF WalkEnds
    <3>2. PICK r : Stop(r)
      BY <2>5 DEF WalkEnds
    <3>3. disp'.obj = None
      BY <1>0, <1>4, <3>2, TypesAre DEF Stop, DispTypes, DispType
    <3>4. Line(x)' = Line(x)
      BY <2>1, <2>3, <2>a, <3>1, <3>3
    <3> QED BY <1>3, <3>1, <3>4, LineUntouched DEF Untouched
  <2>6. ASSUME NEW o, Pops(x, o)
        PROVE  /\ o \in Objects /\ q # <<>> /\ o = q[1] /\ o.ts \in Nat
               /\ queue'[x] \in Seq(Objects) /\ Len(queue'[x]) = Len(q) - 1
               /\ \A j \in 1 .. Len(queue'[x]) : queue'[x][j] = q[j + 1]
    <3>1. PICK r \in Seq(Objects) : /\ Len(r) = Len(queue[x]) - 1
                                    /\ \A j \in 1 .. Len(r) : r[j] = queue[x][j + 1]
                                    /\ queue' = [queue EXCEPT ![x] = r]
      BY <2>6 DEF Pops
    <3>2. queue'[x] = r
      BY <1>2, <3>1
    <3>3. o \in Objects /\ q # <<>> /\ o = q[1]
      BY <2>1, <2>6 DEF Pops
    <3>4. o.ts \in Nat
      BY <3>3 DEF Objects
    <3> QED BY <2>1, <3>1, <3>2, <3>3, <3>4
  <2>7. ASSUME NEW o, Pops(x, o), disp'.obj = None
        PROVE  Rest(Line(x)', Line(x)) /\ Line(x)[1] = o
    <3>1. Len(q) \in Nat /\ Len(q) >= 1
      BY <2>6, <2>7
    <3> QED BY <2>3, <2>6, <2>7, <2>a, <3>1 DEF Rest
  <2>8. CASE WalkSends(x)
    <3>1. PICK o : Pops(x, o) /\ SendNext(o)
      BY <2>8 DEF WalkSends
    <3>2. disp'.obj = o
      BY <1>0, <3>1, TypesAre DEF SendNext, DispTypes, DispType
    <3>3. /\ Len(LineOf(o, queue'[x])) = Len(q) /\ LineOf(o, queue'[x])[1] = o
          /\ \A i \in 1 .. Len(q) : i # 1 => LineOf(o, queue'[x])[i] = q[i]
      BY <2>6, <3>1, FirstInHand
    <3>4. Same(Line(x)', Line(x))
      BY <2>3, <2>4, <2>6, <3>1, <3>2, <3>3 DEF Same
    <3>5. eop' = eop
      BY <2>8 DEF WalkSends
    <3>6. Restated(Line(x)', Line(x), eop[x])
      BY <3>4, SameIsRestated
    <3> QED BY <1>1, <1>2, <1>3, <3>5, <3>6, LineKept
  <2>9. CASE WalkExpires(x)
    <3>1. PICK o : /\ Pops(x, o) /\ o.type = "marker" /\ RetireTimestamp(x, o.ts)
                   /\ SendNext([o EXCEPT !.state = "expired"])
      BY <2>9 DEF WalkExpires
    <3>2. PICK u : u = [o EXCEPT !.state = "expired"]
      OBVIOUS
    <3>3. o \in Objects
      BY <2>6, <3>1
    <3>4. u \in Objects /\ u.type = o.type /\ u.ts = o.ts /\ u.mts = o.mts /\ u.state = "expired"
      BY <3>2, <3>3 DEF Objects
    <3>5. disp'.obj = u
      BY <1>0, <3>1, <3>2, TypesAre DEF SendNext, DispTypes, DispType
    <3>6. /\ Len(LineOf(u, queue'[x])) = Len(q) /\ LineOf(u, queue'[x])[1] = u
          /\ \A i \in 1 .. Len(q) : i # 1 => LineOf(u, queue'[x])[i] = q[i]
          /\ Len(q) \in Nat /\ Len(q) >= 1
      BY <2>6, <3>1, <3>4, FirstInHand
    <3>7. Line(x)' \in Seq(Objects) /\ o = q[1]
      BY <1>1, <2>6, <3>1 DEF LineTyped
    <3>8. Line(x)' = LineOf(u, queue'[x])
      BY <2>4, <3>5
    <3>9. Stated(Line(x)', Line(x), 1, "expired")
      <4>1. PICK m \in Seq(Objects) : m = Line(x)'
        BY <3>7
      <4>2. Len(m) = Len(q) /\ 1 \in 1 .. Len(q) /\ m[1] = u
            /\ \A i \in 1 .. Len(q) : i # 1 => m[i] = q[i]
        BY <3>6, <3>8, <4>1
      <4>3. Stated(m, q, 1, "expired")
        BY <3>4, <3>7, <4>2 DEF Stated
      <4> QED BY <2>3, <4>1, <4>3
    <3>10. eop'[x] = Line(x)[1].ts /\ Line(x)[1].type = "marker" /\ Len(Line(x)) >= 1
      BY <1>2, <2>3, <3>1, <3>6, <3>7 DEF RetireTimestamp
    <3> QED BY <1>1, <1>2, <1>3, <3>9, <3>10, LineExpires
  <2>10. CASE WalkSyncs(x)
    <3>1. PICK o : Pops(x, o) /\ o.type = "sync" /\ o.state = "ready"
      BY <2>10 DEF WalkSyncs
    <3>2. disp'.obj = None /\ eop' = eop
      BY <1>0, <1>4, <2>10, TypesAre DEF WalkSyncs, DispTypes, DispType
    <3>3. Rest(Line(x)', Line(x)) /\ Line(x)[1] = o /\ o \in Objects
      BY <2>6, <2>7, <3>1, <3>2
    <3>4. Out(x)' \subseteq Out(x) \cup {o.ts} /\ eop'[x] = eop[x] /\ queuedTs'[x] = queuedTs[x]
      BY <1>3, <3>2
    <3> QED BY <1>1, <1>2, <3>1, <3>3, <3>4, LineShorter
  <2>11. CASE WalkRetires(x)
    <3>1. PICK o : Pops(x, o) /\ o.type # "sync" /\ RetireTimestamp(x, o.ts)
      BY <2>11 DEF WalkRetires, Aux
    <3>2. disp'.obj = None
      BY <1>0, <1>4, <2>11, TypesAre DEF WalkRetires, DispTypes, DispType
    <3>3. Rest(Line(x)', Line(x)) /\ Line(x)[1] = o /\ o \in Objects
      BY <2>6, <2>7, <3>1, <3>2
    <3>4. eop'[x] = o.ts
      BY <1>2, <3>1 DEF RetireTimestamp
    <3>5. Out(x)' \subseteq Out(x) \cup {o.ts} /\ queuedTs'[x] = queuedTs[x]
      BY <1>3
    <3> QED BY <1>1, <1>2, <3>1, <3>3, <3>4, <3>5, LineShorter
  <2>12. CASE WalkBinds(x)
    <3>1. PICK r : Stated(r, queue[x], 1, "go") /\ queue' = [queue EXCEPT ![x] = r]
      BY <2>12 DEF WalkBinds
    <3>2. disp'.obj = None /\ eop' = eop
      BY <1>0, <1>4, <2>12, TypesAre DEF WalkBinds, Stop, DispTypes, DispType
    <3>3. Line(x)' = r
      BY <1>2, <2>a, <3>1, <3>2
    <3>4. q[1].type = "bind" /\ Stated(r, q, 1, "go")
      BY <2>1, <2>12, <3>1 DEF WalkBinds
    <3>5. Restated(r, q, eop[x])
      BY <3>4 DEF Stated, Restated
    <3> QED BY <1>1, <1>2, <1>3, <2>3, <3>2, <3>3, <3>5, LineKept
  <2> QED BY <1>7, <2>5, <2>8, <2>9, <2>10, <2>11, <2>12 DEF WalkOutcome
<1> QED
  BY <1>6, <1>7

\* A line whose first object leaves the dispatcher's hands.
LEMMA HandLeaves ==
    ASSUME NEW q \in Seq(Objects), NEW o \in Objects
    PROVE  Rest(LineOf(None, q), LineOf(o, q)) /\ LineOf(o, q)[1] = o
<1>1. o # None /\ o \in Objects \cup {None} /\ Len(q) \in Nat
  BY Nones
<1>2. /\ Len(LineOf(o, q)) = Len(q) + 1 /\ LineOf(o, q)[1] = o
      /\ \A j \in 1 .. Len(q) : LineOf(o, q)[j + 1] = q[j]
  BY <1>1, LineOfIs
<1>3. LineOf(None, q) = q
  BY DEF LineOf
<1>4. PICK l : l = LineOf(o, q)
  OBVIOUS
<1>5. Len(l) >= 1 /\ Len(q) = Len(l) - 1 /\ \A j \in 1 .. Len(q) : q[j] = l[j + 1]
  BY <1>1, <1>2, <1>4
<1> QED
  BY <1>2, <1>3, <1>4, <1>5 DEF Rest

\* The dispatcher sends an object, or finds that its context is gone.
LEMMA LineSends ==
    ASSUME Base, HandIs, Step, SendOutcome, NEW x \in Ctx, LineOk(x)
    PROVE  LineOk(x)'
<1>0. TypeOK /\ Control /\ SchedTypes
  BY TypesAre DEF Base
<1>1. LineTyped(x) /\ LineTyped(x)'
  BY TypesStep
<1>2. eop[x] \in Nat /\ queuedTs[x] \in Nat /\ queue[x] \in Seq(Objects)
  BY <1>0, TypesAre DEF GpuTypes, CtxTypes
<1>3. queue' = queue /\ eop' = eop /\ queuedTs' = queuedTs
  BY DEF SendOutcome, SendRest, ctxVars
<1>4. disp'.ctx = disp.ctx /\ disp.ctx \in Ctx /\ disp.obj \in Objects
  BY <1>0, SendDisp DEF SameJob, SendOutcome
<1>5. disp.obj.type # "sync"
  BY <1>4, Nones DEF HandIs
<1>6. Out(x)' \subseteq IF x = disp.ctx THEN Out(x) \cup {disp.obj.ts} ELSE Out(x)
  <2>1. CASE SendDone(disp.ctx, disp.obj)
    <3>1. Submit(disp.ctx, disp.obj)
      BY <2>1 DEF SendDone
    <3> QED BY <1>0, <1>4, <3>1, OutSubmit
  <2>2. CASE SendGone(disp.ctx) \/ SendFails
    <3>1. cmdList' = cmdList
      BY <2>2 DEF SendGone, SendFails, schedVars
    <3> QED BY <3>1 DEF Out
  <2> QED BY <2>1, <2>2 DEF SendOutcome
<1>7. CASE x # disp.ctx
  <2>1. Hand(disp', x) = Hand(disp, x)
    BY <1>4, <1>7 DEF Hand
  <2>2. Line(x)' = Line(x)
    BY <1>3, <2>1 DEF Line
  <2> QED BY <1>3, <1>6, <1>7, <2>2, LineUntouched DEF Untouched
<1>8. CASE x = disp.ctx
  <2>1. Hand(disp, x) = disp.obj /\ Hand(disp', x) = disp'.obj
    BY <1>4, <1>8 DEF Hand
  <2>2. CASE SendFails
    <3>1. disp'.obj = disp.obj
      BY <1>0, <2>2, TypesAre DEF SendFails, DispTypes, DispType
    <3>2. Line(x)' = Line(x)
      BY <1>3, <2>1, <3>1 DEF Line
    <3>3. Out(x)' = Out(x)
      BY <2>2 DEF SendFails, Out
    <3> QED BY <1>3, <3>2, <3>3, LineUntouched DEF Untouched
  <2>3. CASE disp'.obj = None
    <3>1. Line(x)' = LineOf(None, queue[x]) /\ Line(x) = LineOf(disp.obj, queue[x])
      BY <1>3, <2>1, <2>3 DEF Line
    <3>2. Rest(Line(x)', Line(x)) /\ Line(x)[1] = disp.obj
      BY <1>2, <1>4, <3>1, HandLeaves
    <3>3. PICK o \in Objects : o = disp.obj
      BY <1>4
    <3>4. Out(x)' \subseteq Out(x) \cup {o.ts} /\ eop'[x] = eop[x] /\ queuedTs'[x] = queuedTs[x]
      BY <1>3, <1>6, <1>8, <3>3
    <3> QED BY <1>1, <1>2, <1>5, <3>2, <3>3, <3>4, LineShorter
  <2> QED BY <1>0, <2>2, <2>3, SendDisp
<1> QED
  BY <1>7, <1>8

\* The object goes back to the queue, or is dropped with its context.
LEMMA LineRequeues ==
    ASSUME Base, Room, HandIs, Step, RequeueOutcome, NEW x \in Ctx, LineOk(x)
    PROVE  LineOk(x)'
<1>0. TypeOK /\ Control /\ QueuedCounts /\ SlotsKept
  BY DEF Base, Room
<1>1. LineTyped(x) /\ LineTyped(x)'
  BY TypesStep
<1>2. /\ eop[x] \in Nat /\ queuedTs[x] \in Nat /\ queue[x] \in Seq(Objects)
      /\ queue \in [Ctx -> Seq(Objects)] /\ queued[x] \in Nat
  BY <1>0, TypesAre DEF GpuTypes, CtxTypes
<1>3. eop' = eop /\ queuedTs' = queuedTs /\ cmdList' = cmdList
  BY DEF RequeueOutcome, gpuVars, schedVars
<1>4. disp'.ctx = disp.ctx /\ disp'.obj = None /\ disp.ctx \in Ctx /\ disp.obj \in Objects
  <2>1. disp \in DispType
    BY <1>0, TypesAre DEF DispTypes
  <2>2. CASE PutsBack(disp.ctx)
    BY <2>1, <2>2 DEF RequeueOutcome, PutsBack, DispType
  <2>3. CASE Drops(disp.ctx)
    BY <2>1, <2>3 DEF RequeueOutcome, Drops, DispType
  <2> QED BY <2>2, <2>3 DEF RequeueOutcome
<1>5. disp.obj.type # "sync" /\ disp.obj # None
  BY <1>4, Nones DEF HandIs
<1>6. Out(x)' = Out(x)
  BY <1>3 DEF Out
<1>7. CASE x # disp.ctx
  <2>1. Hand(disp', x) = Hand(disp, x)
    BY <1>4, <1>7 DEF Hand
  <2>2. queue'[x] = queue[x]
    BY <1>2, <1>7 DEF RequeueOutcome, PutsBack, Drops
  <2>3. Line(x)' = Line(x)
    BY <2>1, <2>2 DEF Line
  <2> QED BY <1>3, <1>6, <2>3, LineUntouched DEF Untouched
<1>8. CASE x = disp.ctx
  <2>1. Line(x)' = LineOf(None, queue'[x]) /\ Line(x) = LineOf(disp.obj, queue[x])
    BY <1>4, <1>8 DEF Hand, Line
  <2>2. CASE Drops(x)
    <3>1. queue' = queue
      BY <2>2 DEF Drops
    <3>2. Rest(Line(x)', Line(x)) /\ Line(x)[1] = disp.obj
      BY <1>2, <1>4, <2>1, <3>1, HandLeaves
    <3>3. PICK o \in Objects : o = disp.obj
      BY <1>4
    <3>4. Out(x)' \subseteq Out(x) \cup {o.ts} /\ eop'[x] = eop[x] /\ queuedTs'[x] = queuedTs[x]
      BY <1>3, <1>6
    <3> QED BY <1>1, <1>2, <1>5, <3>2, <3>3, <3>4, LineShorter
  <2>3. CASE PutsBack(x)
    <3>1. PICK r : Headed(x, disp.obj, r) /\ queue' = [queue EXCEPT ![x] = r]
      BY <2>3 DEF PutsBack
    <3>2. queue'[x] = r /\ Line(x)' = r
      BY <1>2, <2>1, <3>1 DEF LineOf
    <3>3. PICK q \in Seq(Objects) : q = queue[x] /\ Len(q) \in Nat
      BY <1>2
    <3>4. Len(q) + 1 < DrawqueueSize
      <4>1. Slots(x) = queued[x] + 1
        BY <1>5, <1>8 DEF Slots
      <4>2. Slots(x) <= DrawqueueSize - 1 /\ Len(q) <= queued[x] /\ DrawqueueSize \in Nat
        BY <1>0, <3>3, Nones DEF SlotsKept, QueuedCounts
      <4> QED BY <1>2, <3>3, <4>1, <4>2
    <3>5. r \in Seq(Objects) /\ Len(r) = Len(q) + 1 /\ r[1] = disp.obj
          /\ \A j \in 2 .. Len(r) : r[j] = q[j - 1]
      BY <3>1, <3>3, <3>4 DEF Headed
    <3>6. PICK l \in Seq(Objects) : l = Line(x)
      BY <1>1 DEF LineTyped
    <3>7. Len(l) = Len(q) + 1 /\ l[1] = disp.obj /\ \A j \in 1 .. Len(q) : l[j + 1] = q[j]
      <4>1. disp.obj \in Objects \cup {None} /\ l = LineOf(disp.obj, q)
        BY <1>4, <2>1, <3>3, <3>6
      <4>2. /\ Len(LineOf(disp.obj, q)) = Len(q) + 1 /\ LineOf(disp.obj, q)[1] = disp.obj
            /\ \A j \in 1 .. Len(q) : LineOf(disp.obj, q)[j + 1] = q[j]
        BY <1>5, <4>1, LineOfIs
      <4> QED BY <4>1, <4>2
    <3>8. ASSUME NEW i \in 1 .. Len(l) PROVE r[i] = l[i]
      <4>1. CASE i = 1
        BY <3>5, <3>7, <4>1
      <4>2. CASE i # 1
        <5>1. i \in 2 .. Len(r) /\ i - 1 \in 1 .. Len(q) /\ (i - 1) + 1 = i
          BY <3>3, <3>5, <3>7, <4>2
        <5>2. r[i] = q[i - 1] /\ l[(i - 1) + 1] = q[i - 1]
          BY <3>5, <3>7, <5>1
        <5> QED BY <5>1, <5>2
      <4> QED BY <4>1, <4>2
    <3>9. Same(r, l)
      BY <3>5, <3>7, <3>8 DEF Same
    <3>10. Restated(Line(x)', Line(x), eop[x])
      BY <3>2, <3>6, <3>9, SameIsRestated
    <3> QED BY <1>1, <1>2, <1>3, <1>6, <3>10, LineKept
  <2> QED BY <1>8, <2>2, <2>3 DEF RequeueOutcome
<1> QED
  BY <1>7, <1>8

\* A sync point signals or a bind operation ends somewhere in the line.
LEMMA SignalInLine ==
    ASSUME NEW q \in Seq(Objects), NEW r \in Seq(Objects), NEW h \in Objects \cup {None}, NEW f,
           NEW i \in 1 .. Len(q), Stated(r, q, i, "ready"),
           (q[i].type = "sync" /\ q[i].mts <= f) \/ q[i].type = "bind"
    PROVE  Restated(LineOf(h, r), LineOf(h, q), f)
<1>1. /\ Len(r) = Len(q) /\ Len(q) \in Nat
      /\ \A j \in 1 .. Len(q) :
            /\ r[j].type = q[j].type /\ r[j].ts = q[j].ts /\ r[j].mts = q[j].mts
            /\ \/ r[j].state = q[j].state
               \/ r[j].state \in {"ready", "go"} /\ r[j].type = "bind"
               \/ r[j].state = "ready" /\ r[j].type = "sync" /\ r[j].mts <= f
  BY DEF Stated
<1>2. CASE h = None
  <2>1. LineOf(h, r) = r /\ LineOf(h, q) = q
    BY <1>2 DEF LineOf
  <2> QED BY <1>1, <2>1 DEF Restated
<1>3. CASE h # None
  <2>1. /\ Len(LineOf(h, q)) = Len(q) + 1 /\ LineOf(h, q)[1] = h
        /\ \A j \in 1 .. Len(q) : LineOf(h, q)[j + 1] = q[j]
    BY <1>3, LineOfIs
  <2>2. /\ Len(LineOf(h, r)) = Len(r) + 1 /\ LineOf(h, r)[1] = h
        /\ \A j \in 1 .. Len(r) : LineOf(h, r)[j + 1] = r[j]
    BY <1>3, LineOfIs
  <2>3. PICK l, m : l = LineOf(h, q) /\ m = LineOf(h, r)
    OBVIOUS
  <2>4. Len(m) = Len(l) /\ Len(l) = Len(q) + 1 /\ m[1] = l[1]
    BY <1>1, <2>1, <2>2, <2>3
  <2>5. ASSUME NEW k \in 1 .. Len(l), k # 1
        PROVE  /\ m[k].type = l[k].type /\ m[k].ts = l[k].ts /\ m[k].mts = l[k].mts
               /\ \/ m[k].state = l[k].state
                  \/ m[k].state \in {"ready", "go"} /\ m[k].type = "bind"
                  \/ m[k].state = "ready" /\ m[k].type = "sync" /\ m[k].mts <= f
    <3>1. PICK j \in 1 .. Len(q) : k = j + 1 /\ j \in 1 .. Len(r)
      <4>1. k - 1 \in 1 .. Len(q) /\ k = (k - 1) + 1
        BY <1>1, <2>4, <2>5
      <4> QED BY <1>1, <4>1
    <3>2. m[k] = r[j] /\ l[k] = q[j]
      BY <2>1, <2>2, <2>3, <3>1
    <3> QED BY <1>1, <3>2
  <2>6. Restated(m, l, f)
    BY <2>4, <2>5 DEF Restated
  <2> QED BY <2>3, <2>6
<1> QED
  BY <1>2, <1>3

\* What the recovery from a fault does to a context: nothing, or it is
\* invalidated, or one of its commands is retired while something of it had not.
Spared(x) == eop'[x] = eop[x] /\ sop'[x] = sop[x] /\ bits'[x] = bits[x] /\ queue'[x] = queue[x]
Condemned(x) == "INVALID" \in bits'[x] /\ eop'[x] = timestamp[x] /\ sop'[x] = timestamp[x]
Forced(x) ==
    /\ eop'[x] \in Out(x) /\ sop'[x] = eop'[x] /\ bits'[x] = bits[x] /\ queue'[x] = queue[x]
    /\ Live(x) => \E t \in Out(x) : eop[x] < t

\* Each context gets one of them, and what is left on cmd_list has not retired.
LEMMA FaultIs ==
    ASSUME Base, Started, Blamed, FaultOutcome, NEW x \in Ctx
    PROVE  /\ Hand(disp, x) = None /\ disp' = disp /\ UNCHANGED <<queuedTs, timestamp>>
           /\ Out(x)' \subseteq Out(x)
           /\ \A t \in Out(x) : t \in Out(x)' \/ t <= eop'[x] \/ bits'[x] # {}
           /\ \A t \in Out(x)' : eop'[x] < t /\ bits'[x] = {}
           /\ Spared(x) \/ Condemned(x) \/ Forced(x)
<1>0. TypeOK /\ Control /\ SchedTypes /\ CtxTypes /\ GpuTypes
  BY TypesAre DEF Base
<1>1. Hand(disp, x) = None /\ disp' = disp
  <2>1. disp.pc = "off"
    BY <1>0 DEF FaultOutcome, Control, ControlOf
  <2>2. disp.obj = None
    BY <1>0, <2>1 DEF Control, ControlOf
  <2> QED BY <2>2 DEF Hand, FaultOutcome
<1>2. PICK cs, m : Blames(cs, m) /\ adreno_drawctxt_invalidate(cs, m)
  BY DEF FaultOutcome
<1>3. UNCHANGED <<queuedTs, timestamp>>
  BY <1>2 DEF adreno_drawctxt_invalidate
<1>a. eop' \in [Ctx -> Nat]
  BY <1>0, <1>2, InvalidateMemstore
<1>4. PICK done : done = {e \in ToSet(cmdList) : eop'[e.ctx] >= e.obj.ts \/ bits'[e.ctx] # {}}
  OBVIOUS
<1>5. Reap(done)
  BY <1>4 DEF FaultOutcome, adreno_hwsched_replay
<1>6. Out(x)' \subseteq Out(x)
  BY <1>0, <1>5, OutReap
<1>7. ASSUME NEW t \in Out(x), t \notin Out(x)' PROVE t <= eop'[x] \/ bits'[x] # {}
  <2>1. PICK e \in done : e.ctx = x /\ e.obj.ts = t
    BY <1>0, <1>5, <1>7, OutReap
  <2>2. eop'[x] >= t \/ bits'[x] # {}
    BY <1>4, <2>1
  <2>3. t \in Nat /\ eop'[x] \in Nat
    BY <1>a DEF Out
  <2> QED BY <2>2, <2>3
<1>8. ASSUME NEW t \in Out(x)' PROVE eop'[x] < t /\ bits'[x] = {}
  <2>1. PICK k \in 1 .. Len(cmdList') : cmdList'[k].ctx = x /\ cmdList'[k].obj.ts = t
    BY DEF Out
  <2>2. PICK i \in 1 .. Len(cmdList) : cmdList'[k] = cmdList[i] /\ cmdList[i] \notin done
    BY <1>0, <1>5, ReapIs
  <2>3. cmdList[i] \in ToSet(cmdList)
    BY <1>0 DEF ToSet, SchedTypes
  <2>4. ~(eop'[x] >= t) /\ bits'[x] = {}
    BY <1>4, <2>1, <2>2, <2>3
  <2>5. t \in Nat /\ eop'[x] \in Nat
    BY <1>a DEF Out
  <2> QED BY <2>4, <2>5
<1>9. /\ bits'[x] = (IF x \in cs THEN bits[x] \cup {"INVALID"} ELSE bits[x])
      /\ queue'[x] = (IF x \in cs THEN <<>> ELSE queue[x])
      /\ sop'[x] = (IF x \in cs THEN timestamp[x] ELSE m.sop[x])
      /\ eop'[x] = (IF x \in cs THEN timestamp[x] ELSE m.eop[x])
  BY <1>2 DEF adreno_drawctxt_invalidate
<1> SUFFICES Spared(x) \/ Condemned(x) \/ Forced(x)
  BY <1>1, <1>3, <1>6, <1>7, <1>8
<1>10. CASE x \in cs
  BY <1>9, <1>10 DEF Condemned
<1>11. CASE x \notin cs
  <2>1. CASE m = Memstore
    BY <1>9, <1>11, <2>1 DEF Memstore, Spared
  <2>2. CASE m # Memstore
    <3>1. PICK i \in FaultedCmd :
            /\ i \in 1 .. Len(cmdList)
            /\ m = [sop |-> [sop EXCEPT ![cmdList[i].ctx] = cmdList[i].obj.ts],
                    eop |-> [eop EXCEPT ![cmdList[i].ctx] = cmdList[i].obj.ts]]
      BY <1>2, <2>2 DEF Blames
    <3>2. CASE x # cmdList[i].ctx
      <4>1. m.sop[x] = sop[x] /\ m.eop[x] = eop[x]
        BY <1>0, <3>1, <3>2 DEF GpuTypes
      <4> QED BY <1>9, <1>11, <4>1 DEF Spared
    <3>3. CASE x = cmdList[i].ctx
      <4>1. cmdList[i].obj.ts \in Nat
        <5>1. cmdList[i] \in Entries
          BY <1>0, <3>1 DEF SchedTypes
        <5> QED BY <5>1 DEF Entries, Objects
      <4>2. cmdList[i].obj.ts \in Out(x)
        BY <3>1, <3>3, <4>1 DEF Out
      <4>3. m.sop[x] = cmdList[i].obj.ts /\ m.eop[x] = cmdList[i].obj.ts
        BY <1>0, <3>1, <3>3 DEF GpuTypes
      <4>4. ASSUME Live(x) PROVE \E t \in Out(x) : eop[x] < t
        <5>1. CASE i \in FaultCmdobj
          <6>1. ctxtBad = <<x, cmdList[i].obj.ts>>
            BY <3>3, <5>1 DEF FaultCmdobj
          <6>2. ctxtBad # None /\ ctxtBad[1] = x
            BY <4>1, <6>1, Nones
          <6> QED BY <4>4, <6>2 DEF Blamed
        <5>2. CASE i \in ActiveCmdobj
          <6>1. sop[x] # eop[x]
            BY <3>3, <5>2 DEF ActiveCmdobj, Active
          <6> QED BY <4>2, <6>1 DEF Started
        <5> QED BY <5>1, <5>2 DEF FaultedCmd
      <4> QED BY <1>9, <1>11, <4>2, <4>3, <4>4 DEF Forced
    <3> QED BY <3>2, <3>3
  <2> QED BY <2>1, <2>2
<1> QED
  BY <1>10, <1>11

\* The first of the commands that the GMU holds.
LEMMA GmuHead ==
    ASSUME GpuTypes, NEW c \in Ctx, gmu[c] # <<>>
    PROVE  /\ Head(gmu[c]) = gmu[c][1] /\ 1 \in 1 .. Len(gmu[c]) /\ Len(gmu[c]) \in Nat
           /\ Len(Tail(gmu[c])) = Len(gmu[c]) - 1
           /\ \A i \in 1 .. Len(Tail(gmu[c])) : Tail(gmu[c])[i] = gmu[c][i + 1] /\ i + 1 \in 1 .. Len(gmu[c])
<1>1. PICK s \in Seq(Nat) : s = gmu[c]
  BY DEF GpuTypes
<1>2. Head(s) = s[1] /\ 1 \in 1 .. Len(s) /\ Len(s) \in Nat
  BY <1>1
<1>3. Len(Tail(s)) = Len(s) - 1 /\ \A i \in 1 .. Len(Tail(s)) : Tail(s)[i] = s[i + 1]
  BY <1>1
<1>4. \A i \in 1 .. Len(Tail(s)) : i + 1 \in 1 .. Len(s)
  BY <1>2, <1>3
<1> QED
  BY <1>1, <1>2, <1>3, <1>4

\* Every step keeps the lines.
LEMMA LinesStep ==
    ASSUME Base, Room, Order, Step
    PROVE  Lines'
<1> SUFFICES ASSUME NEW x \in Ctx, Live(x)' PROVE LineOk(x)'
  BY DEF Lines
<1>0. TypeOK /\ Control /\ CtxTypes /\ GpuTypes /\ SchedTypes /\ DispTypes /\ RestTypes
  BY TypesAre DEF Base
<1>1. Times /\ HandIs /\ BatchesWait /\ GmuListed /\ GmuAhead /\ Started /\ Blamed
  BY DEF Order
<1>2. Live(x) /\ LineOk(x)
  BY <1>0, <1>1, LiveStep DEF Order, Lines
<1>3. LineTyped(x) /\ LineTyped(x)' /\ eop[x] \in Nat /\ queuedTs[x] \in Nat
      /\ queue[x] \in Seq(Objects) /\ Hand(disp, x) \in Objects \cup {None}
  BY <1>0, TypesStep DEF GpuTypes, CtxTypes, LineTyped
<1>4. CASE Calm
  <2>1. Line(x)' = Line(x) /\ Out(x)' = Out(x)
    BY <1>4 DEF Calm, Line, Out
  <2> QED BY <1>2, <1>4, <2>1, LineUntouched DEF Untouched, Calm
<1>5. ASSUME NEW p \in Threads, SubmitOutcome(p) /\ Fast(p) PROVE LineOk(x)'
  BY <1>1, <1>2, <1>5, LineFast
<1>6. ASSUME NEW p \in Threads, SubmitOutcome(p), NEW os, Offers(p, os), Enqueues(p, os)
      PROVE  LineOk(x)'
  BY <1>1, <1>2, <1>6, LineEnqueues
<1>7. CASE WalkOutcome
  BY <1>2, <1>7, LineWalks
<1>8. CASE SendOutcome
  BY <1>1, <1>2, <1>8, LineSends
<1>9. CASE RequeueOutcome
  BY <1>1, <1>2, <1>9, LineRequeues
<1>10. CASE retire_cmd_list
  <2>1. Out(x)' \subseteq Out(x)
    <3>1. Reap({e \in ToSet(cmdList) : kgsl_check_timestamp(e.ctx, e.obj.ts)})
      BY <1>10 DEF retire_cmd_list
    <3> QED BY <1>0, <3>1, OutReap
  <2>2. disp.obj = None /\ disp'.obj = None
    <3>1. disp.pc = "off"
      BY <1>0, <1>10 DEF retire_cmd_list, WorkerLocks, Control, ControlOf
    <3> QED BY <1>0, <1>10, <3>1 DEF retire_cmd_list, Control, ControlOf, NoDisp
  <2>3. Hand(disp', x) = Hand(disp, x)
    BY <2>2 DEF Hand
  <2>4. Line(x)' = Line(x) /\ eop' = eop /\ queuedTs' = queuedTs
    BY <1>10, <2>3 DEF retire_cmd_list, Line, ctxVars, gpuVars
  <2> QED BY <1>2, <2>1, <2>4, LineUntouched DEF Untouched
<1>11. CASE FaultOutcome
  <2>1. /\ Hand(disp, x) = None /\ disp' = disp /\ UNCHANGED <<queuedTs, timestamp>>
        /\ Out(x)' \subseteq Out(x)
        /\ Spared(x) \/ Condemned(x) \/ Forced(x)
    BY <1>1, <1>11, FaultIs
  <2>2. ~Condemned(x)
    BY DEF Condemned, Live
  <2>3. queue'[x] = queue[x]
    BY <2>1, <2>2 DEF Spared, Forced
  <2>4. Line(x)' = Line(x)
    BY <2>1, <2>3 DEF Line
  <2>5. CASE Spared(x)
    BY <1>2, <2>1, <2>4, <2>5, LineUntouched DEF Untouched, Spared
  <2>6. CASE Forced(x)
    <3>1. Same(Line(x)', Line(x))
      BY <2>4 DEF Same
    <3>2. eop'[x] \in Out(x) /\ \E t \in Out(x) : eop[x] < t
      BY <1>2, <2>6 DEF Forced
    <3> QED BY <1>2, <1>3, <2>1, <3>1, <3>2, LineJumps
  <2> QED BY <2>1, <2>2, <2>5, <2>6
<1>12. ASSUME NEW c \in Ctx, GpuRetire(c) PROVE LineOk(x)'
  <2>1. /\ queue' = queue /\ disp' = disp /\ queuedTs' = queuedTs /\ cmdList' = cmdList
        /\ eop' = [eop EXCEPT ![c] = Head(gmu[c])] /\ gmu[c] # <<>> /\ fault = {}
    BY <1>12 DEF GpuRetire, ctxVars, schedVars
  <2>2. Line(x)' = Line(x) /\ Out(x)' = Out(x)
    BY <2>1 DEF Line, Out
  <2>3. CASE x # c
    BY <1>0, <1>2, <2>1, <2>2, <2>3, LineUntouched DEF Untouched, GpuTypes
  <2>4. CASE x = c
    <3>1. eop'[x] = gmu[x][1] /\ 1 \in 1 .. Len(gmu[x])
      BY <1>0, <2>1, <2>4, GmuHead DEF GpuTypes
    <3>2. eop'[x] \in Out(x) /\ eop[x] < eop'[x]
      BY <1>1, <2>1, <3>1 DEF GmuListed, GmuAhead
    <3>3. Same(Line(x)', Line(x)) /\ \E t \in Out(x) : eop[x] < t
      BY <2>2, <3>2 DEF Same
    <3> QED BY <1>2, <1>3, <2>1, <2>2, <3>2, <3>3, LineJumps
  <2> QED BY <2>3, <2>4
<1>13. ASSUME NEW c \in Ctx, adreno_hwsched_queue_context(c) PROVE LineOk(x)'
  <2>1. disp' = disp /\ queuedTs' = queuedTs /\ cmdList' = cmdList /\ eop' = eop
    BY <1>13 DEF adreno_hwsched_queue_context, schedVars, gpuVars
  <2>2. Out(x)' = Out(x) /\ Hand(disp', x) = Hand(disp, x)
    BY <2>1 DEF Out
  <2>3. PICK i \in 1 .. Len(queue[c]) : \E r :
            /\ Stated(r, queue[c], i, "ready") /\ queue' = [queue EXCEPT ![c] = r]
            /\ \/ queue[c][i].type = "sync" /\ eop[c] >= queue[c][i].mts
               \/ queue[c][i].type = "bind"
    BY <1>0, <1>13, SignalIs
  <2>4. PICK r :
            /\ Stated(r, queue[c], i, "ready") /\ queue' = [queue EXCEPT ![c] = r]
            /\ \/ queue[c][i].type = "sync" /\ eop[c] >= queue[c][i].mts
               \/ queue[c][i].type = "bind"
    BY <2>3
  <2>5. CASE x # c
    <3>1. Line(x)' = Line(x)
      BY <1>0, <2>2, <2>4, <2>5 DEF CtxTypes, Line
    <3> QED BY <1>2, <2>1, <2>2, <3>1, LineUntouched DEF Untouched
  <2>6. CASE x = c
    <3>1. PICK q \in Seq(Objects) : q = queue[x]
      BY <1>3
    <3>2. PICK h \in Objects \cup {None} : h = Hand(disp, x)
      BY <1>3
    <3>3. queue'[x] = r /\ r \in Seq(Objects)
      BY <1>0, <2>4, <2>6 DEF CtxTypes, Stated
    <3>4. i \in 1 .. Len(q) /\ Stated(r, q, i, "ready") /\ q[i].mts \in Nat
          /\ ((q[i].type = "sync" /\ eop[x] >= q[i].mts) \/ q[i].type = "bind")
      BY <2>3, <2>4, <2>6, <3>1, LineObjects
    <3>5. (q[i].type = "sync" /\ q[i].mts <= eop[x]) \/ q[i].type = "bind"
      BY <1>3, <3>4
    <3>6. Restated(LineOf(h, r), LineOf(h, q), eop[x])
      BY <3>3, <3>4, <3>5, SignalInLine
    <3>7. Restated(Line(x)', Line(x), eop[x])
      BY <2>2, <3>1, <3>2, <3>3, <3>6 DEF Line
    <3> QED BY <1>2, <1>3, <2>1, <2>2, <3>7, LineKept
  <2> QED BY <2>5, <2>6
<1>14. ASSUME NEW c \in Ctx,
              \/ drawctxt_detach_drawobjs(c) \/ gen7_hwsched_context_detach(c) \/ UnregisterTimeout(c)
       PROVE  LineOk(x)'
  <2>1. x # c
    <3>1. dpc' = [dpc EXCEPT ![c] = "drained"] \/ dpc' = [dpc EXCEPT ![c] = "done"]
      BY <1>14 DEF drawctxt_detach_drawobjs, gen7_hwsched_context_detach, UnregisterTimeout
    <3> QED BY <1>0, <3>1 DEF RestTypes, Live
  <2>2. disp' = disp /\ queuedTs' = queuedTs /\ cmdList' = cmdList
    BY <1>14 DEF drawctxt_detach_drawobjs, gen7_hwsched_context_detach, UnregisterTimeout,
                 adreno_drawctxt_invalidate, ctxVars, schedVars
  <2>3. queue'[x] = queue[x] /\ eop'[x] = eop[x]
    <3>1. CASE drawctxt_detach_drawobjs(c)
      BY <1>0, <2>1, <3>1 DEF drawctxt_detach_drawobjs, gpuVars, CtxTypes
    <3>2. CASE gen7_hwsched_context_detach(c)
      BY <1>0, <2>1, <3>2 DEF gen7_hwsched_context_detach, RetireTimestamp, ctxVars, GpuTypes
    <3>3. CASE UnregisterTimeout(c)
      BY <2>1, <3>3 DEF UnregisterTimeout, adreno_drawctxt_invalidate, Memstore
    <3> QED BY <1>14, <3>1, <3>2, <3>3
  <2>4. Line(x)' = Line(x) /\ Out(x)' = Out(x)
    BY <2>2, <2>3 DEF Line, Out
  <2> QED BY <1>2, <2>2, <2>3, <2>4, LineUntouched DEF Untouched
<1>15. Moves
  BY <1>0, MovesStep
<1> QED
  BY <1>4, <1>5, <1>6, <1>7, <1>8, <1>9, <1>10, <1>11, <1>12, <1>13, <1>14, <1>15 DEF Moves

-----------------------------------------------------------------------------
(***************************************************************************)
(* What retires, and what is on cmd_list and in the GMU.                   *)
(***************************************************************************)
\* The memstore of a context stays; or what needs no GPU retires after all
\* that is on cmd_list, later than before when hardware fences are off; or the
\* context is gone.
NoHwFence == TRUE \notin HwFence
Kept(x) == eop'[x] = eop[x] /\ sop'[x] = sop[x]
Retired(x) ==
    /\ sop'[x] = eop'[x] /\ eop'[x] <= timestamp'[x]
    /\ Live(x) /\ \A t \in Out(x) : t <= eop[x]
    /\ NoHwFence => eop[x] <= eop'[x]
Ended(x) ==
    /\ sop'[x] = eop'[x] /\ eop'[x] = timestamp'[x]
    /\ ~Live(x)' /\ (gmu'[x] = <<>> \/ fault' # {})

\* A context with something in its queue is live.
LEMMA QueueLive ==
    ASSUME Base, NEW x \in Ctx, queue[x] # <<>>
    PROVE  Live(x)
<1>1. RestTypes /\ Drained
  BY TypesAre DEF Base
<1> QED
  BY <1>1 DEF RestTypes, Drained, Live

\* So is a context that is not bad.
LEMMA GoodLive ==
    ASSUME Base, NEW x \in Ctx, bits[x] = {}
    PROVE  Live(x)
<1>1. Marked
  BY DEF Base
<1> QED
  BY <1>1 DEF Marked, Live

\* What the dispatcher retires in its walk.
LEMMA WalkRetired ==
    ASSUME Base, Order, WalkOutcome, NEW x \in Ctx
    PROVE  Kept(x) \/ Retired(x)
<1>0. TypeOK /\ Control /\ GpuTypes /\ CtxTypes /\ DispTypes
  BY TypesAre DEF Base
<1>1. timestamp' = timestamp /\ disp.ctx \in Ctx /\ disp.obj = None
  BY <1>0 DEF WalkOutcome, WalkRest, Control, ControlOf
<1>2. CASE x # disp.ctx \/ WalkEnds(disp.ctx) \/ WalkSends(disp.ctx) \/ WalkSyncs(disp.ctx) \/ WalkBinds(disp.ctx)
  BY <1>0, <1>2 DEF WalkOutcome, WalkEnds, WalkSends, WalkExpires, WalkSyncs, WalkRetires,
                    WalkBinds, RetireTimestamp, Kept, GpuTypes
<1>3. CASE x = disp.ctx /\ (WalkExpires(x) \/ WalkRetires(x))
  <2>1. PICK o : /\ Pops(x, o) /\ RetireTimestamp(x, o.ts)
                 /\ (o.type = "marker" /\ kgsl_check_timestamp(x, o.mts)) \/ Aux(o)
    BY <1>3 DEF WalkExpires, WalkRetires
  <2>2. queue[x] # <<>> /\ o \in Objects /\ o = queue[x][1]
    BY <2>1 DEF Pops
  <2>3. Live(x) /\ LineOk(x)
    BY <2>2, QueueLive DEF Order, Lines
  <2>4. PICK l \in Seq(Objects) : l = queue[x] /\ 1 \in 1 .. Len(l)
    BY <1>0, <2>2 DEF CtxTypes
  <2>5. Line(x) = l
    BY <1>1, <1>3, <2>4 DEF Line, LineOf, Hand
  <2>6. PICK e \in Nat, S \in SUBSET Nat, last \in Nat : e = eop[x] /\ S = Out(x) /\ last = queuedTs[x]
    BY <1>0 DEF GpuTypes, CtxTypes, Out
  <2>7. LineInv(l, S, e, last) /\ l[1] = o
    BY <2>2, <2>3, <2>4, <2>5, <2>6 DEF LineOk
  <2>8. o.mts \in Nat /\ o.ts \in Nat
    BY <2>2 DEF Objects
  <2>9. \A t \in S : t <= e
    <3>1. CASE o.type = "marker" /\ kgsl_check_timestamp(x, o.mts)
      <4>1. Covers(l, S, o.mts, 1) /\ o.mts <= e
        BY <2>4, <2>6, <2>7, <2>8, <3>1 DEF LineInv, MarkersWait, kgsl_check_timestamp
      <4>2. \A t \in S : t <= o.mts
        BY <4>1 DEF Covers
      <4> QED BY <2>8, <4>1, <4>2
    <3>2. CASE Aux(o)
      <4>1. Covers(l, S, e, 1) \/ \E i \in 1 .. 1 - 1 : Behind(l, S, 1, i)
        BY <2>4, <2>7, <3>2 DEF LineInv, AuxWaits
      <4>2. Covers(l, S, e, 1)
        BY <4>1
      <4> QED BY <4>2 DEF Covers
    <3> QED BY <2>1, <3>1, <3>2
  <2>10. sop'[x] = o.ts /\ eop'[x] = o.ts
    BY <1>0, <2>1 DEF RetireTimestamp, GpuTypes
  <2>11. o.ts <= timestamp[x]
    <3>1. o.ts <= last
      BY <2>4, <2>7 DEF LineInv, Stamped
    <3>2. last <= timestamp[x] /\ timestamp[x] \in Nat
      BY <1>0, <2>6 DEF Order, Times, CtxTypes
    <3> QED BY <2>8, <3>1, <3>2
  <2>12. NoHwFence => eop[x] <= o.ts
    <3> SUFFICES ASSUME NoHwFence PROVE eop[x] <= o.ts
      OBVIOUS
    <3>1. o.state # "expired"
      BY <2>2, <2>4 DEF Base, NoExpired, NoHwFence
    <3>2. o.type # "sync"
      BY <2>1 DEF Aux
    <3>3. o.ts # 0
      BY <2>4, <2>7, <3>2 DEF LineInv, Stamped
    <3>4. e < o.ts
      BY <2>4, <2>7, <3>1, <3>3 DEF LineInv, Unretired
    <3> QED BY <2>6, <2>8, <3>4
  <2> QED BY <1>1, <2>3, <2>6, <2>9, <2>10, <2>11, <2>12 DEF Retired
<1> QED
  BY <1>2, <1>3 DEF WalkOutcome

\* The marker of a thread that retires at once.
LEMMA FastRetired ==
    ASSUME Base, Order, NEW p \in Threads, SubmitOutcome(p), Fast(p), NEW x \in Ctx
    PROVE  Kept(x) \/ Retired(x)
<1>0. GpuTypes /\ CtxTypes
  BY TypesAre DEF Base
<1>1. PICK c \in Ctx : c = CtxOf(p)
  BY DEF SubmitOutcome
<1>2. /\ timestamp' = [timestamp EXCEPT ![c] = timestamp[c] + 1]
      /\ sop' = [sop EXCEPT ![c] = timestamp[c] + 1] /\ eop' = [eop EXCEPT ![c] = timestamp[c] + 1]
  BY <1>1 DEF Fast, FastMarker
<1>3. CASE x # c
  BY <1>0, <1>2, <1>3 DEF Kept, GpuTypes
<1>4. CASE x = c
  <2>1. timestamp[x] \in Nat /\ eop[x] \in Nat /\ queuedTs[x] \in Nat
    BY <1>0 DEF GpuTypes, CtxTypes
  <2>2. sop'[x] = timestamp[x] + 1 /\ eop'[x] = timestamp[x] + 1 /\ timestamp'[x] = timestamp[x] + 1
    BY <1>0, <1>2, <1>4 DEF GpuTypes, CtxTypes
  <2>3. Live(x)
    BY <1>1, <1>4, GoodLive DEF Fast, Good, kgsl_context_is_bad
  <2>4. eop[x] >= queuedTs[x]
    BY <1>1, <1>4 DEF Fast
  <2>5. \A t \in Out(x) : t <= queuedTs[x] /\ t \in Nat
    BY DEF Order, Times, Out
  <2>6. \A t \in Out(x) : t <= eop[x]
    BY <2>1, <2>4, <2>5
  <2>7. eop[x] <= timestamp[x]
    BY DEF Order, Times
  <2>8. eop[x] <= eop'[x]
    BY <2>1, <2>2, <2>7
  <2> QED BY <2>1, <2>2, <2>3, <2>6, <2>8 DEF Retired
<1> QED
  BY <1>3, <1>4

\* Steps that leave cmd_list and the GMU alone.
Quiet ==
    /\ UNCHANGED <<cmdList, gmu, ctxtBad>>
    /\ fault' = {} => fault = {}
    /\ \A x \in Ctx : bits[x] \subseteq bits'[x] /\ (Kept(x) \/ Retired(x) \/ Ended(x))

\* The steps that do not.
Loud ==
    \/ FaultOutcome \/ retire_cmd_list \/ (SendOutcome /\ SendDone(disp.ctx, disp.obj))
    \/ \E c \in Ctx : GpuStart(c) \/ GpuRetire(c) \/ adreno_hwsched_fault(c)

\* Most steps do.
LEMMA QuietStep ==
    ASSUME Base, Order, Step
    PROVE  Quiet \/ Loud
<1>a. TypeOK /\ Control /\ GpuTypes /\ CtxTypes /\ RestTypes
  BY TypesAre DEF Base
<1>b. ASSUME UNCHANGED <<cmdList, gmu, ctxtBad, fault, bits, sop, eop>>
      PROVE  Quiet
  BY <1>b DEF Quiet, Kept
<1>1. ASSUME NEW p \in Threads, SubmitOutcome(p)
      PROVE  Quiet \/ Loud
  <2>1. UNCHANGED <<cmdList, gmu, ctxtBad, fault, bits>>
    BY <1>1 DEF SubmitOutcome, SubmitRest, Refused, Sleeps, Fast, FastMarker, Enqueues, ctxVars,
              gpuVars, schedVars, faultVars
  <2>2. CASE Fast(p)
    <3>1. \A x \in Ctx : Kept(x) \/ Retired(x)
      BY <1>1, <2>2, FastRetired
    <3> QED BY <2>1, <3>1 DEF Quiet
  <2>3. CASE ~Fast(p)
    <3>1. sop' = sop /\ eop' = eop
      BY <1>1, <2>3 DEF SubmitOutcome, Refused, Sleeps, Enqueues, gpuVars
    <3> QED BY <1>b, <2>1, <3>1
  <2> QED BY <2>2, <2>3
<1>2. ASSUME NEW p \in Threads, kgsl_ioctl_gpu_aux_command(p)
      PROVE  Quiet \/ Loud
  BY <1>2, <1>b DEF kgsl_ioctl_gpu_aux_command, ctxVars, gpuVars, schedVars, faultVars, threadVars, boundVars, listVars
<1>3. ASSUME NEW p \in Threads, _wait_for_room_in_context_queue(p)
      PROVE  Quiet \/ Loud
  BY <1>3, <1>b DEF _wait_for_room_in_context_queue, ctxVars, gpuVars, schedVars, faultVars, threadVars, boundVars, listVars
<1>4. ASSUME NEW p \in Threads, WaitTimeout(p)
      PROVE  Quiet \/ Loud
  BY <1>4, <1>b DEF WaitTimeout, ctxVars, gpuVars, schedVars, faultVars, threadVars, boundVars, listVars
<1>5. ASSUME NEW p \in Threads, QueueJob(p)
      PROVE  Quiet \/ Loud
  BY <1>5, <1>b DEF QueueJob, ctxVars, gpuVars, schedVars, faultVars, threadVars, boundVars, listVars
<1>6. ASSUME NEW p \in Threads, adreno_hwsched_issuecmds(p)
      PROVE  Quiet \/ Loud
  BY <1>6, <1>b DEF adreno_hwsched_issuecmds, ctxVars, gpuVars, schedVars, faultVars, threadVars, boundVars, listVars
<1>7. ASSUME NEW p \in Threads, IssuedByThread(p)
      PROVE  Quiet \/ Loud
  BY <1>7, <1>b DEF IssuedByThread, ctxVars, gpuVars, schedVars, faultVars, threadVars, boundVars, listVars
<1>8. ASSUME hwsched_handle_jobs
      PROVE  Quiet \/ Loud
  BY <1>8, <1>b DEF hwsched_handle_jobs, ctxVars, gpuVars, schedVars, faultVars, threadVars, boundVars, listVars
<1>9. ASSUME hwsched_handle_jobs_list
      PROVE  Quiet \/ Loud
  BY <1>9, <1>b DEF hwsched_handle_jobs_list, ctxVars, gpuVars, schedVars, faultVars, threadVars, boundVars, listVars
<1>10. ASSUME WalkOutcome
       PROVE  Quiet \/ Loud
  <2>1. UNCHANGED <<cmdList, gmu, ctxtBad, fault, bits>>
    BY <1>10 DEF WalkOutcome, WalkRest, schedVars, faultVars
  <2>2. \A x \in Ctx : Kept(x) \/ Retired(x)
    BY <1>10, WalkRetired
  <2> QED BY <2>1, <2>2 DEF Quiet
<1>11. ASSUME SendOutcome
       PROVE  Quiet \/ Loud
  <2>1. UNCHANGED <<ctxtBad, bits, sop, eop>>
    BY <1>11 DEF SendOutcome, SendRest, ctxVars
  <2>2. CASE SendDone(disp.ctx, disp.obj)
    BY <1>11, <2>2 DEF Loud
  <2>3. CASE SendGone(disp.ctx)
    BY <1>b, <2>1, <2>3 DEF SendGone, schedVars
  <2>4. CASE SendFails
    <3>1. UNCHANGED <<cmdList, gmu>> /\ (fault' = {} => fault = {})
      BY <2>4 DEF SendFails
    <3> QED BY <2>1, <3>1 DEF Quiet, Kept
  <2> QED BY <1>11, <2>2, <2>3, <2>4 DEF SendOutcome
<1>12. ASSUME RequeueOutcome
       PROVE  Quiet \/ Loud
  BY <1>12, <1>b DEF RequeueOutcome, ctxVars, gpuVars, schedVars, faultVars, threadVars, boundVars, listVars
<1>13. ASSUME SendcmdsDone
       PROVE  Quiet \/ Loud
  BY <1>13, <1>b DEF SendcmdsDone, ctxVars, gpuVars, schedVars, faultVars, threadVars, boundVars, listVars
<1>14. ASSUME IssuedByWorker
       PROVE  Quiet \/ Loud
  BY <1>14, <1>b DEF IssuedByWorker, ctxVars, gpuVars, schedVars, faultVars, threadVars, boundVars, listVars
<1>15. ASSUME retire_cmd_list
       PROVE  Quiet \/ Loud
  BY <1>15 DEF Loud
<1>16. ASSUME FaultOutcome
       PROVE  Quiet \/ Loud
  BY <1>16 DEF Loud
<1>17. ASSUME TsRetire
       PROVE  Quiet \/ Loud
  BY <1>17, <1>b DEF TsRetire, ctxVars, gpuVars, schedVars, faultVars, threadVars, boundVars, listVars
<1>18. ASSUME NEW c \in Ctx, GpuStart(c)
       PROVE  Quiet \/ Loud
  BY <1>18 DEF Loud
<1>19. ASSUME NEW c \in Ctx, GpuRetire(c)
       PROVE  Quiet \/ Loud
  BY <1>19 DEF Loud
<1>20. ASSUME NEW c \in Ctx, adreno_hwsched_fault(c)
       PROVE  Quiet \/ Loud
  BY <1>20 DEF Loud
<1>21. ASSUME NEW c \in Ctx, adreno_hwsched_queue_context(c)
       PROVE  Quiet \/ Loud
  BY <1>21, <1>b DEF adreno_hwsched_queue_context, ctxVars, gpuVars, schedVars, faultVars, threadVars, boundVars, listVars
<1>22. ASSUME NEW c \in Ctx, kgsl_context_detach(c)
       PROVE  Quiet \/ Loud
  <2>1. UNCHANGED <<cmdList, gmu, ctxtBad, fault, sop, eop>>
    BY <1>22 DEF kgsl_context_detach, schedVars, gpuVars, faultVars
  <2>2. \A x \in Ctx : bits[x] \subseteq bits'[x]
    BY <1>22, <1>a DEF kgsl_context_detach, CtxTypes
  <2> QED BY <2>1, <2>2 DEF Quiet, Kept
<1>23. ASSUME NEW c \in Ctx, drawctxt_detach_drawobjs(c)
       PROVE  Quiet \/ Loud
  BY <1>23, <1>b DEF drawctxt_detach_drawobjs, ctxVars, gpuVars, schedVars, faultVars, threadVars, boundVars, listVars
<1>24. ASSUME NEW c \in Ctx, gen7_hwsched_context_detach(c)
       PROVE  Quiet \/ Loud
  <2>1. /\ UNCHANGED <<cmdList, gmu, ctxtBad, fault, bits, timestamp>> /\ gmu[c] = <<>>
        /\ dpc' = [dpc EXCEPT ![c] = "done"] /\ RetireTimestamp(c, timestamp[c])
    BY <1>24 DEF gen7_hwsched_context_detach, schedVars, faultVars, ctxVars
  <2>2. ASSUME NEW x \in Ctx PROVE Kept(x) \/ Ended(x)
    <3>1. CASE x # c
      BY <1>a, <2>1, <3>1 DEF RetireTimestamp, Kept, GpuTypes
    <3>2. CASE x = c
      <4>1. sop'[x] = timestamp[x] /\ eop'[x] = timestamp[x]
        BY <1>a, <2>1, <3>2 DEF RetireTimestamp, GpuTypes
      <4>2. ~Live(x)'
        BY <1>a, <2>1, <3>2 DEF RestTypes, Live
      <4> QED BY <2>1, <3>2, <4>1, <4>2 DEF Ended
    <3> QED BY <3>1, <3>2
  <2> QED BY <2>1, <2>2 DEF Quiet
<1>25. ASSUME NEW c \in Ctx, UnregisterTimeout(c)
       PROVE  Quiet \/ Loud
  <2>1. /\ UNCHANGED <<cmdList, gmu, ctxtBad, timestamp>> /\ fault' # {}
        /\ dpc' = [dpc EXCEPT ![c] = "done"]
        /\ bits' = [x \in Ctx |-> IF x \in {c} THEN bits[x] \cup {"INVALID"} ELSE bits[x]]
        /\ sop' = [x \in Ctx |-> IF x \in {c} THEN timestamp[x] ELSE sop[x]]
        /\ eop' = [x \in Ctx |-> IF x \in {c} THEN timestamp[x] ELSE eop[x]]
    BY <1>25 DEF UnregisterTimeout, adreno_drawctxt_invalidate, Memstore, schedVars
  <2>2. ASSUME NEW x \in Ctx PROVE bits[x] \subseteq bits'[x] /\ (Kept(x) \/ Ended(x))
    <3>1. bits[x] \subseteq bits'[x]
      BY <2>1
    <3>2. CASE x # c
      BY <2>1, <3>1, <3>2 DEF Kept
    <3>3. CASE x = c
      <4>1. sop'[x] = timestamp[x] /\ eop'[x] = timestamp[x]
        BY <2>1, <3>3
      <4>2. ~Live(x)'
        BY <1>a, <2>1, <3>3 DEF RestTypes, Live
      <4> QED BY <2>1, <3>1, <4>1, <4>2 DEF Ended
    <3> QED BY <3>2, <3>3
  <2> QED BY <2>1, <2>2 DEF Quiet
<1>26. ASSUME IdleHalt
       PROVE  Quiet \/ Loud
  BY <1>26, <1>b DEF IdleHalt, ctxVars, gpuVars, schedVars, faultVars, threadVars, boundVars, listVars
<1>27. ASSUME IdleFlush
       PROVE  Quiet \/ Loud
  BY <1>27, <1>b DEF IdleFlush, ctxVars, gpuVars, schedVars, faultVars, threadVars, boundVars, listVars
<1>28. ASSUME IdleGate
       PROVE  Quiet \/ Loud
  BY <1>28, <1>b DEF IdleGate, ctxVars, gpuVars, schedVars, faultVars, threadVars, boundVars, listVars
<1>29. ASSUME IdleUnhalt
       PROVE  Quiet \/ Loud
  BY <1>29, <1>b DEF IdleUnhalt, ctxVars, gpuVars, schedVars, faultVars, threadVars, boundVars, listVars
<1>30. ASSUME IdleDone
       PROVE  Quiet \/ Loud
  BY <1>30, <1>b DEF IdleDone, ctxVars, gpuVars, schedVars, faultVars, threadVars, boundVars, listVars
<1> QED
  BY <1>1, <1>2, <1>3, <1>4, <1>5, <1>6, <1>7, <1>8, <1>9, <1>10, <1>11, <1>12,
     <1>13, <1>14, <1>15, <1>16, <1>17, <1>18, <1>19, <1>20, <1>21, <1>22, <1>23, <1>24,
     <1>25, <1>26, <1>27, <1>28, <1>29, <1>30 DEF Step

\* What is sent is behind everything on cmd_list, and its context is not bad.
LEMMA SendIs ==
    ASSUME Base, Order, SendOutcome, SendDone(disp.ctx, disp.obj)
    PROVE  /\ disp.ctx \in Ctx /\ disp.obj \in Objects /\ bits[disp.ctx] = {} /\ Live(disp.ctx)
           /\ disp.obj.ts \in Nat /\ disp.obj.ts <= queuedTs[disp.ctx]
           /\ \A t \in Out(disp.ctx) : t < disp.obj.ts
           /\ disp.obj.state # "expired" => eop[disp.ctx] < disp.obj.ts
<1>0. CtxTypes /\ GpuTypes
  BY TypesAre DEF Base
<1>1. PICK c \in Ctx, o \in Objects : c = disp.ctx /\ o = disp.obj /\ o # None
  BY Nones DEF SendOutcome
<1>2. bits[c] = {}
  <2>1. "DETACHED" \notin bits[c]
    BY <1>1 DEF SendDone, kgsl_context_detached
  <2>2. "INVALID" \notin bits[c]
    BY <1>1, <2>1 DEF Order, HandIs
  <2> QED BY <1>0, <2>1, <2>2 DEF CtxTypes
<1>3. Live(c) /\ LineOk(c)
  BY <1>2, GoodLive DEF Order, Lines
<1>4. PICK q \in Seq(Objects) : q = queue[c]
  BY <1>0 DEF CtxTypes
<1>5. PICK l \in Seq(Objects) : l = LineOf(o, q) /\ l = Line(c)
  <2>1. LineOf(o, q) \in Seq(Objects)
    BY <1>4, LineOfIs
  <2> QED BY <1>1, <1>4, <2>1 DEF Line, Hand
<1>6. l[1] = o /\ Len(l) = Len(q) + 1 /\ Len(q) \in Nat
  <2>1. o \in Objects \cup {None}
    OBVIOUS
  <2>2. Len(LineOf(o, q)) = Len(q) + 1 /\ LineOf(o, q)[1] = o
    BY <1>1, <2>1, LineOfIs
  <2> QED BY <1>5, <2>2
<1>7. 1 \in 1 .. Len(l)
  BY <1>6
<1>8. o.type # "sync" /\ o.ts \in Nat
  BY <1>1 DEF Order, HandIs, Objects
<1>9. LineInv(l, Out(c), eop[c], queuedTs[c])
  BY <1>3, <1>5 DEF LineOk
<1>10. o.ts <= queuedTs[c] /\ o.ts # 0
  BY <1>6, <1>7, <1>8, <1>9 DEF LineInv, Stamped
<1>11. \A t \in Out(c) : t < o.ts
  BY <1>6, <1>7, <1>9, <1>10 DEF LineInv, Sorted
<1>12. o.state # "expired" => eop[c] < o.ts
  BY <1>6, <1>7, <1>9, <1>10 DEF LineInv, Unretired
<1> QED
  BY <1>1, <1>2, <1>3, <1>8, <1>10, <1>11, <1>12

\* Timestamps are issued one after the other.
LEMMA StampsStep ==
    ASSUME Base, Order, Step, NEW x \in Ctx
    PROVE  /\ timestamp[x] <= timestamp'[x] /\ queuedTs[x] <= queuedTs'[x]
           /\ queuedTs'[x] <= timestamp'[x] /\ timestamp'[x] \in Nat /\ queuedTs'[x] \in Nat
<1>0. TypeOK /\ Control /\ CtxTypes
  BY TypesAre DEF Base
<1>1. timestamp[x] \in Nat /\ queuedTs[x] \in Nat /\ queuedTs[x] <= timestamp[x]
  BY <1>0 DEF CtxTypes, Order, Times
<1>2. ASSUME UNCHANGED <<timestamp, queuedTs>>
      PROVE  /\ timestamp[x] <= timestamp'[x] /\ queuedTs[x] <= queuedTs'[x]
             /\ queuedTs'[x] <= timestamp'[x] /\ timestamp'[x] \in Nat /\ queuedTs'[x] \in Nat
  BY <1>1, <1>2
<1>3. ASSUME NEW p \in Threads, SubmitOutcome(p), Fast(p)
      PROVE  /\ timestamp[x] <= timestamp'[x] /\ queuedTs[x] <= queuedTs'[x]
             /\ queuedTs'[x] <= timestamp'[x] /\ timestamp'[x] \in Nat /\ queuedTs'[x] \in Nat
  <2>1. queuedTs' = queuedTs /\ timestamp' = [timestamp EXCEPT ![CtxOf(p)] = timestamp[CtxOf(p)] + 1]
    BY <1>3 DEF Fast, FastMarker
  <2>2. timestamp'[x] = timestamp[x] \/ timestamp'[x] = timestamp[x] + 1
    BY <1>0, <2>1 DEF CtxTypes
  <2> QED BY <1>1, <2>1, <2>2
<1>4. ASSUME NEW p \in Threads, SubmitOutcome(p), NEW os, Enqueues(p, os)
      PROVE  /\ timestamp[x] <= timestamp'[x] /\ queuedTs[x] <= queuedTs'[x]
             /\ queuedTs'[x] <= timestamp'[x] /\ timestamp'[x] \in Nat /\ queuedTs'[x] \in Nat
  <2>1. CASE Stamp(CtxOf(p), os) = 0
    BY <1>2, <1>4, <2>1 DEF Enqueues
  <2>2. CASE Stamp(CtxOf(p), os) # 0
    <3>1. \/ timestamp'[x] = timestamp[x] /\ queuedTs'[x] = queuedTs[x]
          \/ timestamp'[x] = timestamp[x] + 1 /\ queuedTs'[x] = timestamp[x] + 1
      BY <1>0, <1>4, <2>2 DEF Enqueues, CtxTypes
    <3> QED BY <1>1, <3>1
  <2> QED BY <2>1, <2>2
<1>5. \/ UNCHANGED <<timestamp, queuedTs>>
      \/ \E p \in Threads : SubmitOutcome(p) /\ Fast(p)
      \/ \E p \in Threads : SubmitOutcome(p) /\ \E os : Enqueues(p, os)
  <2>1. Moves
    BY <1>0, MovesStep
  <2>2. CASE Calm
    BY <2>2 DEF Calm
  <2>3. CASE WalkOutcome \/ SendOutcome \/ RequeueOutcome \/ retire_cmd_list
    BY <2>3 DEF WalkOutcome, WalkRest, SendOutcome, SendRest, RequeueOutcome, retire_cmd_list, ctxVars
  <2>4. CASE FaultOutcome
    <3>1. \E cs, m : adreno_drawctxt_invalidate(cs, m)
      BY <2>4 DEF FaultOutcome
    <3> QED BY <3>1 DEF adreno_drawctxt_invalidate
  <2>5. ASSUME NEW c \in Ctx, \/ GpuRetire(c) \/ adreno_hwsched_queue_context(c) \/ drawctxt_detach_drawobjs(c)
                              \/ gen7_hwsched_context_detach(c) \/ UnregisterTimeout(c)
        PROVE  UNCHANGED <<timestamp, queuedTs>>
    BY <2>5 DEF GpuRetire, adreno_hwsched_queue_context, drawctxt_detach_drawobjs,
                gen7_hwsched_context_detach, UnregisterTimeout, adreno_drawctxt_invalidate, ctxVars
  <2> QED BY <2>1, <2>2, <2>3, <2>4, <2>5 DEF Moves
<1> QED
  BY <1>2, <1>3, <1>4, <1>5

\* cmd_list loses what is reaped and gets what is sent.
LEMMA OutStep ==
    ASSUME Base, Order, Step, NEW x \in Ctx
    PROVE  \/ Out(x)' \subseteq Out(x)
           \/ /\ SendOutcome /\ SendDone(disp.ctx, disp.obj) /\ x = disp.ctx
              /\ disp.obj.state # "expired" /\ Out(x)' = Out(x) \cup {disp.obj.ts}
<1>0. TypeOK /\ SchedTypes
  BY TypesAre DEF Base
<1>1. CASE cmdList' = cmdList
  BY <1>1 DEF Out
<1>2. CASE SendOutcome /\ SendDone(disp.ctx, disp.obj)
  BY <1>0, <1>2, SendIs, OutSubmit DEF SendDone
<1>3. CASE FaultOutcome
  BY <1>3, FaultIs DEF Order
<1>4. CASE retire_cmd_list
  <2>1. Reap({e \in ToSet(cmdList) : kgsl_check_timestamp(e.ctx, e.obj.ts)})
    BY <1>4 DEF retire_cmd_list
  <2> QED BY <1>0, <2>1, OutReap
<1>5. CASE Quiet
  BY <1>1, <1>5 DEF Quiet
<1>6. ASSUME NEW c \in Ctx, GpuStart(c) \/ GpuRetire(c) \/ adreno_hwsched_fault(c)
      PROVE  cmdList' = cmdList
  BY <1>6 DEF GpuStart, GpuRetire, adreno_hwsched_fault, schedVars
<1> QED
  BY <1>1, <1>2, <1>3, <1>4, <1>5, <1>6, QuietStep DEF Loud

\* Nothing retires that was not issued.
LEMMA TimesStep ==
    ASSUME Base, Order, Step
    PROVE  Times'
<1> SUFFICES ASSUME NEW x \in Ctx
             PROVE  /\ queuedTs'[x] <= timestamp'[x] /\ eop'[x] <= timestamp'[x]
                    /\ \A t \in Out(x)' : t <= queuedTs'[x]
  BY DEF Times
<1>0. CtxTypes /\ GpuTypes
  BY TypesAre DEF Base
<1>1. /\ timestamp[x] <= timestamp'[x] /\ queuedTs[x] <= queuedTs'[x]
      /\ queuedTs'[x] <= timestamp'[x] /\ timestamp'[x] \in Nat /\ queuedTs'[x] \in Nat
  BY StampsStep
<1>2. /\ timestamp[x] \in Nat /\ queuedTs[x] \in Nat /\ eop[x] \in Nat /\ eop[x] <= timestamp[x]
      /\ queuedTs[x] <= timestamp[x] /\ \A t \in Out(x) : t <= queuedTs[x] /\ t \in Nat
  BY <1>0 DEF CtxTypes, GpuTypes, Order, Times, Out
<1>3. \A t \in Out(x)' : t <= queuedTs'[x]
  <2>1. \A t \in Out(x) : t <= queuedTs'[x]
    BY <1>1, <1>2
  <2>2. CASE SendOutcome /\ SendDone(disp.ctx, disp.obj) /\ x = disp.ctx /\ Out(x)' = Out(x) \cup {disp.obj.ts}
    <3>1. disp.obj.ts \in Nat /\ disp.obj.ts <= queuedTs[x]
      BY <2>2, SendIs
    <3>2. disp.obj.ts <= queuedTs'[x]
      BY <1>1, <1>2, <3>1
    <3> QED BY <2>1, <2>2, <3>2
  <2> QED BY <2>1, <2>2, OutStep
<1>4. eop'[x] <= timestamp'[x]
  <2>1. CASE eop'[x] = eop[x] \/ eop'[x] = timestamp[x] \/ eop'[x] \in Out(x)
    BY <1>1, <1>2, <2>1
  <2>2. CASE Quiet
    <3>1. Kept(x) \/ Retired(x) \/ Ended(x)
      BY <2>2 DEF Quiet
    <3> QED BY <1>1, <2>1, <3>1 DEF Kept, Retired, Ended
  <2>3. CASE FaultOutcome
    <3>1. Spared(x) \/ Condemned(x) \/ Forced(x)
      BY <2>3, FaultIs DEF Order
    <3> QED BY <2>1, <3>1 DEF Spared, Condemned, Forced
  <2>4. CASE retire_cmd_list \/ SendOutcome
    <3>1. eop' = eop
      BY <2>4 DEF retire_cmd_list, SendOutcome, SendRest, gpuVars
    <3> QED BY <2>1, <3>1
  <2>5. ASSUME NEW c \in Ctx, GpuStart(c) \/ adreno_hwsched_fault(c) PROVE eop' = eop
    BY <2>5 DEF GpuStart, adreno_hwsched_fault, gpuVars
  <2>6. ASSUME NEW c \in Ctx, GpuRetire(c) PROVE eop'[x] = eop[x] \/ eop'[x] \in Out(x)
    <3>1. eop' = [eop EXCEPT ![c] = Head(gmu[c])] /\ gmu[c] # <<>>
      BY <2>6 DEF GpuRetire
    <3>2. Head(gmu[c]) \in Out(c)
      BY <1>0, <3>1, GmuHead DEF Order, GmuListed
    <3> QED BY <1>0, <3>1, <3>2 DEF GpuTypes
  <2> QED BY <2>1, <2>2, <2>3, <2>4, <2>5, <2>6, QuietStep DEF Loud
<1> QED
  BY <1>1, <1>3, <1>4

\* What the dispatcher has in its hands.
LEMMA HandIsStep ==
    ASSUME Base, HandIs, Step
    PROVE  HandIs'
<1>a. TypeOK /\ Control /\ CtxTypes /\ DispTypes /\ RestTypes /\ Marked /\ Drained
  BY TypesAre DEF Base
<1>b. /\ disp.pc \notin {"send", "back"} => disp.obj = None
      /\ NoDisp.obj = None /\ [NoDisp EXCEPT !.pc = "level"].obj = None
  BY <1>a DEF Control, ControlOf, NoDisp
<1>c. ASSUME UNCHANGED <<disp, bits>> PROVE HandIs'
  BY <1>c DEF HandIs
<1>d. ASSUME disp'.obj = None PROVE HandIs'
  BY <1>d DEF HandIs
<1>1. ASSUME NEW p \in Threads, SubmitOutcome(p)
      PROVE  HandIs'
  <2>1. UNCHANGED <<disp, bits>>
    BY <1>1 DEF SubmitOutcome, SubmitRest, Refused, Sleeps, Fast, FastMarker, Enqueues, ctxVars
  <2> QED BY <1>c, <2>1
<1>2. ASSUME NEW p \in Threads, kgsl_ioctl_gpu_aux_command(p)
      PROVE  HandIs'
  BY <1>2, <1>c DEF kgsl_ioctl_gpu_aux_command, ctxVars
<1>3. ASSUME NEW p \in Threads, _wait_for_room_in_context_queue(p)
      PROVE  HandIs'
  BY <1>3, <1>c DEF _wait_for_room_in_context_queue, ctxVars
<1>4. ASSUME NEW p \in Threads, WaitTimeout(p)
      PROVE  HandIs'
  BY <1>4, <1>c DEF WaitTimeout, ctxVars
<1>5. ASSUME NEW p \in Threads, QueueJob(p)
      PROVE  HandIs'
  BY <1>5, <1>c DEF QueueJob, ctxVars
<1>6. ASSUME NEW p \in Threads, adreno_hwsched_issuecmds(p)
      PROVE  HandIs'
  <2>1. bits' = bits /\ (disp' = disp \/ disp'.obj = None)
    BY <1>6, <1>b DEF adreno_hwsched_issuecmds, ctxVars
  <2> QED BY <1>c, <1>d, <2>1
<1>7. ASSUME NEW p \in Threads, IssuedByThread(p)
      PROVE  HandIs'
  <2>1. disp'.obj = None
    BY <1>7, <1>a, <1>b DEF IssuedByThread
  <2> QED BY <1>d, <2>1
<1>8. ASSUME hwsched_handle_jobs
      PROVE  HandIs'
  <2>1. disp'.obj = None
    BY <1>8, <1>a, <1>b, JobArrives DEF AtRest
  <2> QED BY <1>d, <2>1
<1>9. ASSUME hwsched_handle_jobs_list
      PROVE  HandIs'
  <2>1. disp'.obj = None
    BY <1>9, <1>a, <1>b, JobArrives DEF AtRest
  <2> QED BY <1>d, <2>1
<1>10. ASSUME WalkOutcome
       PROVE  HandIs'
  <2>1. disp'.ctx = disp.ctx /\ bits' = bits /\ disp.obj = None /\ disp.ctx \in Ctx
    BY <1>10, <1>a, <1>b, WalkDisp DEF SameJob, WalkOutcome
  <2>2. CASE disp'.obj = None
    BY <1>d, <2>2
  <2>3. CASE WalkSends(disp.ctx) \/ WalkExpires(disp.ctx)
    <3>1. PICK o : Pops(disp.ctx, o) /\ o.type \in {"cmd", "big", "marker"}
                   /\ (SendNext(o) \/ SendNext([o EXCEPT !.state = "expired"]))
      BY <2>3 DEF WalkSends, WalkExpires
    <3>2. queue[disp.ctx] # <<>> /\ o \in Objects
      BY <3>1 DEF Pops
    <3>3. [o EXCEPT !.state = "expired"].type = o.type
      BY <3>2 DEF Objects
    <3>4. disp'.obj.type = o.type
      BY <1>a, <3>1, <3>3 DEF SendNext, DispTypes, DispType
    <3>5. "INVALID" \notin bits[disp.ctx]
      BY <1>a, <2>1, <3>2 DEF Drained
    <3> QED BY <2>1, <3>1, <3>4, <3>5 DEF HandIs
  <2>4. CASE WalkEnds(disp.ctx) \/ WalkSyncs(disp.ctx) \/ WalkRetires(disp.ctx) \/ WalkBinds(disp.ctx)
    <3>1. disp'.obj = disp.obj
      BY <1>a, <2>4 DEF WalkEnds, WalkSyncs, WalkRetires, WalkBinds, Stop, DispTypes, DispType
    <3> QED BY <2>1, <2>2, <3>1
  <2> QED BY <1>10, <2>3, <2>4 DEF WalkOutcome
<1>11. ASSUME SendOutcome
       PROVE  HandIs'
  <2>1. /\ disp'.ctx = disp.ctx /\ bits' = bits
        /\ disp'.obj = None \/ disp'.obj = disp.obj
    BY <1>11, <1>a, SendDisp DEF SameJob
  <2> QED BY <2>1 DEF HandIs
<1>12. ASSUME RequeueOutcome
       PROVE  HandIs'
  <2>1. CASE PutsBack(disp.ctx)
    <3>1. disp'.obj = None
      BY <1>a, <2>1 DEF PutsBack, DispTypes, DispType
    <3> QED BY <1>d, <3>1
  <2>2. CASE Drops(disp.ctx)
    <3>1. disp'.obj = None
      BY <1>a, <2>2 DEF Drops, DispTypes, DispType
    <3> QED BY <1>d, <3>1
  <2> QED BY <1>12, <2>1, <2>2 DEF RequeueOutcome
<1>13. ASSUME SendcmdsDone
       PROVE  HandIs'
  <2>1. disp'.obj = None
    BY <1>13, <1>a, <1>b, JobDone DEF JobEnds
  <2> QED BY <1>d, <2>1
<1>14. ASSUME IssuedByWorker
       PROVE  HandIs'
  <2>1. disp'.obj = None
    BY <1>14, <1>a, <1>b DEF IssuedByWorker
  <2> QED BY <1>d, <2>1
<1>15. ASSUME retire_cmd_list
       PROVE  HandIs'
  <2>1. disp'.obj = None
    BY <1>15, <1>a, <1>b DEF retire_cmd_list
  <2> QED BY <1>d, <2>1
<1>16. ASSUME FaultOutcome
       PROVE  HandIs'
  <2>1. disp.pc = "off" /\ disp' = disp
    BY <1>16, <1>a DEF FaultOutcome, Control, ControlOf
  <2>2. disp'.obj = None
    BY <1>b, <2>1
  <2> QED BY <1>d, <2>2
<1>17. ASSUME TsRetire
       PROVE  HandIs'
  BY <1>17, <1>c DEF TsRetire, ctxVars
<1>18. ASSUME NEW c \in Ctx, GpuStart(c)
       PROVE  HandIs'
  BY <1>18, <1>c DEF GpuStart, ctxVars
<1>19. ASSUME NEW c \in Ctx, GpuRetire(c)
       PROVE  HandIs'
  BY <1>19, <1>c DEF GpuRetire, ctxVars
<1>20. ASSUME NEW c \in Ctx, adreno_hwsched_fault(c)
       PROVE  HandIs'
  BY <1>20, <1>c DEF adreno_hwsched_fault, ctxVars
<1>21. ASSUME NEW c \in Ctx, adreno_hwsched_queue_context(c)
       PROVE  HandIs'
  BY <1>21, <1>c DEF adreno_hwsched_queue_context, ctxVars
<1>22. ASSUME NEW c \in Ctx, kgsl_context_detach(c)
       PROVE  HandIs'
  <2>1. disp' = disp /\ bits' = [bits EXCEPT ![c] = @ \cup {"DETACHED"}]
    BY <1>22 DEF kgsl_context_detach
  <2>2. disp.obj # None => disp.ctx \in Ctx
    BY <1>a DEF DispTypes, DispType, Control, ControlOf
  <2> QED BY <1>a, <2>1, <2>2 DEF HandIs, CtxTypes
<1>23. ASSUME NEW c \in Ctx, drawctxt_detach_drawobjs(c)
       PROVE  HandIs'
  BY <1>23, <1>c DEF drawctxt_detach_drawobjs, ctxVars
<1>24. ASSUME NEW c \in Ctx, gen7_hwsched_context_detach(c)
       PROVE  HandIs'
  BY <1>24, <1>c DEF gen7_hwsched_context_detach, ctxVars
<1>25. ASSUME NEW c \in Ctx, UnregisterTimeout(c)
       PROVE  HandIs'
  <2>1. /\ disp' = disp /\ dpc[c] = "drained"
        /\ bits' = [x \in Ctx |-> IF x \in {c} THEN bits[x] \cup {"INVALID"} ELSE bits[x]]
    BY <1>25 DEF UnregisterTimeout, adreno_drawctxt_invalidate
  <2>2. disp.obj # None => disp.ctx \in Ctx
    BY <1>a DEF DispTypes, DispType, Control, ControlOf
  <2>3. "DETACHED" \in bits[c]
    BY <1>a, <2>1 DEF Marked
  <2> QED BY <2>1, <2>2, <2>3 DEF HandIs
<1>26. ASSUME IdleHalt
       PROVE  HandIs'
  BY <1>26, <1>c DEF IdleHalt, ctxVars
<1>27. ASSUME IdleFlush
       PROVE  HandIs'
  BY <1>27, <1>c DEF IdleFlush, ctxVars
<1>28. ASSUME IdleGate
       PROVE  HandIs'
  BY <1>28, <1>c DEF IdleGate, ctxVars
<1>29. ASSUME IdleUnhalt
       PROVE  HandIs'
  BY <1>29, <1>c DEF IdleUnhalt, ctxVars
<1>30. ASSUME IdleDone
       PROVE  HandIs'
  BY <1>30, <1>c DEF IdleDone, ctxVars
<1> QED
  BY <1>1, <1>2, <1>3, <1>4, <1>5, <1>6, <1>7, <1>8, <1>9, <1>10, <1>11, <1>12,
     <1>13, <1>14, <1>15, <1>16, <1>17, <1>18, <1>19, <1>20, <1>21, <1>22, <1>23, <1>24,
     <1>25, <1>26, <1>27, <1>28, <1>29, <1>30 DEF Step

\* One thread for each context.
LEMMA OneThread ==
    ASSUME Submitters = 1, NEW p \in Threads, NEW q \in Threads, CtxOf(p) = CtxOf(q)
    PROVE  p = q
<1>1. 1 .. Submitters = {1}
  OBVIOUS
<1>2. \E a \in Ctx : p = <<a, 1>>
  BY <1>1 DEF Threads
<1>3. \E a \in Ctx : q = <<a, 1>>
  BY <1>1 DEF Threads
<1> QED
  BY <1>2, <1>3 DEF CtxOf

\* What threads wait with: nobody else queues behind their backs.
LEMMA BatchesWaitStep ==
    ASSUME Submitters = 1, Base, BatchesWait, Step
    PROVE  BatchesWait'
<1>a. ThreadTypes /\ CtxTypes
  BY TypesAre DEF Base
<1>b. ASSUME UNCHANGED <<pc, batch, queuedTs>> PROVE BatchesWait'
  BY <1>b DEF BatchesWait, CtxOf
<1>c. ASSUME NEW p \in Threads, pc'[p] \notin {"queue", "sleep", "woken"}, NEW s, NEW b,
             pc' = [pc EXCEPT ![p] = s], batch' = [batch EXCEPT ![p] = b],
             \A q \in Threads : q # p => queuedTs'[CtxOf(q)] = queuedTs[CtxOf(q)]
      PROVE  BatchesWait'
  <2> SUFFICES ASSUME NEW q \in Threads, pc'[q] \in {"queue", "sleep", "woken"}
               PROVE  BatchWaits(batch'[q], queuedTs'[CtxOf(q)])
    BY DEF BatchesWait, CtxOf
  <2>1. q # p /\ pc'[q] = pc[q] /\ batch'[q] = batch[q]
    BY <1>a, <1>c DEF ThreadTypes
  <2> QED BY <1>c, <2>1 DEF BatchesWait
<1>d. ASSUME NEW p \in Threads, NEW s, NEW os, pc' = [pc EXCEPT ![p] = s],
             batch' = [batch EXCEPT ![p] = os], queuedTs' = queuedTs,
             BatchWaits(os, queuedTs[CtxOf(p)])
      PROVE  BatchesWait'
  <2> SUFFICES ASSUME NEW q \in Threads, pc'[q] \in {"queue", "sleep", "woken"}
               PROVE  BatchWaits(batch'[q], queuedTs'[CtxOf(q)])
    BY DEF BatchesWait, CtxOf
  <2>1. CASE q = p
    <3>1. batch'[q] = os
      BY <1>a, <1>d, <2>1 DEF ThreadTypes
    <3> QED BY <1>d, <2>1, <3>1
  <2>2. CASE q # p
    <3>1. pc'[q] = pc[q] /\ batch'[q] = batch[q]
      BY <1>a, <1>d, <2>2 DEF ThreadTypes
    <3> QED BY <1>d, <3>1 DEF BatchesWait
  <2> QED BY <2>1, <2>2
<1>1. ASSUME NEW p \in Threads, SubmitOutcome(p)
      PROVE  BatchesWait'
  <2>1. CASE Refused(p) \/ Fast(p)
    <3>1. /\ pc' = [pc EXCEPT ![p] = "idle"] /\ batch' = [batch EXCEPT ![p] = <<>>] /\ queuedTs' = queuedTs
      BY <2>1 DEF Refused, Fast, FastMarker, Return, ctxVars
    <3>2. pc'[p] = "idle"
      BY <1>a, <3>1 DEF ThreadTypes
    <3> QED BY <1>c, <3>1, <3>2
  <2>2. ASSUME NEW os, Offers(p, os), Sleeps(p, os)
        PROVE  BatchesWait'
    <3>1. /\ pc' = [pc EXCEPT ![p] = "sleep"] /\ batch' = [batch EXCEPT ![p] = os] /\ queuedTs' = queuedTs
      BY <2>2 DEF Sleeps, ctxVars
    <3>2. BatchWaits(os, queuedTs[CtxOf(p)])
      <4>1. CASE pc[p] \in {"queue", "woken"} /\ os = batch[p]
        BY <4>1 DEF BatchesWait
      <4>2. CASE ~Aux(os[Len(os)]) /\ \A i \in 1 .. Len(os) : os[i].mts = 0
        BY <4>2 DEF BatchWaits
      <4> QED BY <2>2, <4>1, <4>2 DEF Offers
    <3> QED BY <1>d, <3>1, <3>2
  <2>3. ASSUME NEW os, Enqueues(p, os)
        PROVE  BatchesWait'
    <3>1. pc' = [pc EXCEPT ![p] = "queued"] /\ batch' = [batch EXCEPT ![p] = <<>>]
      BY <2>3 DEF Enqueues
    <3>2. pc'[p] = "queued"
      BY <1>a, <3>1 DEF ThreadTypes
    <3>3. ASSUME NEW q \in Threads, q # p PROVE queuedTs'[CtxOf(q)] = queuedTs[CtxOf(q)]
      <4>1. CtxOf(q) # CtxOf(p)
        BY <3>3, OneThread
      <4>2. CtxOf(q) \in Ctx /\ CtxOf(p) \in Ctx
        BY DEF CtxOf, Threads
      <4>3. queuedTs' = queuedTs \/ queuedTs' = [queuedTs EXCEPT ![CtxOf(p)] = timestamp[CtxOf(p)] + 1]
        BY <2>3 DEF Enqueues
      <4> QED BY <1>a, <4>1, <4>2, <4>3 DEF CtxTypes
    <3> QED BY <1>c, <3>1, <3>2, <3>3
  <2> QED BY <1>1, <2>1, <2>2, <2>3 DEF SubmitOutcome
<1>2. ASSUME NEW p \in Threads, kgsl_ioctl_gpu_aux_command(p)
      PROVE  BatchesWait'
  <2>1. PICK b \in Batches :
            /\ IsAux(b)
            /\ batch' = [batch EXCEPT ![p] =
                 [i \in DOMAIN b |-> Obj(b[i], 0, IF b[i] = "sync" THEN queuedTs[CtxOf(p)] ELSE 0)]]
    BY <1>2 DEF kgsl_ioctl_gpu_aux_command
  <2>2. PICK os : os = [i \in DOMAIN b |-> Obj(b[i], 0, IF b[i] = "sync" THEN queuedTs[CtxOf(p)] ELSE 0)]
    OBVIOUS
  <2>3. /\ b \in Seq(Types) /\ Len(b) \in Nat /\ Len(b) > 1 /\ DOMAIN b = 1 .. Len(b)
        /\ \A i \in 1 .. Len(b) - 1 : b[i] = "sync"
    <3>1. b \in Seq(Types) /\ Len(b) > 1 /\ \A i \in 1 .. Len(b) - 1 : b[i] = "sync"
      BY <2>1, HwschedAssumption
    <3> QED BY <3>1
  <2>4. queuedTs[CtxOf(p)] \in Nat
    BY <1>a DEF CtxTypes, CtxOf, Threads
  <2>5. Len(os) = Len(b)
    BY <2>2, <2>3
  <2>6. ASSUME NEW i \in 1 .. Len(b)
        PROVE  os[i].type = b[i] /\ (b[i] = "sync" => os[i].mts = queuedTs[CtxOf(p)])
    <3>1. os[i] = Obj(b[i], 0, IF b[i] = "sync" THEN queuedTs[CtxOf(p)] ELSE 0)
      BY <2>2, <2>3
    <3> QED BY <3>1 DEF Obj
  <2>7. Len(b) - 1 \in 1 .. Len(b) - 1 /\ Len(b) - 1 \in 1 .. Len(b)
    BY <2>3
  <2>8. os[Len(b) - 1].mts = queuedTs[CtxOf(p)]
    BY <2>3, <2>6, <2>7
  <2>9. BatchWaits(os, queuedTs[CtxOf(p)])
    BY <2>4, <2>5, <2>6, <2>8 DEF BatchWaits
  <2>10. pc' = [pc EXCEPT ![p] = "queue"] /\ queuedTs' = queuedTs /\ batch' = [batch EXCEPT ![p] = os]
    BY <1>2, <2>1, <2>2 DEF kgsl_ioctl_gpu_aux_command, ctxVars
  <2> QED BY <1>d, <2>9, <2>10
<1>3. ASSUME NEW p \in Threads, _wait_for_room_in_context_queue(p)
      PROVE  BatchesWait'
  <2>1. pc[p] = "sleep" /\ batch' = batch /\ queuedTs' = queuedTs /\ \A q \in Threads : q # p => pc'[q] = pc[q]
    BY <1>3, <1>a DEF _wait_for_room_in_context_queue, ctxVars, ThreadTypes
  <2> QED BY <2>1 DEF BatchesWait, CtxOf
<1>4. ASSUME NEW p \in Threads, WaitTimeout(p)
      PROVE  BatchesWait'
  <2>1. queuedTs' = queuedTs /\ pc[p] = "sleep"
    BY <1>4 DEF WaitTimeout, ctxVars
  <2>2. CASE pc' = [pc EXCEPT ![p] = "woken"] /\ batch' = batch
    <3>1. \A q \in Threads : q # p => pc'[q] = pc[q]
      BY <1>a, <2>2 DEF ThreadTypes
    <3> QED BY <2>1, <2>2, <3>1 DEF BatchesWait, CtxOf
  <2>3. CASE Return(p)
    <3>1. pc' = [pc EXCEPT ![p] = "idle"] /\ batch' = [batch EXCEPT ![p] = <<>>]
      BY <2>3 DEF Return
    <3>2. pc'[p] = "idle"
      BY <1>a, <3>1 DEF ThreadTypes
    <3> QED BY <1>c, <2>1, <3>1, <3>2
  <2> QED BY <1>4, <2>2, <2>3 DEF WaitTimeout
<1>5. ASSUME NEW p \in Threads, QueueJob(p)
      PROVE  BatchesWait'
  <2>1. /\ pc[p] = "queued" /\ batch' = batch /\ queuedTs' = queuedTs
        /\ pc'[p] \notin {"queue", "sleep", "woken"} /\ \A q \in Threads : q # p => pc'[q] = pc[q]
    BY <1>5, <1>a DEF QueueJob, ctxVars, ThreadTypes
  <2> QED BY <2>1 DEF BatchesWait, CtxOf
<1>6. ASSUME NEW p \in Threads, adreno_hwsched_issuecmds(p)
      PROVE  BatchesWait'
  <2>1. /\ pc[p] = "issue" /\ batch' = batch /\ queuedTs' = queuedTs
        /\ pc'[p] \notin {"queue", "sleep", "woken"} /\ \A q \in Threads : q # p => pc'[q] = pc[q]
    BY <1>6, <1>a DEF adreno_hwsched_issuecmds, ctxVars, ThreadTypes
  <2> QED BY <2>1 DEF BatchesWait, CtxOf
<1>7. ASSUME NEW p \in Threads, IssuedByThread(p)
      PROVE  BatchesWait'
  <2>1. pc' = [pc EXCEPT ![p] = "idle"] /\ batch' = [batch EXCEPT ![p] = <<>>] /\ queuedTs' = queuedTs
    BY <1>7 DEF IssuedByThread, Return, ctxVars
  <2>2. pc'[p] = "idle"
    BY <1>a, <2>1 DEF ThreadTypes
  <2> QED BY <1>c, <2>1, <2>2
<1>8. ASSUME hwsched_handle_jobs
      PROVE  BatchesWait'
  BY <1>8, <1>b DEF hwsched_handle_jobs, ctxVars, threadVars, WalkRest, SendRest
<1>9. ASSUME hwsched_handle_jobs_list
      PROVE  BatchesWait'
  BY <1>9, <1>b DEF hwsched_handle_jobs_list, ctxVars, threadVars, WalkRest, SendRest
<1>10. ASSUME WalkOutcome
       PROVE  BatchesWait'
  BY <1>10, <1>b DEF WalkOutcome, ctxVars, threadVars, WalkRest, SendRest
<1>11. ASSUME SendOutcome
       PROVE  BatchesWait'
  BY <1>11, <1>b DEF SendOutcome, ctxVars, threadVars, WalkRest, SendRest
<1>12. ASSUME RequeueOutcome
       PROVE  BatchesWait'
  BY <1>12, <1>b DEF RequeueOutcome, ctxVars, threadVars, WalkRest, SendRest
<1>13. ASSUME SendcmdsDone
       PROVE  BatchesWait'
  BY <1>13, <1>b DEF SendcmdsDone, ctxVars, threadVars, WalkRest, SendRest
<1>14. ASSUME IssuedByWorker
       PROVE  BatchesWait'
  BY <1>14, <1>b DEF IssuedByWorker, ctxVars, threadVars, WalkRest, SendRest
<1>15. ASSUME retire_cmd_list
       PROVE  BatchesWait'
  BY <1>15, <1>b DEF retire_cmd_list, ctxVars, threadVars, WalkRest, SendRest
<1>16. ASSUME FaultOutcome
       PROVE  BatchesWait'
  <2>1. \E cs, m : adreno_drawctxt_invalidate(cs, m)
    BY <1>16 DEF FaultOutcome
  <2>2. UNCHANGED <<pc, batch, queuedTs>>
    BY <1>16, <2>1 DEF FaultOutcome, adreno_drawctxt_invalidate
  <2> QED BY <1>b, <2>2
<1>17. ASSUME TsRetire
       PROVE  BatchesWait'
  BY <1>17, <1>b DEF TsRetire, ctxVars, threadVars, WalkRest, SendRest
<1>18. ASSUME NEW c \in Ctx, GpuStart(c)
       PROVE  BatchesWait'
  BY <1>18, <1>b DEF GpuStart, ctxVars, threadVars, WalkRest, SendRest
<1>19. ASSUME NEW c \in Ctx, GpuRetire(c)
       PROVE  BatchesWait'
  BY <1>19, <1>b DEF GpuRetire, ctxVars, threadVars, WalkRest, SendRest
<1>20. ASSUME NEW c \in Ctx, adreno_hwsched_fault(c)
       PROVE  BatchesWait'
  BY <1>20, <1>b DEF adreno_hwsched_fault, ctxVars, threadVars, WalkRest, SendRest
<1>21. ASSUME NEW c \in Ctx, adreno_hwsched_queue_context(c)
       PROVE  BatchesWait'
  BY <1>21, <1>b DEF adreno_hwsched_queue_context, ctxVars, threadVars, WalkRest, SendRest
<1>22. ASSUME NEW c \in Ctx, kgsl_context_detach(c)
       PROVE  BatchesWait'
  BY <1>22, <1>b DEF kgsl_context_detach, ctxVars, threadVars, WalkRest, SendRest
<1>23. ASSUME NEW c \in Ctx, drawctxt_detach_drawobjs(c)
       PROVE  BatchesWait'
  BY <1>23, <1>b DEF drawctxt_detach_drawobjs, ctxVars, threadVars, WalkRest, SendRest
<1>24. ASSUME NEW c \in Ctx, gen7_hwsched_context_detach(c)
       PROVE  BatchesWait'
  BY <1>24, <1>b DEF gen7_hwsched_context_detach, ctxVars, threadVars, WalkRest, SendRest
<1>25. ASSUME NEW c \in Ctx, UnregisterTimeout(c)
       PROVE  BatchesWait'
  <2>1. UNCHANGED <<pc, batch, queuedTs>>
    BY <1>25 DEF UnregisterTimeout, adreno_drawctxt_invalidate
  <2> QED BY <1>b, <2>1
<1>26. ASSUME IdleHalt
       PROVE  BatchesWait'
  BY <1>26, <1>b DEF IdleHalt, ctxVars, threadVars, WalkRest, SendRest
<1>27. ASSUME IdleFlush
       PROVE  BatchesWait'
  BY <1>27, <1>b DEF IdleFlush, ctxVars, threadVars, WalkRest, SendRest
<1>28. ASSUME IdleGate
       PROVE  BatchesWait'
  BY <1>28, <1>b DEF IdleGate, ctxVars, threadVars, WalkRest, SendRest
<1>29. ASSUME IdleUnhalt
       PROVE  BatchesWait'
  BY <1>29, <1>b DEF IdleUnhalt, ctxVars, threadVars, WalkRest, SendRest
<1>30. ASSUME IdleDone
       PROVE  BatchesWait'
  BY <1>30, <1>b DEF IdleDone, ctxVars, threadVars, WalkRest, SendRest
<1> QED
  BY <1>1, <1>2, <1>3, <1>4, <1>5, <1>6, <1>7, <1>8, <1>9, <1>10, <1>11, <1>12,
     <1>13, <1>14, <1>15, <1>16, <1>17, <1>18, <1>19, <1>20, <1>21, <1>22, <1>23, <1>24,
     <1>25, <1>26, <1>27, <1>28, <1>29, <1>30 DEF Step

\* What is on cmd_list, what the GMU holds and what it has started.
Held == EntriesUp /\ GmuListed /\ GmuUp /\ GmuAhead /\ Started /\ Blamed

\* Steps that leave cmd_list and the GMU alone.
LEMMA QuietHolds ==
    ASSUME Base, Order, Step, Quiet
    PROVE  Held'
<1>0. TypeOK /\ RestTypes /\ GpuTypes
  BY TypesAre DEF Base
<1>1. /\ UNCHANGED <<cmdList, gmu, ctxtBad>> /\ (fault' = {} => fault = {})
      /\ \A x \in Ctx : bits[x] \subseteq bits'[x] /\ (Kept(x) \/ Retired(x) \/ Ended(x))
  BY DEF Quiet
<1>2. \A x : Out(x)' = Out(x)
  BY <1>1 DEF Out
<1>3. \A x \in Ctx : Live(x)' => Live(x)
  BY <1>0, LiveStep
<1>4. EntriesUp' /\ GmuListed' /\ GmuUp'
  BY <1>1, <1>2 DEF Order, EntriesUp, GmuListed, GmuUp
<1>5. GmuAhead'
  <2> SUFFICES ASSUME NEW x \in Ctx, fault' = {} \/ Live(x)', NEW i \in 1 .. Len(gmu'[x])
               PROVE  eop'[x] < gmu'[x][i]
    BY DEF GmuAhead
  <2>1. fault = {} \/ Live(x)
    BY <1>1, <1>3
  <2>2. eop[x] < gmu[x][i] /\ gmu[x][i] \in Out(x) /\ gmu[x][i] \in Nat /\ eop[x] \in Nat
    BY <1>0, <1>1, <2>1 DEF Order, GmuAhead, GmuListed, Out, GpuTypes
  <2>3. CASE Kept(x)
    BY <1>1, <2>2, <2>3 DEF Kept
  <2>4. ~Retired(x)
    BY <2>2 DEF Retired
  <2>5. ~Ended(x)
    <3>1. Ended(x) => gmu'[x] = <<>>
      BY DEF Ended
    <3> QED BY <3>1
  <2> QED BY <1>1, <2>3, <2>4, <2>5
<1>6. Started'
  <2> SUFFICES ASSUME NEW x \in Ctx, sop'[x] # eop'[x]
               PROVE  (eop'[x] < sop'[x] /\ sop'[x] \in Out(x)') \/ (bits'[x] # {} /\ Out(x)' = {})
    BY DEF Started
  <2>1. Kept(x)
    BY <1>1 DEF Retired, Ended
  <2>2. (eop[x] < sop[x] /\ sop[x] \in Out(x)) \/ (bits[x] # {} /\ Out(x) = {})
    BY <2>1 DEF Order, Started, Kept
  <2> QED BY <1>1, <1>2, <2>1, <2>2 DEF Kept
<1>7. Blamed'
  <2> SUFFICES ASSUME ctxtBad' # None
               PROVE  /\ fault' # {} /\ ctxtBad'[2] \in Out(ctxtBad[1])'
                      /\ Live(ctxtBad[1])' => eop'[ctxtBad[1]] < ctxtBad'[2]
    BY <1>1 DEF Blamed, Live, Out
  <2>1. PICK x \in Ctx, t \in Nat : ctxtBad = <<x, t>>
    BY <1>0, <1>1 DEF RestTypes
  <2>2. fault # {} /\ t \in Out(x) /\ (Live(x) => eop[x] < t)
    BY <1>1, <2>1 DEF Order, Blamed
  <2>3. ASSUME Live(x)' PROVE eop'[x] < t
    <3>1. Live(x) /\ eop[x] < t /\ eop[x] \in Nat
      BY <1>0, <1>3, <2>2, <2>3 DEF GpuTypes
    <3>2. ~Retired(x)
      BY <2>2, <3>1 DEF Retired
    <3>3. Kept(x)
      BY <1>1, <2>3, <3>2 DEF Ended
    <3> QED BY <3>1, <3>3 DEF Kept
  <2> QED BY <1>1, <1>2, <2>1, <2>2, <2>3
<1> QED
  BY <1>4, <1>5, <1>6, <1>7 DEF Held

\* The GPU starts a command.
LEMMA StartHolds ==
    ASSUME Base, Order, NEW c \in Ctx, GpuStart(c)
    PROVE  Held'
<1>0. GpuTypes
  BY TypesAre DEF Base
<1>1. /\ UNCHANGED <<cmdList, gmu, ctxtBad, fault, eop, bits, dpc>> /\ fault = {} /\ gmu[c] # <<>>
      /\ sop' = [sop EXCEPT ![c] = Head(gmu[c])]
  BY DEF GpuStart, ctxVars, schedVars, faultVars
<1>2. \A x : Out(x)' = Out(x) /\ (Live(x)' <=> Live(x))
  BY <1>1 DEF Out, Live
<1>3. EntriesUp' /\ GmuListed' /\ GmuUp' /\ GmuAhead'
  BY <1>1, <1>2 DEF Order, EntriesUp, GmuListed, GmuUp, GmuAhead
<1>4. Blamed'
  BY <1>1 DEF Order, Blamed
<1>5. Started'
  <2> SUFFICES ASSUME NEW x \in Ctx, sop'[x] # eop'[x]
               PROVE  (eop'[x] < sop'[x] /\ sop'[x] \in Out(x)') \/ (bits'[x] # {} /\ Out(x)' = {})
    BY DEF Started
  <2>1. CASE x # c
    <3>1. sop'[x] = sop[x]
      BY <1>0, <1>1, <2>1 DEF GpuTypes
    <3> QED BY <1>1, <1>2, <3>1 DEF Order, Started
  <2>2. CASE x = c
    <3>1. sop'[x] = gmu[x][1] /\ 1 \in 1 .. Len(gmu[x])
      BY <1>0, <1>1, <2>2, GmuHead DEF GpuTypes
    <3>2. gmu[x][1] \in Out(x) /\ eop[x] < gmu[x][1]
      BY <1>1, <3>1 DEF Order, GmuListed, GmuAhead
    <3> QED BY <1>1, <1>2, <3>1, <3>2
  <2> QED BY <2>1, <2>2
<1> QED
  BY <1>3, <1>4, <1>5 DEF Held

\* The GPU finishes a command.
LEMMA RetireHolds ==
    ASSUME Base, Order, NEW c \in Ctx, GpuRetire(c)
    PROVE  Held'
<1>0. GpuTypes
  BY TypesAre DEF Base
<1>1. /\ UNCHANGED <<cmdList, ctxtBad, fault, sop, bits, dpc>> /\ fault = {} /\ gmu[c] # <<>>
      /\ sop[c] = Head(gmu[c]) /\ eop' = [eop EXCEPT ![c] = Head(gmu[c])]
      /\ gmu' = [gmu EXCEPT ![c] = Tail(gmu[c])]
  BY DEF GpuRetire, ctxVars, schedVars, faultVars
<1>2. \A x : Out(x)' = Out(x)
  BY <1>1 DEF Out
<1>3. /\ Head(gmu[c]) = gmu[c][1] /\ 1 \in 1 .. Len(gmu[c]) /\ Len(gmu[c]) \in Nat
      /\ Len(gmu'[c]) = Len(gmu[c]) - 1
      /\ \A i \in 1 .. Len(gmu'[c]) : gmu'[c][i] = gmu[c][i + 1] /\ i + 1 \in 1 .. Len(gmu[c])
  <2>1. gmu'[c] = Tail(gmu[c])
    BY <1>0, <1>1 DEF GpuTypes
  <2> QED BY <1>0, <1>1, <2>1, GmuHead
<1>4. ASSUME NEW x \in Ctx, x # c PROVE gmu'[x] = gmu[x] /\ eop'[x] = eop[x]
  BY <1>0, <1>1, <1>4 DEF GpuTypes
<1>5. EntriesUp'
  BY <1>1 DEF Order, EntriesUp
<1>6. GmuListed'
  <2> SUFFICES ASSUME NEW x \in Ctx, NEW i \in 1 .. Len(gmu'[x]) PROVE gmu'[x][i] \in Out(x)
    BY <1>2 DEF GmuListed
  <2> QED BY <1>3, <1>4 DEF Order, GmuListed
<1>7. GmuUp'
  <2> SUFFICES ASSUME NEW x \in Ctx, NEW i \in 1 .. Len(gmu'[x]), NEW j \in 1 .. Len(gmu'[x]), i < j
               PROVE  gmu'[x][i] < gmu'[x][j]
    BY DEF GmuUp
  <2>1. CASE x # c
    BY <1>4, <2>1 DEF Order, GmuUp
  <2>2. CASE x = c
    <3>1. i + 1 < j + 1
      OBVIOUS
    <3> QED BY <1>3, <2>2, <3>1 DEF Order, GmuUp
  <2> QED BY <2>1, <2>2
<1>8. GmuAhead'
  <2> SUFFICES ASSUME NEW x \in Ctx, NEW i \in 1 .. Len(gmu'[x])
               PROVE  eop'[x] < gmu'[x][i]
    BY DEF GmuAhead
  <2>1. CASE x # c
    BY <1>1, <1>4, <2>1 DEF Order, GmuAhead
  <2>2. CASE x = c
    <3>1. 1 < i + 1 /\ eop'[x] = gmu[c][1]
      BY <1>0, <1>1, <1>3, <2>2 DEF GpuTypes
    <3> QED BY <1>3, <2>2, <3>1 DEF Order, GmuUp
  <2> QED BY <2>1, <2>2
<1>9. Started'
  <2> SUFFICES ASSUME NEW x \in Ctx, sop'[x] # eop'[x]
               PROVE  (eop'[x] < sop'[x] /\ sop'[x] \in Out(x)') \/ (bits'[x] # {} /\ Out(x)' = {})
    BY DEF Started
  <2>1. x # c
    BY <1>0, <1>1 DEF GpuTypes
  <2> QED BY <1>1, <1>2, <1>4, <2>1 DEF Order, Started
<1>10. Blamed'
  BY <1>1 DEF Order, Blamed
<1> QED
  BY <1>5, <1>6, <1>7, <1>8, <1>9, <1>10 DEF Held

\* The GMU blames a command.
LEMMA BlameHolds ==
    ASSUME Base, Order, NEW c \in Ctx, adreno_hwsched_fault(c)
    PROVE  Held'
<1>0. GpuTypes
  BY TypesAre DEF Base
<1>1. /\ UNCHANGED <<cmdList, gmu, eop, sop, bits, dpc>> /\ fault = {} /\ fault' # {} /\ gmu[c] # <<>>
      /\ ctxtBad' \in {ctxtBad, <<c, Head(gmu[c])>>}
  BY DEF adreno_hwsched_fault, ctxVars, schedVars, gpuVars
<1>2. \A x : Out(x)' = Out(x) /\ (Live(x)' <=> Live(x))
  BY <1>1 DEF Out, Live
<1>3. EntriesUp' /\ GmuListed' /\ GmuUp' /\ GmuAhead'
  BY <1>1, <1>2 DEF Order, EntriesUp, GmuListed, GmuUp, GmuAhead
<1>4. Started'
  BY <1>1, <1>2 DEF Order, Started
<1>5. Blamed'
  <2>1. CASE ctxtBad' = ctxtBad
    BY <1>1, <2>1 DEF Order, Blamed
  <2>2. CASE ctxtBad' = <<c, Head(gmu[c])>>
    <3>1. Head(gmu[c]) \in Out(c) /\ eop[c] < Head(gmu[c])
      BY <1>0, <1>1, GmuHead DEF Order, GmuListed, GmuAhead
    <3>2. ctxtBad'[1] = c /\ ctxtBad'[2] = Head(gmu[c])
      BY <2>2
    <3>3. Head(gmu[c]) \in Out(c)'
      BY <1>2, <3>1
    <3> QED BY <1>1, <1>2, <3>1, <3>2, <3>3 DEF Blamed, Out
  <2> QED BY <1>1, <2>1, <2>2
<1> QED
  BY <1>3, <1>4, <1>5 DEF Held

\* Reaping keeps the order of cmd_list.
LEMMA ReapUp ==
    ASSUME SchedTypes, EntriesUp, NEW done, Reap(done)
    PROVE  EntriesUp'
<1> SUFFICES ASSUME NEW k \in 1 .. Len(cmdList'), NEW l \in 1 .. Len(cmdList'), k < l,
                    cmdList'[k].ctx = cmdList'[l].ctx
             PROVE  cmdList'[k].obj.ts < cmdList'[l].obj.ts
  BY DEF EntriesUp
<1>1. PICK i, j \in 1 .. Len(cmdList) : i < j /\ cmdList'[k] = cmdList[i] /\ cmdList'[l] = cmdList[j]
  BY ReapIs
<1> QED
  BY <1>1 DEF EntriesUp

\* The worker reaps what has retired.
LEMMA ReapHolds ==
    ASSUME Base, Order, retire_cmd_list
    PROVE  Held'
<1>0. GpuTypes /\ SchedTypes
  BY TypesAre DEF Base
<1>1. UNCHANGED <<gmu, ctxtBad, fault, eop, sop, bits, dpc>> /\ fault = {}
  BY DEF retire_cmd_list, ctxVars, gpuVars, faultVars
<1>2. PICK done : done = {e \in ToSet(cmdList) : kgsl_check_timestamp(e.ctx, e.obj.ts)} /\ Reap(done)
  BY DEF retire_cmd_list
<1>3. ASSUME NEW x \in Ctx
      PROVE  /\ Out(x)' \subseteq Out(x)
             /\ \A t \in Out(x) : eop[x] < t => t \in Out(x)'
  <2>1. /\ Out(x)' \subseteq Out(x)
        /\ \A t \in Out(x) : t \in Out(x)' \/ \E e \in done : e.ctx = x /\ e.obj.ts = t
    BY <1>0, <1>2, OutReap
  <2>2. ASSUME NEW t \in Out(x), eop[x] < t, t \notin Out(x)' PROVE FALSE
    <3>1. eop[x] >= t
      BY <1>2, <2>1, <2>2 DEF kgsl_check_timestamp
    <3>2. t \in Nat /\ eop[x] \in Nat
      BY <1>0 DEF Out, GpuTypes
    <3> QED BY <2>2, <3>1, <3>2
  <2> QED BY <2>1, <2>2
<1>4. EntriesUp'
  BY <1>0, <1>2, ReapUp DEF Order
<1>5. GmuListed'
  <2> SUFFICES ASSUME NEW x \in Ctx, NEW i \in 1 .. Len(gmu[x]) PROVE gmu[x][i] \in Out(x)'
    BY <1>1 DEF GmuListed
  <2>1. gmu[x][i] \in Out(x) /\ eop[x] < gmu[x][i]
    BY <1>1 DEF Order, GmuListed, GmuAhead
  <2> QED BY <1>3, <2>1
<1>6. GmuUp' /\ GmuAhead' /\ Blamed'
  BY <1>1 DEF Order, GmuUp, GmuAhead, Blamed, Live
<1>7. Started'
  <2> SUFFICES ASSUME NEW x \in Ctx, sop[x] # eop[x]
               PROVE  (eop[x] < sop[x] /\ sop[x] \in Out(x)') \/ (bits[x] # {} /\ Out(x)' = {})
    BY <1>1 DEF Started
  <2>1. (eop[x] < sop[x] /\ sop[x] \in Out(x)) \/ (bits[x] # {} /\ Out(x) = {})
    BY DEF Order, Started
  <2> QED BY <1>3, <2>1
<1> QED
  BY <1>4, <1>5, <1>6, <1>7 DEF Held

\* A command is sent.
LEMMA SendHolds ==
    ASSUME Base, Order, Step, SendOutcome, SendDone(disp.ctx, disp.obj)
    PROVE  Held'
<1>0. GpuTypes /\ SchedTypes
  BY TypesAre DEF Base
<1>1. PICK c \in Ctx, o \in Objects :
        /\ c = disp.ctx /\ o = disp.obj /\ bits[c] = {} /\ o.ts \in Nat /\ Submit(c, o)
        /\ \A t \in Out(c) : t < o.ts
        /\ o.state # "expired" => eop[c] < o.ts
  BY SendIs DEF SendDone
<1>2. UNCHANGED <<ctxtBad, fault, eop, sop, bits, dpc>> /\ fault = {}
  BY DEF SendOutcome, SendRest, SendDone, ctxVars
<1>3. \A x : Live(x)' <=> Live(x)
  BY <1>2 DEF Live
<1>a. Blamed'
  BY <1>2 DEF Order, Blamed
<1>4. CASE o.state = "expired"
  <2>1. UNCHANGED <<cmdList, gmu>>
    BY <1>1, <1>4 DEF Submit
  <2>2. \A x : Out(x)' = Out(x)
    BY <2>1 DEF Out
  <2>3. EntriesUp' /\ GmuListed' /\ GmuUp' /\ GmuAhead'
    BY <1>2, <1>3, <2>1, <2>2 DEF Order, EntriesUp, GmuListed, GmuUp, GmuAhead
  <2>4. Started'
    BY <1>2, <2>2 DEF Order, Started
  <2> QED BY <1>a, <2>3, <2>4 DEF Held
<1>5. CASE o.state # "expired"
  <2>1. \A x \in Ctx : /\ x = c => Out(x)' = Out(x) \cup {o.ts}
                       /\ x # c => Out(x)' = Out(x)
    BY <1>0, <1>1, <1>5, OutSubmit
  <2>2. PICK s \in Seq(Entries) : s = cmdList
    BY <1>0 DEF SchedTypes
  <2>3. PICK e \in Entries : e = [ctx |-> c, obj |-> o]
    BY DEF Entries
  <2>4. e.ctx = c /\ e.obj.ts = o.ts
    BY <2>3
  <2>5. cmdList' = Append(s, e)
    BY <1>1, <1>5, <2>2, <2>3 DEF Submit
  <2>6. /\ Len(cmdList') = Len(s) + 1 /\ Len(s) \in Nat /\ cmdList'[Len(s) + 1] = e
        /\ \A k \in 1 .. Len(s) : cmdList'[k] = s[k]
    BY <2>5
  <2>7. EntriesUp'
    <3> SUFFICES ASSUME NEW i \in 1 .. Len(cmdList'), NEW j \in 1 .. Len(cmdList'), i < j,
                        cmdList'[i].ctx = cmdList'[j].ctx
                 PROVE  cmdList'[i].obj.ts < cmdList'[j].obj.ts
      BY DEF EntriesUp
    <3>1. i \in 1 .. Len(s) /\ (j \in 1 .. Len(s) \/ j = Len(s) + 1)
      BY <2>6
    <3>2. CASE j \in 1 .. Len(s)
      BY <2>2, <2>6, <3>1, <3>2 DEF Order, EntriesUp
    <3>3. CASE j = Len(s) + 1
      <4>1. s[i].ctx = c /\ cmdList'[i] = s[i] /\ s[i] \in Entries
        BY <2>4, <2>6, <3>1, <3>3
      <4>2. s[i].obj.ts \in Nat
        BY <4>1 DEF Entries, Objects
      <4>3. s[i].obj.ts \in Out(c)
        BY <2>2, <3>1, <4>1, <4>2 DEF Out
      <4> QED BY <1>1, <2>4, <2>6, <3>3, <4>1, <4>3
    <3> QED BY <3>1, <3>2, <3>3
  <2>8. PICK g \in Seq(Nat) : g = gmu[c]
    BY <1>0 DEF GpuTypes
  <2>9. gmu'[c] = Append(g, o.ts) /\ \A x \in Ctx : x # c => gmu'[x] = gmu[x]
    BY <1>0, <1>1, <1>5, <2>8 DEF Submit, GpuTypes
  <2>10. /\ Len(gmu'[c]) = Len(g) + 1 /\ Len(g) \in Nat /\ gmu'[c][Len(g) + 1] = o.ts
         /\ \A k \in 1 .. Len(g) : gmu'[c][k] = g[k]
    BY <1>1, <2>9
  <2>11. \A i \in 1 .. Len(gmu'[c]) : i \in 1 .. Len(g) \/ i = Len(g) + 1
    BY <2>10
  <2>12. \A i \in 1 .. Len(g) : g[i] \in Out(c)
    BY <2>8 DEF Order, GmuListed
  <2>13. GmuListed'
    <3> SUFFICES ASSUME NEW x \in Ctx, NEW i \in 1 .. Len(gmu'[x]) PROVE gmu'[x][i] \in Out(x)'
      BY DEF GmuListed
    <3>1. CASE x # c
      BY <2>1, <2>9, <3>1 DEF Order, GmuListed
    <3>2. CASE x = c
      BY <2>1, <2>10, <2>11, <2>12, <3>2
    <3> QED BY <3>1, <3>2
  <2>14. GmuUp'
    <3> SUFFICES ASSUME NEW x \in Ctx, NEW i \in 1 .. Len(gmu'[x]), NEW j \in 1 .. Len(gmu'[x]), i < j
                 PROVE  gmu'[x][i] < gmu'[x][j]
      BY DEF GmuUp
    <3>1. CASE x # c
      BY <2>9, <3>1 DEF Order, GmuUp
    <3>2. CASE x = c
      <4>1. i \in 1 .. Len(g) /\ (j \in 1 .. Len(g) \/ j = Len(g) + 1)
        BY <2>10, <3>2
      <4>2. CASE j \in 1 .. Len(g)
        BY <2>8, <2>10, <3>2, <4>1, <4>2 DEF Order, GmuUp
      <4>3. CASE j = Len(g) + 1
        BY <1>1, <2>10, <2>12, <3>2, <4>1, <4>3
      <4> QED BY <4>1, <4>2, <4>3
    <3> QED BY <3>1, <3>2
  <2>15. GmuAhead'
    <3> SUFFICES ASSUME NEW x \in Ctx, NEW i \in 1 .. Len(gmu'[x]) PROVE eop[x] < gmu'[x][i]
      BY <1>2 DEF GmuAhead
    <3>1. CASE x # c
      BY <1>2, <2>9, <3>1 DEF Order, GmuAhead
    <3>2. CASE x = c
      <4>1. \A k \in 1 .. Len(g) : eop[c] < g[k]
        BY <1>2, <2>8 DEF Order, GmuAhead
      <4> QED BY <1>1, <1>5, <2>10, <2>11, <3>2, <4>1
    <3> QED BY <3>1, <3>2
  <2>16. Started'
    <3> SUFFICES ASSUME NEW x \in Ctx, sop[x] # eop[x]
                 PROVE  (eop[x] < sop[x] /\ sop[x] \in Out(x)') \/ (bits[x] # {} /\ Out(x)' = {})
      BY <1>2 DEF Started
    <3>1. (eop[x] < sop[x] /\ sop[x] \in Out(x)) \/ (bits[x] # {} /\ Out(x) = {})
      BY DEF Order, Started
    <3> QED BY <1>1, <2>1, <3>1
  <2> QED BY <1>a, <2>7, <2>13, <2>14, <2>15, <2>16 DEF Held
<1> QED
  BY <1>4, <1>5

\* What is submitted again after a fault.
LEMMA ReplayIs ==
    ASSUME SchedTypes, EntriesUp, adreno_hwsched_replay, NEW x \in Ctx
    PROVE  /\ \A i \in 1 .. Len(gmu'[x]) : gmu'[x][i] \in Out(x)'
           /\ \A i, j \in 1 .. Len(gmu'[x]) : i < j => gmu'[x][i] < gmu'[x][j]
<1>1. PICK done : Reap(done)
  BY DEF adreno_hwsched_replay
<1>2. EntriesUp' /\ cmdList' \in Seq(Entries)
  BY <1>1, ReapUp, ReapIs
<1>3. CASE gmu' = [c \in Ctx |-> <<>>]
  BY <1>3
<1>4. CASE gmu' = [c \in Ctx |->
                [i \in DOMAIN Only(cmdList', {e \in ToSet(cmdList') : e.ctx = c})
                    |-> Only(cmdList', {e \in ToSet(cmdList') : e.ctx = c})[i].obj.ts]]
  <2>1. PICK t \in Seq(Entries) : t = cmdList'
    BY <1>2
  <2>2. PICK S : S = {e \in ToSet(t) : e.ctx = x}
    OBVIOUS
  <2>3. Filtered(Only(t, S), t, S) /\ Only(t, S) \in Seq(Entries)
    BY OnlyKeeps
  <2>4. PICK u \in Seq(Entries) : u = Only(t, S)
    BY <2>3
  <2>a. Filtered(u, t, S)
    BY <2>3, <2>4
  <2>b. \A k \in 1 .. Len(u) : u[k] \in S /\ \E i \in 1 .. Len(t) : u[k] = t[i]
    BY <2>a DEF Filtered
  <2>c. \A k, l \in 1 .. Len(u) : k < l => \E i, j \in 1 .. Len(t) : i < j /\ u[k] = t[i] /\ u[l] = t[j]
    BY <2>a DEF Filtered
  <2>5. /\ \A k \in 1 .. Len(u) : u[k] \in S /\ \E i \in 1 .. Len(t) : u[k] = t[i]
        /\ \A k, l \in 1 .. Len(u) : k < l => \E i, j \in 1 .. Len(t) : i < j /\ u[k] = t[i] /\ u[l] = t[j]
    BY <2>b, <2>c
  <2>6. gmu'[x] = [i \in DOMAIN u |-> u[i].obj.ts]
    BY <1>4, <2>1, <2>2, <2>4
  <2>7. Len(gmu'[x]) = Len(u) /\ \A i \in 1 .. Len(u) : gmu'[x][i] = u[i].obj.ts
    <3>1. DOMAIN u = 1 .. Len(u) /\ Len(u) \in Nat
      OBVIOUS
    <3> QED BY <2>6, <3>1
  <2>8. ASSUME NEW k \in 1 .. Len(u) PROVE u[k].obj.ts \in Out(x)' /\ u[k].ctx = x
    <3>1. u[k].ctx = x
      BY <2>2, <2>5
    <3>2. u[k] \in Entries
      OBVIOUS
    <3>3. u[k].obj.ts \in Nat
      BY <3>2 DEF Entries, Objects
    <3>4. PICK i \in 1 .. Len(t) : u[k] = t[i]
      BY <2>5
    <3> QED BY <2>1, <3>1, <3>3, <3>4 DEF Out
  <2>9. ASSUME NEW k \in 1 .. Len(u), NEW l \in 1 .. Len(u), k < l PROVE u[k].obj.ts < u[l].obj.ts
    <3>1. PICK i, j \in 1 .. Len(t) : i < j /\ u[k] = t[i] /\ u[l] = t[j]
      BY <2>5, <2>9
    <3>2. t[i].ctx = t[j].ctx
      BY <2>8, <3>1
    <3> QED BY <1>2, <2>1, <3>1, <3>2 DEF EntriesUp
  <2> QED BY <2>7, <2>8, <2>9
<1> QED
  BY <1>3, <1>4 DEF adreno_hwsched_replay

\* The recovery from a fault.
LEMMA FaultHolds ==
    ASSUME Base, Order, FaultOutcome
    PROVE  Held'
<1>0. SchedTypes /\ GpuTypes /\ Gate /\ RestTypes
  BY TypesAre DEF Base
<1>1. EntriesUp /\ Started /\ Blamed /\ adreno_hwsched_replay
  BY DEF Order, FaultOutcome
<1>2. ASSUME NEW x \in Ctx
      PROVE  /\ Out(x)' \subseteq Out(x)
             /\ \A t \in Out(x) : t \in Out(x)' \/ t <= eop'[x] \/ bits'[x] # {}
             /\ \A t \in Out(x)' : eop'[x] < t /\ bits'[x] = {}
             /\ Spared(x) \/ Condemned(x) \/ Forced(x)
  BY <1>1, FaultIs
<1>3. EntriesUp'
  <2>1. PICK done : Reap(done)
    BY <1>1 DEF adreno_hwsched_replay
  <2> QED BY <1>0, <1>1, <2>1, ReapUp
<1>4. GmuListed' /\ GmuUp'
  BY <1>0, <1>1, ReplayIs DEF GmuListed, GmuUp
<1>5. GmuAhead'
  <2> SUFFICES ASSUME NEW x \in Ctx, NEW i \in 1 .. Len(gmu'[x]) PROVE eop'[x] < gmu'[x][i]
    BY DEF GmuAhead
  <2>1. gmu'[x][i] \in Out(x)'
    BY <1>4 DEF GmuListed
  <2> QED BY <1>2, <2>1
<1>6. Started'
  <2> SUFFICES ASSUME NEW x \in Ctx, sop'[x] # eop'[x]
               PROVE  (eop'[x] < sop'[x] /\ sop'[x] \in Out(x)') \/ (bits'[x] # {} /\ Out(x)' = {})
    BY DEF Started
  <2>1. Spared(x)
    BY <1>2 DEF Condemned, Forced
  <2>2. (eop[x] < sop[x] /\ sop[x] \in Out(x)) \/ (bits[x] # {} /\ Out(x) = {})
    BY <1>1, <2>1 DEF Started, Spared
  <2>3. CASE bits'[x] # {}
    BY <1>2, <2>3
  <2>4. CASE bits'[x] = {}
    <3>1. eop[x] < sop[x] /\ sop[x] \in Out(x)
      BY <2>1, <2>2, <2>4 DEF Spared
    <3>2. ~(sop[x] <= eop[x])
      BY <1>0, <3>1 DEF GpuTypes
    <3> QED BY <1>2, <2>1, <2>4, <3>1, <3>2 DEF Spared
  <2> QED BY <2>3, <2>4
<1>7. Blamed'
  <2>1. ctxtBad' = None
    <3>1. CASE ctxtBad # None
      <4>1. PICK x \in Ctx, t \in Nat : ctxtBad = <<x, t>>
        BY <1>0, <3>1 DEF RestTypes
      <4>2. t \in Out(x)
        BY <1>1, <3>1, <4>1 DEF Blamed
      <4>3. Len(cmdList) \in Nat /\ Len(cmdList) >= 1 /\ inflight \in Nat
        BY <1>0, <4>2 DEF Out, SchedTypes
      <4>4. power
        BY <1>0, <4>3 DEF Gate
      <4> QED BY <4>4 DEF FaultOutcome
    <3>2. CASE ctxtBad = None
      BY <3>2 DEF FaultOutcome
    <3> QED BY <3>1, <3>2
  <2> QED BY <2>1 DEF Blamed
<1> QED
  BY <1>3, <1>4, <1>5, <1>6, <1>7 DEF Held


-----------------------------------------------------------------------------
(***************************************************************************)
(* The order is an invariant.                                              *)
(***************************************************************************)
\* Every step keeps cmd_list and the GMU in order.
LEMMA HeldStep ==
    ASSUME Base, Order, Step
    PROVE  Held'
<1>1. CASE Quiet
  BY <1>1, QuietHolds
<1>2. CASE Loud
  <2>1. CASE FaultOutcome
    BY <2>1, FaultHolds
  <2>2. CASE retire_cmd_list
    BY <2>2, ReapHolds
  <2>3. CASE SendOutcome /\ SendDone(disp.ctx, disp.obj)
    BY <2>3, SendHolds
  <2>4. ASSUME NEW c \in Ctx, GpuStart(c) PROVE Held'
    BY <2>4, StartHolds
  <2>5. ASSUME NEW c \in Ctx, GpuRetire(c) PROVE Held'
    BY <2>5, RetireHolds
  <2>6. ASSUME NEW c \in Ctx, adreno_hwsched_fault(c) PROVE Held'
    BY <2>6, BlameHolds
  <2> QED BY <1>2, <2>1, <2>2, <2>3, <2>4, <2>5, <2>6 DEF Loud
<1> QED
  BY <1>1, <1>2, QuietStep

\* Everything is in order at the start ...
LEMMA OrderInit ==
    ASSUME Init
    PROVE  Order
<1> USE DEF Init
<1>1. \A c \in Ctx : Out(c) = {}
  BY DEF Out
<1>2. Times
  BY <1>1 DEF Times
<1>3. HandIs /\ BatchesWait
  BY DEF HandIs, BatchesWait, NoDisp
<1>4. EntriesUp /\ GmuListed /\ GmuUp /\ GmuAhead
  BY DEF EntriesUp, GmuListed, GmuUp, GmuAhead
<1>5. Started /\ Blamed
  BY DEF Started, Blamed
<1>6. Lines
  <2> SUFFICES ASSUME NEW c \in Ctx PROVE LineOk(c)
    BY DEF Lines
  <2>1. Line(c) = <<>>
    BY DEF Line, LineOf, Hand, NoDisp
  <2>2. \A j \in 1 .. Len(Line(c)) : FALSE
    BY <2>1
  <2> QED
    BY <2>2 DEF LineOk, LineInv, Stamped, Sorted, Unretired, MarkersWait, SyncsWait, SyncsSignal, AuxWaits
<1> QED
  BY <1>2, <1>3, <1>4, <1>5, <1>6 DEF Order

\* ... every step keeps it in order when one thread submits to each context ...
LEMMA OrderStep ==
    ASSUME Submitters = 1, Base, Room, Order, Step
    PROVE  Order'
<1>1. HandIs /\ BatchesWait
  BY DEF Order
<1>2. Times' /\ Lines'
  BY TimesStep, LinesStep
<1>3. HandIs' /\ BatchesWait'
  BY <1>1, HandIsStep, BatchesWaitStep
<1>4. Held'
  BY HeldStep
<1> QED
  BY <1>2, <1>3, <1>4 DEF Order, Held

\* ... and so does a step that changes nothing.
LEMMA OrderStutter ==
    ASSUME Order, UNCHANGED vars
    PROVE  Order'
<1>0. UNCHANGED <<queue, queuedTs, timestamp, bits, sop, eop, disp, cmdList, gmu, fault, ctxtBad, pc, batch, dpc>>
  BY DEF vars, ctxVars, listVars, schedVars, gpuVars, faultVars, threadVars, boundVars
<1>1. \A c : Out(c)' = Out(c) /\ Line(c)' = Line(c) /\ (Live(c)' <=> Live(c))
  BY <1>0 DEF Out, Line, Live
<1>2. Times'
  BY <1>0, <1>1 DEF Order, Times
<1>3. Lines'
  BY <1>0, <1>1 DEF Order, Lines, LineOk
<1>4. HandIs' /\ BatchesWait' /\ EntriesUp'
  BY <1>0 DEF Order, HandIs, BatchesWait, EntriesUp
<1>5. GmuListed' /\ GmuUp' /\ GmuAhead'
  BY <1>0, <1>1 DEF Order, GmuListed, GmuUp, GmuAhead
<1>6. Started' /\ Blamed'
  BY <1>0, <1>1 DEF Order, Started, Blamed
<1> QED
  BY <1>2, <1>3, <1>4, <1>5, <1>6 DEF Order

\* When one thread submits to each context, the lines, cmd_list, the GMU and the
\* memstore are in order, through hwsched_sendcmds, the retirement, faults and
\* the detach.
THEOREM HwschedOrder ==
    ASSUME Submitters = 1
    PROVE  Spec => [](Base /\ Room /\ Order)
<1>1. Init => Base /\ Room /\ Order
  BY BaseInit, RoomInit, OrderInit
<1>2. Base /\ Room /\ Order /\ [Next]_vars => Base' /\ Room' /\ Order'
  <2> SUFFICES ASSUME Base, Room, Order, [Next]_vars PROVE Base' /\ Room' /\ Order'
    OBVIOUS
  <2>1. CASE Next
    <3>1. Step
      BY <2>1, NextIsStep DEF Base
    <3> QED BY <3>1, BaseStep, RoomStep, OrderStep
  <2>2. CASE UNCHANGED vars
    BY <2>2, BaseStutter, RoomStutter, OrderStutter
  <2> QED BY <2>1, <2>2
<1> QED
  BY <1>1, <1>2, PTL DEF Spec

\* A sequence that goes up from above n, and a line behind it.
LEMMA PendingUp ==
    ASSUME NEW g \in Seq(Nat), NEW l \in Seq(Objects), NEW S \in SUBSET Nat, NEW e \in Nat,
           \A i \in 1 .. Len(g) : g[i] \in S /\ e < g[i],
           \A i, j \in 1 .. Len(g) : i < j => g[i] < g[j],
           Sorted(l, S), Unretired(l, e),
           NEW u, u = g \o [k \in DOMAIN l |-> IF l[k].state = "expired" THEN 0 ELSE l[k].ts],
           NEW i \in DOMAIN u, u[i] # 0
    PROVE  u[i] > e /\ \A j \in 1 .. i - 1 : u[j] < u[i]
<1>1. /\ Len(l) \in Nat /\ Len(g) \in Nat /\ DOMAIN l = 1 .. Len(l)
      /\ \A k \in 1 .. Len(l) : l[k].ts \in Nat
  <2>1. Len(l) \in Nat /\ \A k \in 1 .. Len(l) : l[k].ts \in Nat
    BY LineObjects
  <2>2. Len(g) \in Nat /\ DOMAIN l = 1 .. Len(l)
    OBVIOUS
  <2> QED BY <2>1, <2>2
<1>2. PICK h : h = [k \in DOMAIN l |-> IF l[k].state = "expired" THEN 0 ELSE l[k].ts]
  OBVIOUS
<1>3. h \in Seq(Nat) /\ Len(h) = Len(l)
  <2>1. h \in [1 .. Len(l) -> Nat]
    BY <1>1, <1>2
  <2>2. PICK n \in Nat : n = Len(l)
    BY <1>1
  <2>3. h \in [1 .. n -> Nat]
    BY <2>1, <2>2
  <2>4. h \in Seq(Nat) /\ Len(h) = n
    BY <2>3
  <2> QED BY <2>2, <2>4
<1>4. \A k \in 1 .. Len(l) : h[k] = IF l[k].state = "expired" THEN 0 ELSE l[k].ts
  BY <1>1, <1>2
<1>5. u = g \o h
  BY <1>2
<1>6. /\ DOMAIN u = 1 .. Len(g) + Len(h)
      /\ \A k \in 1 .. Len(g) + Len(h) : u[k] = IF k <= Len(g) THEN g[k] ELSE h[k - Len(g)]
  <2>1. PICK v \in Seq(Nat) : v = h
    BY <1>3
  <2>2. Len(g \o v) = Len(g) + Len(v) /\ g \o v \in Seq(Nat)
    OBVIOUS
  <2>3. DOMAIN (g \o v) = 1 .. Len(g) + Len(v)
    BY <2>2
  <2>4. \A k \in 1 .. Len(g) + Len(v) : (g \o v)[k] = IF k <= Len(g) THEN g[k] ELSE v[k - Len(g)]
    OBVIOUS
  <2> QED BY <1>5, <2>1, <2>3, <2>4
<1>7. i \in 1 .. Len(g) + Len(l) /\ i \in Nat
  <2>1. i \in 1 .. Len(g) + Len(l)
    BY <1>3, <1>6
  <2> QED BY <1>1, <2>1
<1>8. CASE i <= Len(g)
  <2>1. i \in 1 .. Len(g) /\ u[i] = g[i]
    BY <1>1, <1>3, <1>6, <1>7, <1>8
  <2>2. ASSUME NEW j \in 1 .. i - 1 PROVE u[j] < u[i]
    <3>1. j \in 1 .. Len(g) /\ j < i /\ j \in 1 .. Len(g) + Len(h) /\ j <= Len(g)
      BY <1>1, <1>3, <1>7, <1>8
    <3>2. u[j] = g[j]
      BY <1>6, <3>1
    <3> QED BY <2>1, <3>1, <3>2
  <2> QED BY <2>1, <2>2
<1>9. CASE ~(i <= Len(g))
  <2>1. PICK k \in 1 .. Len(l) : k = i - Len(g)
    BY <1>1, <1>7, <1>9
  <2>2. u[i] = h[k]
    <3>1. i \in 1 .. Len(g) + Len(h) /\ ~(i <= Len(g))
      BY <1>1, <1>3, <1>7, <1>9
    <3> QED BY <1>6, <2>1, <3>1
  <2>3. l[k].state # "expired" /\ u[i] = l[k].ts /\ l[k].ts # 0
    BY <1>4, <2>2
  <2>4. e < l[k].ts
    BY <2>3 DEF Unretired
  <2>5. (\A t \in S : t < l[k].ts) /\ \A m \in 1 .. k - 1 : l[m].ts < l[k].ts
    BY <2>3 DEF Sorted
  <2>6. ASSUME NEW j \in 1 .. i - 1 PROVE u[j] < u[i]
    <3>a. PICK n \in Nat, a \in Nat, b \in Nat : n = i /\ a = Len(g) /\ b = Len(l)
      BY <1>1, <1>7
    <3>b. n \in 1 .. a + b /\ j \in 1 .. n - 1
      BY <1>7, <3>a
    <3>c. j \in 1 .. a + b /\ j \in Nat /\ j < n
      BY <3>b
    <3>1. j \in 1 .. Len(g) + Len(h) /\ j \in Nat /\ j < i
      BY <1>3, <3>a, <3>c
    <3>2. CASE j <= Len(g)
      <4>1. j \in 1 .. Len(g) /\ u[j] = g[j]
        BY <1>1, <1>6, <3>1, <3>2
      <4> QED BY <2>3, <2>5, <4>1
    <3>3. CASE ~(j <= Len(g))
      <4>a. ~(j <= a) /\ k = n - a
        BY <2>1, <3>3, <3>a
      <4>c. j - a \in 1 .. k - 1
        BY <3>c, <4>a
      <4>1. PICK m \in 1 .. k - 1 : m = j - Len(g)
        BY <3>a, <4>c
      <4>2. m \in 1 .. Len(l)
        BY <1>1, <2>1, <4>1
      <4>b. u[j] = h[m]
        BY <1>6, <3>1, <3>3, <4>1
      <4>3. u[j] = 0 \/ u[j] = l[m].ts
        BY <1>4, <4>2, <4>b
      <4>4. l[m].ts < l[k].ts /\ 0 < l[k].ts
        BY <1>1, <2>3, <2>5
      <4> QED BY <2>3, <4>3, <4>4
    <3> QED BY <1>1, <3>1, <3>2, <3>3
  <2> QED BY <2>3, <2>4, <2>6, <1>1
<1> QED
  BY <1>8, <1>9

\* Time is linear, when one thread submits to each context: commands go to the
\* GMU in the order of their timestamps, through every pop, requeue, retirement
\* on the CPU and replay, and a timestamp retires after all the ones before it.
THEOREM HwschedInOrder ==
    ASSUME Submitters = 1
    PROVE  Spec => []InOrder
<1>1. Base /\ Order => InOrder
  <2> SUFFICES ASSUME Base, Order, NEW c \in Ctx, Good(c), NEW i \in DOMAIN Pending(c), Pending(c)[i] # 0
               PROVE  /\ Pending(c)[i] > eop[c]
                      /\ \A j \in 1 .. i - 1 : Pending(c)[j] < Pending(c)[i]
    BY DEF InOrder
  <2>0. GpuTypes /\ CtxTypes /\ DispTypes
    BY TypesAre DEF Base
  <2>1. bits[c] = {}
    BY DEF Good, kgsl_context_is_bad
  <2>2. Live(c)
    BY <2>1, GoodLive
  <2>3. PICK l \in Seq(Objects) : l = Line(c)
    BY <2>0, LinesTyped DEF LineTyped
  <2>4. PICK g \in Seq(Nat) : g = gmu[c]
    BY <2>0 DEF GpuTypes
  <2>5. PICK S \in SUBSET Nat : S = Out(c)
    BY DEF Out
  <2>6. PICK e \in Nat : e = eop[c]
    BY <2>0 DEF GpuTypes
  <2>7. Sorted(l, S) /\ Unretired(l, e)
    BY <2>2, <2>3, <2>5, <2>6 DEF Order, Lines, LineOk, LineInv
  <2>8. \A k \in 1 .. Len(g) : g[k] \in S /\ e < g[k]
    BY <2>2, <2>4, <2>5, <2>6 DEF Order, GmuListed, GmuAhead
  <2>9. \A k, m \in 1 .. Len(g) : k < m => g[k] < g[m]
    BY <2>4 DEF Order, GmuUp
  <2>10. (IF disp.ctx = c /\ disp.obj # None THEN <<disp.obj>> ELSE <<>>) \o queue[c] = l
    <3>1. queue[c] \in Seq(Objects) /\ Hand(disp, c) \in Objects \cup {None}
      BY <2>0, LinesTyped DEF LineTyped
    <3>2. CASE disp.ctx = c /\ disp.obj # None
      BY <2>3, <3>2 DEF Line, LineOf, Hand
    <3>3. CASE ~(disp.ctx = c /\ disp.obj # None)
      <4>1. l = queue[c]
        BY <2>3, <3>3 DEF Line, LineOf, Hand
      <4>2. <<>> \o queue[c] = queue[c]
        BY <3>1
      <4> QED BY <3>3, <4>1, <4>2
    <3> QED BY <3>2, <3>3
  <2>11. Pending(c) = g \o [k \in DOMAIN l |-> IF l[k].state = "expired" THEN 0 ELSE l[k].ts]
    BY <2>4, <2>10 DEF Pending
  <2>12. PICK u : u = Pending(c)
    OBVIOUS
  <2>13. u[i] > e /\ \A j \in 1 .. i - 1 : u[j] < u[i]
    BY <2>7, <2>8, <2>9, <2>11, <2>12, PendingUp
  <2> QED BY <2>6, <2>12, <2>13
<1> QED
  BY <1>1, HwschedOrder, PTL

\* While the GMU holds a command the scheduler holds an active count and the idle
\* gate is shut, and when the gate has let adreno_hwsched_idle pass the GMU holds
\* nothing until it returns.
THEOREM HwschedIdleIsIdle ==
    ASSUME Submitters = 1
    PROVE  Spec => []IdleIsIdle
<1>1. Base /\ Order => IdleIsIdle
  <2> SUFFICES ASSUME Base, Order PROVE IdleIsIdle
    OBVIOUS
  <2>0. GpuTypes /\ SchedTypes /\ Gate
    BY TypesAre DEF Base
  <2>1. ASSUME NEW c \in Ctx, gmu[c] # <<>> PROVE inflight > 0
    <3>1. PICK g \in Seq(Nat) : g = gmu[c]
      BY <2>0 DEF GpuTypes
    <3>2. 1 \in 1 .. Len(g)
      BY <2>1, <3>1
    <3>3. g[1] \in Out(c)
      BY <3>1, <3>2 DEF Order, GmuListed
    <3>4. Len(cmdList) \in Nat /\ Len(cmdList) >= 1 /\ inflight \in Nat
      BY <2>0, <3>3 DEF Out, SchedTypes
    <3> QED BY <2>0, <3>4 DEF Gate
  <2>2. ipc = "idle" => inflight = 0
    BY <2>0 DEF Gate
  <2>3. inflight > 0 => power /\ active
    BY <2>0 DEF Gate
  <2> QED BY <2>1, <2>2, <2>3 DEF IdleIsIdle
<1> QED
  BY <1>1, HwschedOrder, PTL

-----------------------------------------------------------------------------
(***************************************************************************)
(* What is listed is what the GMU holds, when hardware fences are off.     *)
(***************************************************************************)
\* The GMU holds what is listed and has not retired, unless a fault is pending
\* or the context has been invalidated.
GmuAll ==
    fault = {} => \A c \in Ctx : "INVALID" \notin bits[c] =>
        \A t \in Out(c) : eop[c] < t => \E i \in 1 .. Len(gmu[c]) : gmu[c][i] = t

\* hwsched->big_cmdobj is the big command of the list ...
BigIs ==
    /\ \A i \in 1 .. Len(cmdList) : cmdList[i].obj.type = "big" =>
        bigObj = <<cmdList[i].ctx, cmdList[i].obj.ts>>
    /\ bigObj # None => \E i \in 1 .. Len(cmdList) :
        cmdList[i].obj.type = "big" /\ bigObj = <<cmdList[i].ctx, cmdList[i].obj.ts>>

\* ... and the dispatcher takes another one only when there is none.
BigHand == disp.obj # None /\ disp.obj.type = "big" => bigObj = None

\* What the GMU holds and its big command.
Listing == GmuAll /\ BigIs /\ BigHand

\* Every step leaves what is listed to the GMU.
LEMMA GmuAllStep ==
    ASSUME NoHwFence, Base, Order, Times', GmuAll, Step
    PROVE  GmuAll'
<1>0. GpuTypes /\ SchedTypes /\ CtxTypes /\ RestTypes
  BY TypesAre DEF Base
<1>1. CASE Quiet
  <2> SUFFICES ASSUME fault' = {}, NEW x \in Ctx, "INVALID" \notin bits'[x],
                      NEW t \in Out(x)', eop'[x] < t
               PROVE  \E i \in 1 .. Len(gmu'[x]) : gmu'[x][i] = t
    BY DEF GmuAll
  <2>1. UNCHANGED <<cmdList, gmu>> /\ fault = {} /\ "INVALID" \notin bits[x]
    BY <1>1 DEF Quiet
  <2>2. t \in Out(x)
    BY <2>1 DEF Out
  <2>3. t \in Nat /\ eop[x] \in Nat /\ timestamp'[x] \in Nat
    <3>1. CtxTypes'
      BY CtxTypesStep DEF Base
    <3> QED BY <1>0, <2>2, <3>1 DEF Out, GpuTypes, CtxTypes
  <2>4. eop[x] < t
    <3>1. CASE Kept(x)
      BY <3>1 DEF Kept
    <3>2. CASE Retired(x)
      <4>1. t <= eop[x] /\ eop[x] <= eop'[x]
        BY <2>2, <3>2 DEF Retired
      <4>2. eop'[x] \in Nat
        <5>1. GpuTypes'
          BY GpuTypesStep DEF Base
        <5> QED BY <5>1 DEF GpuTypes
      <4> QED BY <2>3, <4>1, <4>2
    <3>3. CASE Ended(x)
      <4>1. eop'[x] = timestamp'[x] /\ t <= queuedTs'[x] /\ queuedTs'[x] <= timestamp'[x]
        BY <3>3 DEF Ended, Times
      <4>2. queuedTs'[x] \in Nat
        <5>1. CtxTypes'
          BY CtxTypesStep DEF Base
        <5> QED BY <5>1 DEF CtxTypes
      <4> QED BY <2>3, <4>1, <4>2
    <3> QED BY <1>1, <3>1, <3>2, <3>3 DEF Quiet
  <2> QED BY <2>1, <2>2, <2>4 DEF GmuAll
<1>2. CASE FaultOutcome
  <2> SUFFICES ASSUME fault' = {}, NEW x \in Ctx, NEW t \in Out(x)'
               PROVE  \E i \in 1 .. Len(gmu'[x]) : gmu'[x][i] = t
    BY DEF GmuAll
  <2>1. PICK u \in Seq(Entries) : u = cmdList'
    <3>1. SchedTypes'
      BY SchedTypesStep DEF Base
    <3> QED BY <3>1 DEF SchedTypes
  <2>2. PICK S : S = {e \in ToSet(u) : e.ctx = x}
    OBVIOUS
  <2>3. Filtered(Only(u, S), u, S) /\ Only(u, S) \in Seq(Entries)
    BY OnlyKeeps
  <2>4. PICK v \in Seq(Entries) : v = Only(u, S)
    BY <2>3
  <2>5. gmu' = [c \in Ctx |->
                [i \in DOMAIN Only(cmdList', {e \in ToSet(cmdList') : e.ctx = c})
                    |-> Only(cmdList', {e \in ToSet(cmdList') : e.ctx = c})[i].obj.ts]]
    BY <1>2 DEF FaultOutcome, adreno_hwsched_replay
  <2>6. gmu'[x] = [i \in DOMAIN v |-> v[i].obj.ts]
    BY <2>1, <2>2, <2>4, <2>5
  <2>7. Len(gmu'[x]) = Len(v) /\ \A i \in 1 .. Len(v) : gmu'[x][i] = v[i].obj.ts
    <3>1. DOMAIN v = 1 .. Len(v) /\ Len(v) \in Nat
      OBVIOUS
    <3> QED BY <2>6, <3>1
  <2>8. PICK k \in 1 .. Len(u) : u[k].ctx = x /\ u[k].obj.ts = t
    BY <2>1 DEF Out
  <2>9. u[k] \in S
    BY <2>2, <2>8 DEF ToSet
  <2>10. Filtered(v, u, S)
    BY <2>3, <2>4
  <2>11. PICK i \in 1 .. Len(v) : v[i] = u[k]
    BY <2>9, <2>10 DEF Filtered
  <2> QED BY <2>7, <2>8, <2>11
<1>3. CASE retire_cmd_list
  <2>1. UNCHANGED <<gmu, fault, eop, bits>>
    BY <1>3 DEF retire_cmd_list, ctxVars, gpuVars, faultVars
  <2>2. PICK done : Reap(done)
    BY <1>3 DEF retire_cmd_list
  <2>3. \A x \in Ctx : Out(x)' \subseteq Out(x)
    BY <1>0, <2>2, OutReap
  <2> QED BY <2>1, <2>3 DEF GmuAll
<1>4. CASE SendOutcome /\ SendDone(disp.ctx, disp.obj)
  <2>1. PICK c \in Ctx, o \in Objects : c = disp.ctx /\ o = disp.obj /\ Submit(c, o)
    BY <1>4 DEF SendOutcome, SendDone
  <2>2. o.state # "expired" /\ o.ts \in Nat
    BY <2>1, Nones DEF NoHwFence, Base, NoExpired, Objects
  <2>3. UNCHANGED <<fault, eop, bits>>
    BY <1>4 DEF SendOutcome, SendRest, SendDone, ctxVars
  <2>4. \A x \in Ctx : /\ x = c => Out(x)' = Out(x) \cup {o.ts}
                       /\ x # c => Out(x)' = Out(x)
    BY <1>0, <2>1, <2>2, OutSubmit
  <2>5. PICK g \in Seq(Nat) : g = gmu[c]
    BY <1>0 DEF GpuTypes
  <2>6. gmu'[c] = Append(g, o.ts) /\ \A x \in Ctx : x # c => gmu'[x] = gmu[x]
    BY <1>0, <2>1, <2>2, <2>5 DEF Submit, GpuTypes
  <2>7. /\ Len(gmu'[c]) = Len(g) + 1 /\ Len(g) \in Nat /\ gmu'[c][Len(g) + 1] = o.ts
        /\ \A k \in 1 .. Len(g) : gmu'[c][k] = g[k]
    BY <2>2, <2>6
  <2>8. Len(g) + 1 \in 1 .. Len(gmu'[c]) /\ \A k \in 1 .. Len(g) : k \in 1 .. Len(gmu'[c])
    BY <2>7
  <2> SUFFICES ASSUME fault = {}, NEW x \in Ctx, "INVALID" \notin bits[x],
                      NEW t \in Out(x)', eop[x] < t
               PROVE  \E i \in 1 .. Len(gmu'[x]) : gmu'[x][i] = t
    BY <2>3 DEF GmuAll
  <2>9. CASE x # c
    BY <2>4, <2>6, <2>9 DEF GmuAll
  <2>10. CASE x = c /\ t = o.ts
    BY <2>7, <2>8, <2>10
  <2>11. CASE x = c /\ t # o.ts
    <3>1. PICK i \in 1 .. Len(g) : g[i] = t
      BY <2>4, <2>5, <2>11 DEF GmuAll
    <3> QED BY <2>7, <2>8, <2>11, <3>1
  <2> QED BY <2>9, <2>10, <2>11
<1>5. ASSUME NEW c \in Ctx, GpuStart(c) PROVE GmuAll'
  <2>1. UNCHANGED <<gmu, fault, eop, bits, cmdList>>
    BY <1>5 DEF GpuStart, ctxVars, gpuVars, faultVars, schedVars
  <2>2. \A x : Out(x)' = Out(x)
    BY <2>1 DEF Out
  <2> QED BY <2>1, <2>2 DEF GmuAll
<1>6. ASSUME NEW c \in Ctx, GpuRetire(c) PROVE GmuAll'
  <2>1. /\ UNCHANGED <<cmdList, fault, bits>> /\ fault = {} /\ gmu[c] # <<>>
        /\ eop' = [eop EXCEPT ![c] = Head(gmu[c])] /\ gmu' = [gmu EXCEPT ![c] = Tail(gmu[c])]
    BY <1>6 DEF GpuRetire, ctxVars, schedVars, faultVars
  <2>2. \A x : Out(x)' = Out(x)
    BY <2>1 DEF Out
  <2>3. PICK g \in Seq(Nat) : g = gmu[c] /\ g # <<>>
    BY <1>0, <2>1 DEF GpuTypes
  <2>4. /\ eop'[c] = g[1] /\ gmu'[c] = Tail(g)
        /\ \A x \in Ctx : x # c => eop'[x] = eop[x] /\ gmu'[x] = gmu[x]
    BY <1>0, <2>1, <2>3 DEF GpuTypes
  <2>5. Len(g) \in Nat /\ Len(g) >= 1 /\ Len(Tail(g)) = Len(g) - 1
    BY <2>3
  <2>6. \A i \in 1 .. Len(g) - 1 : Tail(g)[i] = g[i + 1]
    BY <2>3
  <2> SUFFICES ASSUME NEW x \in Ctx, "INVALID" \notin bits[x], NEW t \in Out(x), eop'[x] < t
               PROVE  \E i \in 1 .. Len(gmu'[x]) : gmu'[x][i] = t
    BY <2>1, <2>2 DEF GmuAll
  <2>7. CASE x # c
    BY <2>1, <2>4, <2>7 DEF GmuAll
  <2>8. CASE x = c
    <3>1. t \in Nat /\ eop[c] \in Nat /\ g[1] \in Nat /\ 1 \in 1 .. Len(g)
      BY <1>0, <2>3, <2>5 DEF Out, GpuTypes
    <3>2. eop[c] < g[1]
      BY <2>1, <2>3, <3>1 DEF Order, GmuAhead
    <3>3. eop[c] < t /\ g[1] # t
      BY <2>4, <2>8, <3>1, <3>2
    <3>4. PICK i \in 1 .. Len(g) : g[i] = t
      BY <2>1, <2>3, <2>8, <3>3 DEF GmuAll
    <3>5. i - 1 \in 1 .. Len(g) - 1 /\ (i - 1) + 1 = i
      BY <2>5, <3>3, <3>4
    <3>6. Tail(g)[i - 1] = t
      BY <2>6, <3>4, <3>5
    <3> QED BY <2>4, <2>5, <2>8, <3>5, <3>6
  <2> QED BY <2>7, <2>8
<1>7. ASSUME NEW c \in Ctx, adreno_hwsched_fault(c) PROVE GmuAll'
  <2>1. fault' # {}
    BY <1>7 DEF adreno_hwsched_fault
  <2> QED BY <2>1 DEF GmuAll
<1> QED
  BY <1>1, <1>2, <1>3, <1>4, <1>5, <1>6, <1>7, QuietStep DEF Loud

\* Reaping the big command clears hwsched->big_cmdobj, nothing else does.
LEMMA BigReap ==
    ASSUME SchedTypes, EntriesUp, BigIs, NEW done \in SUBSET ToSet(cmdList), Reap(done)
    PROVE  BigIs' /\ bigObj' \in {bigObj, None}
<1>1. /\ \A k \in 1 .. Len(cmdList') :
            cmdList'[k] \notin done /\ \E i \in 1 .. Len(cmdList) : cmdList'[k] = cmdList[i]
      /\ \A i \in 1 .. Len(cmdList) :
            cmdList[i] \notin done => \E k \in 1 .. Len(cmdList') : cmdList'[k] = cmdList[i]
      /\ bigObj' \in {bigObj, None}
  BY ReapIs
<1>2. bigObj' = IF \E e \in done : bigObj = <<e.ctx, e.obj.ts>> THEN None ELSE bigObj
  BY DEF Reap
<1>3. ASSUME NEW k \in 1 .. Len(cmdList'), cmdList'[k].obj.type = "big"
      PROVE  bigObj' = <<cmdList'[k].ctx, cmdList'[k].obj.ts>>
  <2>1. PICK i \in 1 .. Len(cmdList) : cmdList'[k] = cmdList[i] /\ cmdList[i] \notin done
    BY <1>1
  <2>2. bigObj = <<cmdList[i].ctx, cmdList[i].obj.ts>>
    BY <1>3, <2>1 DEF BigIs
  <2>3. ~\E e \in done : bigObj = <<e.ctx, e.obj.ts>>
    <3> SUFFICES ASSUME NEW e \in done, bigObj = <<e.ctx, e.obj.ts>> PROVE FALSE
      OBVIOUS
    <3>0. PICK s \in Seq(Entries) : s = cmdList
      BY DEF SchedTypes
    <3>1. PICK j \in 1 .. Len(s) : e = s[j]
      BY <3>0 DEF ToSet
    <3>2. s[j].ctx = s[i].ctx /\ s[j].obj.ts = s[i].obj.ts
      BY <2>2, <3>0, <3>1
    <3>3. s[i] \in Entries
      BY <3>0
    <3>4. s[i].obj.ts \in Nat
      BY <3>3 DEF Entries, Objects
    <3>5. ~(i < j) /\ ~(j < i)
      BY <3>0, <3>2, <3>4 DEF EntriesUp
    <3>6. i = j
      BY <3>0, <3>5
    <3> QED BY <2>1, <3>0, <3>1, <3>6
  <2> QED BY <1>2, <2>1, <2>2, <2>3
<1>4. ASSUME bigObj' # None
      PROVE  \E k \in 1 .. Len(cmdList') :
                cmdList'[k].obj.type = "big" /\ bigObj' = <<cmdList'[k].ctx, cmdList'[k].obj.ts>>
  <2>1. bigObj' = bigObj /\ ~\E e \in done : bigObj = <<e.ctx, e.obj.ts>>
    BY <1>2, <1>4
  <2>2. PICK i \in 1 .. Len(cmdList) :
            cmdList[i].obj.type = "big" /\ bigObj = <<cmdList[i].ctx, cmdList[i].obj.ts>>
    BY <1>4, <2>1 DEF BigIs
  <2>3. cmdList[i] \notin done
    BY <2>1, <2>2
  <2> QED BY <1>1, <2>1, <2>2, <2>3
<1> QED
  BY <1>1, <1>3, <1>4 DEF BigIs

\* Every step keeps to one big command.
LEMMA BigStep ==
    ASSUME NoHwFence, Base, Order, BigIs, BigHand, Step
    PROVE  BigIs' /\ BigHand'
<1>0. TypeOK /\ Control /\ SchedTypes /\ EntriesUp
  BY TypesAre DEF Base, Order
<1>a. ASSUME UNCHANGED <<cmdList, bigObj>>, disp' = disp \/ disp'.obj = None
      PROVE  BigIs' /\ BigHand'
  BY <1>a DEF BigIs, BigHand
<1>b. ASSUME NEW done \in SUBSET ToSet(cmdList), Reap(done), disp' = disp \/ disp'.obj = None
      PROVE  BigIs' /\ BigHand'
  <2>1. BigIs' /\ bigObj' \in {bigObj, None}
    BY <1>0, <1>b, BigReap
  <2> QED BY <1>b, <2>1 DEF BigHand
<1>1. CASE Calm
  BY <1>1, <1>a DEF Calm
<1>2. ASSUME NEW p \in Threads, SubmitOutcome(p) PROVE BigIs' /\ BigHand'
  <2>1. UNCHANGED <<cmdList, bigObj, disp>>
    BY <1>2 DEF SubmitOutcome, SubmitRest, schedVars
  <2> QED BY <1>a, <2>1
<1>3. CASE WalkOutcome
  <2>1. UNCHANGED <<cmdList, bigObj>>
    BY <1>3 DEF WalkOutcome, WalkRest, schedVars
  <2>2. disp.obj = None
    BY <1>0, <1>3 DEF WalkOutcome, Control, ControlOf
  <2>3. BigIs'
    BY <2>1 DEF BigIs
  <2>4. BigHand'
    <3>1. CASE WalkSends(disp.ctx)
      <4>1. PICK o : (o.type = "big" => bigObj = None) /\ SendNext(o)
        BY <3>1 DEF WalkSends
      <4>2. disp'.obj = o
        BY <1>0, <4>1 DEF SendNext, TypeOK, DispType
      <4> QED BY <2>1, <4>1, <4>2 DEF BigHand
    <3>2. CASE ~WalkSends(disp.ctx)
      <4>a. ~WalkExpires(disp.ctx)
        BY DEF WalkExpires, NoHwFence
      <4>b. CASE WalkEnds(disp.ctx) \/ WalkBinds(disp.ctx)
        BY <1>0, <2>2, <4>b DEF WalkEnds, WalkBinds, Stop, TypeOK, DispType, BigHand
      <4>c. CASE WalkSyncs(disp.ctx) \/ WalkRetires(disp.ctx)
        BY <1>0, <2>2, <4>c DEF WalkSyncs, WalkRetires, TypeOK, DispType, BigHand
      <4> QED BY <1>3, <3>2, <4>a, <4>b, <4>c DEF WalkOutcome
    <3> QED BY <3>1, <3>2
  <2> QED BY <2>3, <2>4
<1>4. CASE SendOutcome
  <2>1. CASE SendGone(disp.ctx) \/ SendFails
    <3>1. UNCHANGED <<cmdList, bigObj>>
      BY <2>1 DEF SendGone, SendFails, schedVars
    <3>2. disp'.obj = None \/ disp'.obj = disp.obj
      BY <1>0, <2>1 DEF SendGone, SendFails, TypeOK, DispType
    <3> QED BY <3>1, <3>2 DEF BigIs, BigHand
  <2>2. CASE SendDone(disp.ctx, disp.obj)
    <3>1. PICK c \in Ctx, o \in Objects : c = disp.ctx /\ o = disp.obj /\ Submit(c, o)
      BY <1>4, <2>2 DEF SendOutcome, SendDone
    <3>2. o # None /\ o.state # "expired"
      BY <3>1, Nones DEF NoHwFence, Base, NoExpired
    <3>3. disp'.obj = None
      BY <1>0, <2>2 DEF SendDone, TypeOK, DispType
    <3>4. o.type = "big" => bigObj = None
      BY <3>1, <3>2 DEF BigHand
    <3>5. PICK s \in Seq(Entries) : s = cmdList
      BY <1>0 DEF SchedTypes
    <3>6. PICK e \in Entries : e = [ctx |-> c, obj |-> o]
      BY DEF Entries
    <3>7. cmdList' = Append(s, e) /\ bigObj' = IF o.type = "big" THEN <<c, o.ts>> ELSE bigObj
      BY <3>1, <3>2, <3>5, <3>6 DEF Submit
    <3>8. /\ Len(cmdList') = Len(s) + 1 /\ Len(s) \in Nat /\ cmdList'[Len(s) + 1] = e
          /\ \A k \in 1 .. Len(s) : cmdList'[k] = s[k]
      BY <3>7
    <3>9. /\ \A k \in 1 .. Len(cmdList') : k \in 1 .. Len(s) \/ k = Len(s) + 1
          /\ \A k \in 1 .. Len(s) : k \in 1 .. Len(cmdList')
          /\ Len(s) + 1 \in 1 .. Len(cmdList')
      BY <3>8
    <3>10. e.ctx = c /\ e.obj = o
      BY <3>6
    <3>11. CASE o.type = "big"
      <4>1. \A k \in 1 .. Len(s) : s[k].obj.type # "big"
        <5> SUFFICES ASSUME NEW k \in 1 .. Len(s), s[k].obj.type = "big" PROVE FALSE
          OBVIOUS
        <5>1. bigObj = <<s[k].ctx, s[k].obj.ts>>
          BY <3>5 DEF BigIs
        <5>2. s[k] \in Entries
          OBVIOUS
        <5>3. bigObj \in Ctx \X Nat
          BY <5>1, <5>2 DEF Entries, Objects
        <5> QED BY <3>4, <3>11, <5>3, Nones
      <4>2. bigObj' = <<c, o.ts>>
        BY <3>7, <3>11
      <4>3. BigIs'
        BY <3>8, <3>9, <3>10, <3>11, <4>1, <4>2 DEF BigIs
      <4> QED BY <3>3, <4>3 DEF BigHand
    <3>12. CASE o.type # "big"
      <4>1. bigObj' = bigObj
        BY <3>7, <3>12
      <4>2. ASSUME NEW k \in 1 .. Len(cmdList'), cmdList'[k].obj.type = "big"
            PROVE  bigObj' = <<cmdList'[k].ctx, cmdList'[k].obj.ts>>
        <5>1. k \in 1 .. Len(s) /\ cmdList'[k] = s[k]
          BY <3>8, <3>9, <3>10, <3>12, <4>2
        <5> QED BY <3>5, <4>1, <4>2, <5>1 DEF BigIs
      <4>3. ASSUME bigObj' # None
            PROVE  \E k \in 1 .. Len(cmdList') :
                     cmdList'[k].obj.type = "big" /\ bigObj' = <<cmdList'[k].ctx, cmdList'[k].obj.ts>>
        <5>1. PICK k \in 1 .. Len(s) : s[k].obj.type = "big" /\ bigObj = <<s[k].ctx, s[k].obj.ts>>
          BY <3>5, <4>1, <4>3 DEF BigIs
        <5> QED BY <3>8, <3>9, <4>1, <5>1
      <4>4. BigIs'
        BY <4>2, <4>3 DEF BigIs
      <4> QED BY <3>3, <4>4 DEF BigHand
    <3> QED BY <3>11, <3>12
  <2> QED BY <1>4, <2>1, <2>2 DEF SendOutcome
<1>5. CASE RequeueOutcome
  <2>1. UNCHANGED <<cmdList, bigObj>> /\ disp'.obj = None
    BY <1>0, <1>5 DEF RequeueOutcome, PutsBack, Drops, schedVars, TypeOK, DispType
  <2> QED BY <1>a, <2>1
<1>6. CASE retire_cmd_list
  <2>1. PICK done \in SUBSET ToSet(cmdList) : Reap(done)
    BY <1>6 DEF retire_cmd_list
  <2>2. disp'.obj = None
    BY <1>6 DEF retire_cmd_list, NoDisp
  <2> QED BY <1>b, <2>1, <2>2
<1>7. CASE FaultOutcome
  <2>1. PICK done \in SUBSET ToSet(cmdList) : Reap(done)
    BY <1>7 DEF FaultOutcome, adreno_hwsched_replay
  <2>2. disp' = disp
    BY <1>7 DEF FaultOutcome
  <2> QED BY <1>b, <2>1, <2>2
<1>8. ASSUME NEW c \in Ctx,
             \/ GpuRetire(c) \/ adreno_hwsched_queue_context(c) \/ drawctxt_detach_drawobjs(c)
             \/ gen7_hwsched_context_detach(c) \/ UnregisterTimeout(c)
      PROVE  BigIs' /\ BigHand'
  <2>1. UNCHANGED <<cmdList, bigObj, disp>>
    BY <1>8 DEF GpuRetire, adreno_hwsched_queue_context, drawctxt_detach_drawobjs,
                gen7_hwsched_context_detach, UnregisterTimeout, schedVars
  <2> QED BY <1>a, <2>1
<1>9. Moves
  BY <1>0, MovesStep
<1> QED
  BY <1>1, <1>2, <1>3, <1>4, <1>5, <1>6, <1>7, <1>8, <1>9 DEF Moves

\* A rising sequence that holds what the entries l of cmd_list hold, in order.
LEMMA ListedIs ==
    ASSUME NEW g \in Seq(Nat), NEW l \in Seq(Entries),
           \A i, j \in 1 .. Len(g) : i < j => g[i] < g[j],
           \A i, j \in 1 .. Len(l) : i < j => l[i].obj.ts < l[j].obj.ts,
           \A i \in 1 .. Len(g) : \E k \in 1 .. Len(l) : l[k].obj.ts = g[i],
           \A k \in 1 .. Len(l) : \E i \in 1 .. Len(g) : g[i] = l[k].obj.ts
    PROVE  g = [i \in DOMAIN l |-> l[i].obj.ts]
<1>1. PICK m \in Nat, n \in Nat : m = Len(g) /\ n = Len(l)
  OBVIOUS
<1>2. DOMAIN l = 1 .. n /\ g \in [1 .. m -> Nat]
  BY <1>1
<1>3. \A k \in 1 .. n : l[k].obj.ts \in Nat
  <2>1. \A k \in 1 .. n : l[k] \in Entries
    BY <1>1
  <2> QED BY <2>1 DEF Entries, Objects
<1>4. PICK h : h = [i \in DOMAIN l |-> l[i].obj.ts]
  OBVIOUS
<1>5. h \in [1 .. n -> Nat] /\ \A k \in 1 .. n : h[k] = l[k].obj.ts
  BY <1>2, <1>3, <1>4
<1>6. DOMAIN g = 1 .. m /\ DOMAIN h = 1 .. n
  BY <1>2, <1>5
<1>7. Rising(g)
  BY <1>1, <1>6 DEF Rising
<1>8. Rising(h)
  <2> SUFFICES ASSUME NEW i \in 1 .. n, NEW j \in 1 .. n, i < j PROVE h[i] < h[j]
    BY <1>6 DEF Rising
  <2> QED BY <1>1, <1>5
<1>9. Within(g, m, h, n) /\ Within(h, n, g, m)
  <2>1. ASSUME NEW i \in 1 .. m PROVE \E k \in 1 .. n : h[k] = g[i]
    <3>1. PICK k \in 1 .. n : l[k].obj.ts = g[i]
      BY <1>1
    <3> QED BY <1>5, <3>1
  <2>2. ASSUME NEW k \in 1 .. n PROVE \E i \in 1 .. m : g[i] = h[k]
    <3>1. PICK i \in 1 .. m : g[i] = l[k].obj.ts
      BY <1>1
    <3> QED BY <1>5, <3>1
  <2> QED BY <2>1, <2>2 DEF Within
<1>10. g = h
  BY <1>2, <1>5, <1>7, <1>8, <1>9, RisingUnique
<1> QED
  BY <1>4, <1>10

\* When one thread submits to each context and hardware fences are off, cmd_list,
\* hwsched->inflight, what the GMU holds and hwsched->big_cmdobj agree, through
\* every hwsched_sendcmd that fails, every retirement and every replay.
THEOREM HwschedListedIsInflight ==
    ASSUME Submitters = 1, TRUE \notin HwFence
    PROVE  Spec => []ListedIsInflight
<1>0. NoHwFence
  BY DEF NoHwFence
<1>1. Init => Base /\ Room /\ Order /\ Listing
  <2> SUFFICES ASSUME Init PROVE Listing
    BY BaseInit, RoomInit, OrderInit
  <2>1. \A c \in Ctx : Out(c) = {}
    BY DEF Init, Out
  <2>2. GmuAll
    BY <2>1 DEF GmuAll
  <2>3. BigIs /\ BigHand
    BY DEF Init, BigIs, BigHand, NoDisp
  <2> QED BY <2>2, <2>3 DEF Listing
<1>2. Base /\ Room /\ Order /\ Listing /\ [Next]_vars => Base' /\ Room' /\ Order' /\ Listing'
  <2> SUFFICES ASSUME Base, Room, Order, Listing, [Next]_vars
               PROVE  Base' /\ Room' /\ Order' /\ Listing'
    OBVIOUS
  <2>1. CASE Next
    <3>1. Step
      BY <2>1, NextIsStep DEF Base
    <3>2. Base' /\ Room' /\ Order'
      BY <3>1, BaseStep, RoomStep, OrderStep
    <3>3. GmuAll'
      BY <1>0, <3>1, <3>2, GmuAllStep DEF Listing, Order
    <3>4. BigIs' /\ BigHand'
      BY <1>0, <3>1, BigStep DEF Listing
    <3> QED BY <3>2, <3>3, <3>4 DEF Listing
  <2>2. CASE UNCHANGED vars
    <3>1. Base' /\ Room' /\ Order'
      BY <2>2, BaseStutter, RoomStutter, OrderStutter
    <3>2. UNCHANGED <<fault, bits, eop, gmu, cmdList, bigObj, disp>>
      BY <2>2 DEF vars, ctxVars, gpuVars, schedVars, faultVars
    <3>3. \A c : Out(c)' = Out(c)
      BY <3>2 DEF Out
    <3>4. GmuAll'
      BY <3>2, <3>3 DEF Listing, GmuAll
    <3>5. BigIs' /\ BigHand'
      BY <3>2 DEF Listing, BigIs, BigHand
    <3> QED BY <3>1, <3>4, <3>5 DEF Listing
  <2> QED BY <2>1, <2>2
<1>3. Base /\ Order /\ Listing => ListedIsInflight
  <2> SUFFICES ASSUME Base, Order, Listing PROVE ListedIsInflight
    OBVIOUS
  <2>0. SchedTypes /\ GpuTypes
    BY TypesAre DEF Base
  <2>1. inflight = Len(cmdList)
    BY DEF Base, Gate
  <2>2. PICK s \in Seq(Entries) : s = cmdList
    BY <2>0 DEF SchedTypes
  <2>3. PICK B : B = {i \in DOMAIN cmdList : cmdList[i].obj.type = "big"}
    OBVIOUS
  <2>4. \A i \in B : i \in 1 .. Len(s) /\ s[i].obj.type = "big"
    BY <2>2, <2>3
  <2>5. \A i \in B : bigObj = <<s[i].ctx, s[i].obj.ts>>
    BY <2>2, <2>4 DEF Listing, BigIs
  <2>6. B = {} => bigObj = None
    <3>1. DOMAIN cmdList = 1 .. Len(cmdList)
      BY <2>2
    <3> QED BY <2>3, <3>1 DEF Listing, BigIs
  <2>7. \A i, j \in B : i = j
    <3> SUFFICES ASSUME NEW i \in B, NEW j \in B PROVE i = j
      OBVIOUS
    <3>1. i \in 1 .. Len(s) /\ j \in 1 .. Len(s)
      BY <2>4
    <3>2. s[i].ctx = s[j].ctx /\ s[i].obj.ts = s[j].obj.ts
      BY <2>5
    <3>3. s[i] \in Entries
      BY <3>1
    <3>4. s[i].obj.ts \in Nat
      BY <3>3 DEF Entries, Objects
    <3>5. ~(i < j) /\ ~(j < i)
      BY <2>2, <3>1, <3>2, <3>4 DEF Order, EntriesUp
    <3> QED BY <3>1, <3>5
  <2>8. Cardinality(B) <= 1
    <3>1. CASE B = {}
      BY <3>1, FS_EmptySet
    <3>2. CASE B # {}
      <4>1. PICK i : i \in B
        BY <3>2
      <4>2. B = {i}
        BY <2>7, <4>1
      <4>3. Cardinality({i}) = 1
        BY FS_Singleton
      <4> QED BY <4>2, <4>3
    <3> QED BY <3>1, <3>2
  <2>9. ASSUME fault = {}, NEW c \in Ctx, "INVALID" \notin bits[c],
               NEW S, S = {e \in ToSet(cmdList) : e.ctx = c /\ ~kgsl_check_timestamp(c, e.obj.ts)}
        PROVE  gmu[c] = [i \in DOMAIN Only(cmdList, S) |-> Only(cmdList, S)[i].obj.ts]
    <3>1. PICK g \in Seq(Nat) : g = gmu[c]
      BY <2>0 DEF GpuTypes
    <3>2. Filtered(Only(s, S), s, S) /\ Only(s, S) \in Seq(Entries)
      BY OnlyKeeps
    <3>3. PICK l \in Seq(Entries) : l = Only(s, S)
      BY <3>2
    <3>4. Filtered(l, s, S)
      BY <3>2, <3>3
    <3>5. PICK e \in Nat : e = eop[c]
      BY <2>0 DEF GpuTypes
    <3>6. ASSUME NEW k \in 1 .. Len(l)
          PROVE  l[k].ctx = c /\ l[k].obj.ts \in Nat /\ e < l[k].obj.ts /\ l[k].obj.ts \in Out(c)
      <4>1. l[k] \in S /\ \E i \in 1 .. Len(s) : l[k] = s[i]
        BY <3>4 DEF Filtered
      <4>2. l[k] \in Entries
        OBVIOUS
      <4>3. l[k].obj.ts \in Nat
        BY <4>2 DEF Entries, Objects
      <4>4. l[k].ctx = c /\ ~(e >= l[k].obj.ts)
        BY <2>9, <3>5, <4>1 DEF kgsl_check_timestamp
      <4>5. l[k].obj.ts \in Out(c)
        BY <2>2, <4>1, <4>3, <4>4 DEF Out
      <4> QED BY <4>3, <4>4, <4>5
    <3>7. \A i, j \in 1 .. Len(g) : i < j => g[i] < g[j]
      BY <3>1 DEF Order, GmuUp
    <3>8. ASSUME NEW i \in 1 .. Len(l), NEW j \in 1 .. Len(l), i < j
          PROVE  l[i].obj.ts < l[j].obj.ts
      <4>1. PICK a, b \in 1 .. Len(s) : a < b /\ l[i] = s[a] /\ l[j] = s[b]
        BY <3>4, <3>8 DEF Filtered
      <4>2. s[a].ctx = s[b].ctx
        BY <3>6, <4>1
      <4> QED BY <2>2, <4>1, <4>2 DEF Order, EntriesUp
    <3>9. ASSUME NEW i \in 1 .. Len(g) PROVE \E k \in 1 .. Len(l) : l[k].obj.ts = g[i]
      <4>1. g[i] \in Out(c) /\ e < g[i] /\ g[i] \in Nat
        BY <2>9, <3>1, <3>5 DEF Order, GmuListed, GmuAhead
      <4>2. PICK k \in 1 .. Len(s) : s[k].ctx = c /\ s[k].obj.ts = g[i]
        BY <2>2, <4>1 DEF Out
      <4>3. s[k] \in ToSet(cmdList)
        BY <2>2 DEF ToSet
      <4>4. s[k] \in S
        BY <2>9, <3>5, <4>1, <4>2, <4>3 DEF kgsl_check_timestamp
      <4>5. PICK m \in 1 .. Len(l) : l[m] = s[k]
        BY <3>4, <4>4 DEF Filtered
      <4> QED BY <4>2, <4>5
    <3>10. ASSUME NEW k \in 1 .. Len(l) PROVE \E i \in 1 .. Len(g) : g[i] = l[k].obj.ts
      BY <2>9, <3>1, <3>5, <3>6 DEF Listing, GmuAll
    <3>11. g = [i \in DOMAIN l |-> l[i].obj.ts]
      BY <3>7, <3>8, <3>9, <3>10, ListedIs
    <3> QED BY <2>2, <3>1, <3>3, <3>11
  <2> QED
    BY <2>1, <2>2, <2>3, <2>5, <2>6, <2>8, <2>9 DEF ListedIsInflight, kgsl_context_invalid
<1> QED
  BY <1>1, <1>2, <1>3, PTL DEF Spec
====
