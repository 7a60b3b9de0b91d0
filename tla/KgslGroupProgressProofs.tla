----------------------- MODULE KgslGroupProgressProofs -----------------------
(***************************************************************************)
(* Proofs about the 32 bit timestamps, for every window size: the order    *)
(* timestamp_cmp computes, and the progress of an event group.             *)
(***************************************************************************)
EXTENDS KgslGroupProgress, TLAPS

(***************************************************************************)
(* Arithmetic on the circle of 2 * Window timestamps.                      *)
(***************************************************************************)

\* Sums and differences of timestamps are timestamps.
LEMMA CircleClosed ==
    ASSUME NEW a \in Timestamp, NEW n \in Timestamp
    PROVE  /\ AddTimestamp(a, n) \in Timestamp
           /\ SubTimestamp(a, n) \in Timestamp
           /\ AddWindow(a) \in Timestamp
  BY WindowAssumption DEF Timestamp, AddTimestamp, SubTimestamp, AddWindow

\* Going k back from a + n, with k not more than n, is going n - k forward.
LEMMA SubOfAdd ==
    ASSUME NEW a \in Timestamp, NEW n \in 0 .. Window - 1, NEW k \in 0 .. n
    PROVE  SubTimestamp(AddTimestamp(a, n), k) = AddTimestamp(a, n - k)
  BY WindowAssumption DEF Timestamp, AddTimestamp, SubTimestamp

\* Going forward by the same number again undoes going back.
LEMMA AddOfSub ==
    ASSUME NEW a \in Timestamp, NEW k \in Timestamp
    PROVE  AddTimestamp(SubTimestamp(a, k), k) = a
  BY WindowAssumption DEF Timestamp, AddTimestamp, SubTimestamp

\* timestamp_cmp (kgsl.h:605): a timestamp less than a window ahead of
\* another one is after it, and the other one is before it.
LEMMA CmpOfAdd ==
    ASSUME NEW a \in Timestamp, NEW n \in 0 .. Window - 1
    PROVE  /\ timestamp_cmp(AddTimestamp(a, n), a) = IF n = 0 THEN 0 ELSE 1
           /\ timestamp_cmp(a, AddTimestamp(a, n)) = IF n = 0 THEN 0 ELSE -1
  <1>1. CASE n = 0
    BY <1>1, WindowAssumption DEF Timestamp, AddTimestamp, timestamp_cmp
  <1>2. CASE n # 0 /\ a + n < 2 * Window
    BY <1>2, WindowAssumption
       DEF Timestamp, AddTimestamp, timestamp_cmp, AddWindow
  <1>3. CASE n # 0 /\ ~(a + n < 2 * Window)
    BY <1>3, WindowAssumption
       DEF Timestamp, AddTimestamp, timestamp_cmp, AddWindow
  <1>4. QED
    BY <1>1, <1>2, <1>3

\* timestamp_cmp is antisymmetric on all timestamps, those a whole window
\* apart included, which is what the comment at kgsl.h:613 asks for.
THEOREM CmpAntisymmetric ==
    ASSUME NEW a \in Timestamp, NEW b \in Timestamp
    PROVE  timestamp_cmp(a, b) = -timestamp_cmp(b, a)
  BY WindowAssumption DEF Timestamp, timestamp_cmp, AddWindow

\* _do_process_group (kgsl_events.c:54) accepts every timestamp that is ahead
\* of the processed one by less than a window.
LEMMA ForwardAccepted ==
    ASSUME NEW a \in Timestamp, NEW n \in 1 .. Window - 1
    PROVE  _do_process_group(a, AddTimestamp(a, n))
  BY WindowAssumption DEF Timestamp, AddTimestamp, _do_process_group

-----------------------------------------------------------------------------
(***************************************************************************)
(* The progress of a group.                                                *)
(***************************************************************************)
Inv == TypeOK /\ LagIsDistance

\* Inv holds in every reachable state of the group: the driver's timestamps
\* keep the true distance of the commands as long as it is below a window.
THEOREM ProgressInv == Spec => []Inv
  <1>1. Init => Inv
    BY WindowAssumption
       DEF Init, Inv, TypeOK, LagIsDistance, Timestamp, AddTimestamp
  <1>2. Inv /\ [Next]_vars => Inv'
    <2> SUFFICES ASSUME Inv, [Next]_vars
                 PROVE  Inv'
      OBVIOUS
    <2> USE DEF Inv
    <2>1. CASE Retire
      <3>1. TypeOK'
        BY <2>1, WindowAssumption
           DEF TypeOK, LagIsDistance, Retire, Timestamp, AddTimestamp
      <3>2. LagIsDistance'
        BY <2>1, WindowAssumption
           DEF TypeOK, LagIsDistance, Retire, Timestamp, AddTimestamp
      <3>3. QED
        BY <3>1, <3>2
    <2>2. CASE ProcessGroup
      <3>1. PICK k \in 0 .. Slip :
               /\ processed' = SubTimestamp(retired, k)
               /\ lag' = k
               /\ retired' = retired
        BY <2>2 DEF ProcessGroup
      <3>2. k \in Timestamp /\ k \in 0 .. Window - 1
        BY WindowAssumption, SlipAssumption DEF Timestamp
      <3>3. processed' \in Timestamp
        BY <3>1, <3>2, CircleClosed DEF TypeOK
      <3>4. TypeOK'
        BY <3>1, <3>2, <3>3 DEF TypeOK
      <3>5. LagIsDistance'
        BY <3>1, <3>2, AddOfSub DEF TypeOK, LagIsDistance
      <3>6. QED
        BY <3>4, <3>5
    <2>3. CASE UNCHANGED vars
      BY <2>3 DEF vars, TypeOK, LagIsDistance
    <2>4. QED
      BY <2>1, <2>2, <2>3 DEF Next
  <1>3. QED
    BY <1>1, <1>2, PTL DEF Spec

\* Type correctness of the group (_process_event_group, kgsl_events.c:70).
THEOREM TypeCorrect == Spec => []TypeOK
  <1>1. Inv => TypeOK
    BY DEF Inv
  <1>2. QED
    BY <1>1, ProgressInv, PTL

\* timestamp_cmp orders the processed and the retired timestamp as their
\* commands are ordered in time, for every window size and rollover.
THEOREM CmpCorrect == Spec => []CmpFollowsTime
  <1>1. Inv => CmpFollowsTime
    BY CmpOfAdd DEF Inv, TypeOK, LagIsDistance, CmpFollowsTime
  <1>2. QED
    BY <1>1, ProgressInv, PTL

\* No event group is skipped: _do_process_group accepts whatever later
\* timestamp a fresh or late read of the memstore returns.
THEOREM ForwardCorrect == Spec => []ForwardIsProcessed
  <1>1. Inv => ForwardIsProcessed
    <2> SUFFICES ASSUME Inv, NEW k \in 0 .. Window - 1, k < lag
                 PROVE  _do_process_group(processed, SubTimestamp(retired, k))
      BY DEF ForwardIsProcessed
    <2>1. k \in 0 .. lag /\ lag - k \in 1 .. Window - 1
      BY WindowAssumption DEF Inv, TypeOK
    <2>2. SubTimestamp(retired, k) = AddTimestamp(processed, lag - k)
      BY <2>1, SubOfAdd DEF Inv, TypeOK, LagIsDistance
    <2>3. QED
      BY <2>1, <2>2, ForwardAccepted DEF Inv, TypeOK
  <1>2. QED
    BY <1>1, ProgressInv, PTL
=============================================================================
