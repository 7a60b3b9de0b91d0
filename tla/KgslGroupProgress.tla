-------------------------- MODULE KgslGroupProgress --------------------------
(***************************************************************************)
(* The progress of one event group behind the GPU, in the 32 bit           *)
(* timestamps the driver sees and in the true distances between commands   *)
(* it cannot see.  The module relates timestamp_cmp (kgsl.h:605) and       *)
(* _do_process_group (kgsl_events.c:54) to the order in time of what they  *)
(* compare.  A read of the memstore may be late: it returns the value of   *)
(* up to Slip commands ago, the "memory barrier issue" of the comment in   *)
(* _do_process_group.                                                      *)
(***************************************************************************)
EXTENDS KgslTimestamp

CONSTANT Slip     \* how many commands a late read may be behind

ASSUME SlipAssumption == Slip \in 0 .. Window - 1

VARIABLES
    retired,      \* the retired timestamp of the context in the memstore
    processed,    \* group->processed
    lag           \* commands retired since the one processed stands for

vars == <<retired, processed, lag>>

\* The group has caught up, wherever the timestamps are on their circle.
Init ==
    /\ retired \in Timestamp
    /\ processed = retired
    /\ lag = 0

\* The GPU retires a command; it is less than a window ahead of the group.
Retire ==
    /\ lag + 1 < Window
    /\ retired' = AddTimestamp(retired, 1)
    /\ lag' = lag + 1
    /\ UNCHANGED processed

\* _process_event_group reads the memstore, perhaps k commands late, and sets
\* group->processed to what it read unless _do_process_group refuses it.
ProcessGroup ==
    \E k \in 0 .. Slip :
        LET now == SubTimestamp(retired, k) IN
        /\ _do_process_group(processed, now)
        /\ processed' = now
        /\ lag' = k
        /\ UNCHANGED retired

Next == Retire \/ ProcessGroup

Spec == Init /\ [][Next]_vars

-----------------------------------------------------------------------------
\* Every variable has its type.
TypeOK ==
    /\ retired \in Timestamp /\ processed \in Timestamp
    /\ lag \in 0 .. Window - 1

\* timestamp_cmp agrees with the order in time of the processed and the
\* retired command, whichever of the two has rolled over (kgsl.h:611).
CmpFollowsTime ==
    /\ timestamp_cmp(retired, processed) = IF lag = 0 THEN 0 ELSE 1
    /\ timestamp_cmp(processed, retired) = IF lag = 0 THEN 0 ELSE -1

\* The true distance is the one between the two timestamps on the circle; the
\* strengthening that makes CmpFollowsTime and ForwardIsProcessed inductive.
LagIsDistance == retired = AddTimestamp(processed, lag)

\* _do_process_group never refuses progress: any later command that the
\* memstore may show, fresh or late, is processed (kgsl_events.c:56-67).
ForwardIsProcessed ==
    \A k \in 0 .. Window - 1 :
        k < lag => _do_process_group(processed, SubTimestamp(retired, k))
=============================================================================
