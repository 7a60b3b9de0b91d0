--------------------------- MODULE MCKgslSyncObj ----------------------------
(* Instances of KgslSyncObj: what the sync points of a submit wait for.    *)
EXTENDS KgslSyncObj

OfEachType == <<"timestamp", "fence", "timeline">>

FenceAndTimestamp == <<"fence", "timestamp">>
=============================================================================
