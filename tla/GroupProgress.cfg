SPECIFICATION Spec
CONSTANTS
    Window = 16
    Slip = 3
INVARIANTS
    CmpFollowsTime
    ForwardIsProcessed
