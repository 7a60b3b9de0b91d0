-------------------------- MODULE TimelineContract --------------------------
(***************************************************************************)
(* What the users of a KGSL software timeline rely on, without locks,      *)
(* lists, threads or reference counts: a timeline only moves forward, a    *)
(* fence fires when its timeline has reached the fence's sequence number,  *)
(* or fails once the timeline's id is gone, and a fence that can fire does *)
(* not stay pending for ever.                                              *)
(***************************************************************************)
EXTENDS Naturals

CONSTANTS Timelines, Fences, MaxSeqno, None

VARIABLES
    published,   \* timelines that can be found by their id, or will be
    live,        \* timelines in use
    value,       \* value of each timeline
    on,          \* on[f]: the timeline of fence f
    target,      \* target[f]: the sequence number fence f waits for
    state        \* state[f]: "free", "pending", "done" or "failed"

avars == <<published, live, value, on, target, state>>

Seqno == 0 .. MaxSeqno

Init ==
    /\ published = {}
    /\ live = {}
    /\ value = [t \in Timelines |-> 0]
    /\ on = [f \in Fences |-> None]
    /\ target = [f \in Fences |-> 0]
    /\ state = [f \in Fences |-> "free"]

Create(t, v) ==
    /\ t \notin live
    /\ \A f \in Fences : on[f] # t
    /\ live' = live \cup {t}
    /\ published' = published \cup {t}
    /\ value' = [value EXCEPT ![t] = v]
    /\ UNCHANGED <<on, target, state>>

\* The timeline moves forward; what it has reached may fire from now on.
Advance(t, n) ==
    /\ t \in live
    /\ n > value[t]
    /\ value' = [value EXCEPT ![t] = n]
    /\ UNCHANGED <<published, live, on, target, state>>

Destroy(t) ==
    /\ t \in published
    /\ published' = published \ {t}
    /\ UNCHANGED <<live, value, on, target, state>>

NewFence(f, t, n) ==
    /\ on[f] = None
    /\ t \in live
    /\ on' = [on EXCEPT ![f] = t]
    /\ target' = [target EXCEPT ![f] = n]
    /\ state' = [state EXCEPT ![f] = "pending"]
    /\ UNCHANGED <<published, live, value>>

Reached(f) == state[f] = "pending" /\ target[f] <= value[on[f]]

Fire(f) ==
    /\ Reached(f)
    /\ state' = [state EXCEPT ![f] = "done"]
    /\ UNCHANGED <<published, live, value, on, target>>

\* Destroying the timeline fails its fences.  A fence that somebody saw
\* signaled while the destruction was under way can still be given the error.
Fail(f) ==
    /\ state[f] \in {"pending", "done"}
    /\ on[f] \notin published
    /\ state' = [state EXCEPT ![f] = "failed"]
    /\ UNCHANGED <<published, live, value, on, target>>

\* The last user of the fence lets go of it.
Drop(f) ==
    /\ state[f] # "free"
    /\ state' = [state EXCEPT ![f] = "free"]
    /\ UNCHANGED <<published, live, value, on, target>>

\* The memory of a dropped fence is freed, and with it the timeline if the
\* fence was its last user.
Release(f) ==
    /\ on[f] # None
    /\ state[f] = "free"
    /\ on' = [on EXCEPT ![f] = None]
    /\ target' = [target EXCEPT ![f] = 0]
    /\ \/ UNCHANGED <<live, value>>
       \/ /\ on[f] \in live \ published
          /\ \A g \in Fences \ {f} : on[g] # on[f]
          /\ live' = live \ {on[f]}
          /\ value' = [value EXCEPT ![on[f]] = 0]
    /\ UNCHANGED <<published, state>>

\* The last user of a timeline without fences lets go of it.
Retire(t) ==
    /\ t \in live \ published
    /\ \A f \in Fences : on[f] # t
    /\ live' = live \ {t}
    /\ value' = [value EXCEPT ![t] = 0]
    /\ UNCHANGED <<published, on, target, state>>

Next ==
    \/ \E t \in Timelines, n \in Seqno : Create(t, n) \/ Advance(t, n)
    \/ \E t \in Timelines : Destroy(t) \/ Retire(t)
    \/ \E f \in Fences, t \in Timelines, n \in Seqno : NewFence(f, t, n)
    \/ \E f \in Fences : Fire(f) \/ Fail(f) \/ Drop(f) \/ Release(f)

\* A fence whose number is reached does not stay pending.
Settle(f) == Reached(f) /\ (Fire(f) \/ Fail(f) \/ Drop(f))

SafeSpec == Init /\ [][Next]_avars
Spec == SafeSpec /\ \A f \in Fences : WF_avars(Settle(f))
=============================================================================
