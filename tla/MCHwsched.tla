----------------------------- MODULE MCHwsched -----------------------------
(* The instances of Hwsched that are model checked. *)
EXTENDS Hwsched, TLC

CONSTANTS a, b      \* two contexts

\* Two contexts, a with the higher priority, one timestamp each.
TwoLevels == a :> 0 @@ b :> 1
OneEach == a :> 1 @@ b :> 1
RealCommands == {<<"cmd">>, <<"big">>}

\* One context, every kind of object that needs no other context.
OneLevel == a :> 0
UpToThree == a :> 3
EveryKind == {<<"cmd">>, <<"sync", "cmd">>, <<"marker">>,
              <<"sync", "timeline">>, <<"sync", "bind">>}

\* Two threads that fill the queue of one context.
UpToSix == a :> 6
PlainCommands == {<<"cmd">>}
=============================================================================
