----------------------------- MODULE MCDispatch -----------------------------
(***************************************************************************)
(* Two hooks stacked on f and one on g. The first hook of f reports its    *)
(* first hit to an observer that calls f again; the second reports every   *)
(* hit to an observer that calls g, whose hook is not observed.            *)
(***************************************************************************)
EXTENDS Dispatch, TLC

CONSTANTS f, g, app

Targets   == {f, g}
TargetsOf == <<f, g, f>>
Homes     == [t \in Targets |-> app]
AllObjc   == [t \in Targets |-> "objc"]
Modes     == <<"FirstHit", "Off", "EveryHit">>
Observers == <<f, Nothing, g>>
=============================================================================
