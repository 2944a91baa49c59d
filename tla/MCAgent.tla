------------------------------ MODULE MCAgent ------------------------------
(***************************************************************************)
(* Two injections of an agent with two hooks on a function and one on an   *)
(* Objective-C method, with every fault of Dobby. Each thread may inject   *)
(* again and again.                                                        *)
(***************************************************************************)
EXTENDS ScreenshotAgent, TLC

CONSTANTS f, g, app

Targets   == {f, g}
TargetsOf == <<g, f, g>>
Homes     == [t \in Targets |-> app]
Engines   == f :> "dobby" @@ g :> "objc"
=============================================================================
