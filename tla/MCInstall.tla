----------------------------- MODULE MCInstall -----------------------------
(***************************************************************************)
(* Instances of Install for TLC. The stacked instances have two hooks on   *)
(* each target, declared alternately, so that a late image installs them   *)
(* in an order that is not the link order. The pair instance has one hook  *)
(* on each of two targets in different images.                             *)
(***************************************************************************)
EXTENDS Install, TLC

CONSTANTS f, g,          \* targets
          app, plugin    \* images

Targets == {f, g}
Images  == {app, plugin}

StackedTargetOf == <<g, f, g, f>>
PairTargetOf    == <<f, g>>
FirstTargetOf   == <<f>>
MacTargetOf     == <<g, f, g, f>>

Homes      == f :> app @@ g :> plugin
AllDetours == [t \in Targets |-> "detours"]
AllDobby   == [t \in Targets |-> "dobby"]
MacEngines == f :> "dobby" @@ g :> "objc"
AllObjc    == [t \in Targets |-> "objc"]
=============================================================================
