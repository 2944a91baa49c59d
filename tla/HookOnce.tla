------------------------------ MODULE HookOnce ------------------------------
(***************************************************************************)
(* What installation promises, with every intermediate step removed: each  *)
(* hook goes from uninstalled to installed once, in one indivisible step   *)
(* that puts it in front of whatever its target ran before.                *)
(*                                                                         *)
(* Implementations are numbers: a hook is a member of 1..N and the genuine *)
(* implementation of a target is 0.                                        *)
(***************************************************************************)
EXTENDS Integers

CONSTANTS N,         \* number of hooks
          Target,    \* functions and methods that can be hooked
          TargetOf   \* the target each hook is declared for

Hook  == 1 .. N
Real  == 0
Unset == -1

VARIABLES entry,     \* what a call of each target runs first
          below      \* what each installed hook displaced

TypeOK == /\ entry \in [Target -> Hook \cup {Real}]
          /\ below \in [Hook -> Hook \cup {Real, Unset}]

Init == /\ entry = [t \in Target |-> Real]
        /\ below = [h \in Hook |-> Unset]

Install(h) == /\ below[h] = Unset
              /\ below' = [below EXCEPT ![h] = entry[TargetOf[h]]]
              /\ entry' = [entry EXCEPT ![TargetOf[h]] = h]

Next == \E h \in Hook : Install(h)

Spec == Init /\ [][Next]_<<entry, below>>
=============================================================================
