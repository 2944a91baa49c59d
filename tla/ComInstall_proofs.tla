-------------------------- MODULE ComInstall_proofs --------------------------
(***************************************************************************)
(* Proofs about ComInstall, for any hooks, images and exports: whatever the *)
(* program loads, unloads, creates and releases meanwhile, a hook is in    *)
(* front of at most one function, and it is one that its declaration       *)
(* allows; and a call of an installer ends.                                *)
(***************************************************************************)
EXTENDS ComInstall, TLAPS, WellFoundedInduction

LEMMA Slices ==
  ASSUME NEW h \in Hook
  PROVE  /\ InstallSlice(h) \in Seq(Image) /\ ResolveSlice(h) \in Seq(Image)
         /\ ToOpen(h) \in Seq(Image)
         /\ Listed(InstallSlice(h)) \subseteq Listed(ToOpen(h))
         /\ Listed(ResolveSlice(h)) \subseteq Listed(ToOpen(h))
         /\ Scope(h) \subseteq Listed(ToOpen(h))
<1>1. /\ InstallSlice(h) \in Seq(Image) /\ ResolveSlice(h) \in Seq(Image)
      /\ ToOpen(h) \in Seq(Image)
  BY HookAssumption DEF InstallSlice, ResolveSlice, ModuleSlice, ToOpen
<1>2. ASSUME NEW i \in 1 .. Len(InstallSlice(h))
      PROVE  /\ i \in 1 .. Len(ToOpen(h))
             /\ ToOpen(h)[i] = InstallSlice(h)[i]
  BY <1>1 DEF ToOpen
<1>3. ASSUME NEW i \in 1 .. Len(ResolveSlice(h))
      PROVE  /\ i + Len(InstallSlice(h)) \in 1 .. Len(ToOpen(h))
             /\ ToOpen(h)[i + Len(InstallSlice(h))] = ResolveSlice(h)[i]
  BY <1>1 DEF ToOpen
<1>4. Listed(InstallSlice(h)) \subseteq Listed(ToOpen(h))
  BY <1>2 DEF Listed
<1>5. Listed(ResolveSlice(h)) \subseteq Listed(ToOpen(h))
  BY <1>3 DEF Listed
<1>6. QED
  BY <1>1, <1>4, <1>5 DEF Scope

------------------------------------------------------------------------------
(* Types.                                                                    *)

\* The types of the loop's, the loader's and the program's state.
THEOREM ComTypes == Spec => []ComTypeOK
<1>1. Init => ComTypeOK
  BY CountAssumption, ImageAssumption DEF Init, ComTypeOK, Hook
<1>2. ComTypeOK /\ [Next]_vars => ComTypeOK'
  <2> SUFFICES ASSUME ComTypeOK, [Next]_vars
               PROVE  ComTypeOK'
    OBVIOUS
  <2> USE DEF ComTypeOK, Goto, End, Env, loader
  <2> idx + 1 \in Hook \/ idx = N
    BY CountAssumption DEF Hook
  <2>1. CASE Call
    BY <2>1, CountAssumption DEF Call, Hook
  <2>2. CASE Guard
    BY <2>2, CountAssumption DEF Guard, HookOk
  <2>3. CASE Open
    <3>1. ToOpen(idx)[opened + 1] \in Image
      BY <2>3, Slices DEF Open
    <3>2. QED
      BY <2>3, <3>1 DEF Open
  <2>4. CASE OpenDone
    BY <2>4 DEF OpenDone
  <2>5. CASE ResolvePreferred
    BY <2>5, HookAssumption, CountAssumption DEF ResolvePreferred, FinishInstall, HookOk
  <2>6. CASE ResolveSymbol
    BY <2>6 DEF ResolveSymbol
  <2>7. CASE Fallback
    BY <2>7, CountAssumption DEF Fallback, FinishInstall, HookOk
  <2>8. CASE Replace
    BY <2>8 DEF Replace
  <2>9. CASE FailReplace
    BY <2>9 DEF FailReplace
  <2>10. CASE Publish
    BY <2>10, CountAssumption DEF Publish, HookOk
  <2>11. ASSUME NEW image \in Image, Load(image) PROVE ComTypeOK'
    BY <2>11 DEF Load
  <2>12. ASSUME NEW image \in Image, Unload(image) PROVE ComTypeOK'
    BY <2>12 DEF Unload
  <2>13. ASSUME NEW h \in Hook, Learn(h) PROVE ComTypeOK'
    BY <2>13 DEF Learn
  <2>14. ASSUME NEW h \in Hook, Forget(h) PROVE ComTypeOK'
    BY <2>14 DEF Forget
  <2>15. CASE UNCHANGED vars
    BY <2>15 DEF vars
  <2>16. QED
    BY <2>1, <2>2, <2>3, <2>4, <2>5, <2>6, <2>7, <2>8, <2>9, <2>10, <2>11,
       <2>12, <2>13, <2>14, <2>15 DEF Next, Step, Program
<1>3. QED
  BY <1>1, <1>2, PTL DEF Spec

------------------------------------------------------------------------------
(* One function for each hook.                                               *)

\* A hook that is being installed is not in front of anything yet.
Fresh == pc \in {"open", "resolve", "fallback", "replace"} =>
           /\ idx \notin installed
           /\ \A f \in Function : idx \notin patched[f]

OneInv == ComTypeOK /\ Fresh /\ AtMostOneFunction

\* Retries, panics and changes of route never put a hook in front of a second
\* function, and leave it in front of none without its original.
THEOREM AtMostOneTheorem == Spec => []AtMostOneFunction
<1>1. Init => Fresh /\ AtMostOneFunction
  BY DEF Init, Fresh, AtMostOneFunction
<1>2. OneInv /\ ComTypeOK' /\ [Next]_vars => Fresh' /\ AtMostOneFunction'
  <2> SUFFICES ASSUME OneInv, ComTypeOK', [Next]_vars
               PROVE  Fresh' /\ AtMostOneFunction'
    OBVIOUS
  <2> USE DEF OneInv, ComTypeOK, Fresh, AtMostOneFunction, Goto, End, Env, loader
  <2>1. CASE Call
    BY <2>1 DEF Call
  <2>2. CASE Guard
    BY <2>2 DEF Guard, HookOk
  <2>3. CASE Open
    BY <2>3 DEF Open
  <2>4. CASE OpenDone
    BY <2>4 DEF OpenDone
  <2>5. CASE ResolvePreferred
    BY <2>5 DEF ResolvePreferred, FinishInstall, HookOk
  <2>6. CASE ResolveSymbol
    BY <2>6 DEF ResolveSymbol
  <2>7. CASE Fallback
    BY <2>7 DEF Fallback, FinishInstall, HookOk
  <2>8. CASE Replace
    BY <2>8 DEF Replace
  <2>9. CASE FailReplace
    BY <2>9 DEF FailReplace
  <2>10. CASE Publish
    BY <2>10 DEF Publish, HookOk
  <2>11. ASSUME NEW image \in Image, Load(image) \/ Unload(image)
         PROVE  Fresh' /\ AtMostOneFunction'
    BY <2>11 DEF Load, Unload
  <2>12. ASSUME NEW h \in Hook, Learn(h) \/ Forget(h)
         PROVE  Fresh' /\ AtMostOneFunction'
    BY <2>12 DEF Learn, Forget
  <2>13. CASE UNCHANGED vars
    BY <2>13 DEF vars
  <2>14. QED
    BY <2>1, <2>2, <2>3, <2>4, <2>5, <2>6, <2>7, <2>8, <2>9, <2>10, <2>11,
       <2>12, <2>13 DEF Next, Step, Program
<1>3. QED
  BY <1>1, <1>2, ComTypes, PTL DEF Spec, OneInv

------------------------------------------------------------------------------
(* Scope.                                                                    *)

Steady(image) == image \in mapped \/ image \in Volatile

\* The images a hook has opened are in the process, unless the program unloads
\* images like them.
Opened ==
  /\ pc = "open" => \A i \in 1 .. Len(ToOpen(idx)) :
                      i <= opened => Steady(ToOpen(idx)[i])
  /\ pc \in {"resolve", "fallback"} =>
       \A image \in Listed(ToOpen(idx)) : Steady(image)

\* The second lookup of a symbol hook only happens where nothing was in scope.
OutOfScope == pc = "fallback" /\ RouteOf[idx] = "symbol" =>
  \A g \in Exports[idx] : HomeOf[g] \notin Scope(idx) \ Volatile

Aimed == pc = "replace" => Acceptable(idx, target)

ScopeInv == ComTypeOK /\ Opened /\ OutOfScope /\ Aimed /\ LandsInScope

\* What a search that begins with a hook's scope finds is acceptable.
LEMMA FindsAcceptable ==
  ASSUME ComTypeOK, NEW slice, NEW f \in Function, Finds(idx, slice, f),
         Scope(idx) = Listed(slice),
         \A image \in Listed(slice) : Steady(image)
  PROVE  Acceptable(idx, f)
<1>1. CASE \E i \in 1 .. Len(slice) : HomeOf[f] = slice[i]
  BY <1>1 DEF Acceptable, Listed
<1>2. CASE \A g \in Visible(idx) : HomeOf[g] \notin Listed(slice)
  BY <1>2 DEF Acceptable, Visible, Steady
<1>3. QED
  BY <1>1, <1>2 DEF Finds

LEMMA OpenedStep ==
  ASSUME ComTypeOK, ComTypeOK', Opened, [Next]_vars
  PROVE  Opened'
<1> USE DEF ComTypeOK, Opened, Steady, Goto, End, Env, loader
<1>1. CASE Call
  BY <1>1 DEF Call
<1>2. CASE Guard
  BY <1>2, Slices DEF Guard, HookOk
<1>3. CASE Open
  BY <1>3, Slices DEF Open
<1>4. CASE OpenDone
  BY <1>4 DEF OpenDone, Listed
<1>5. CASE ResolvePreferred \/ ResolveSymbol
  BY <1>5 DEF ResolvePreferred, ResolveSymbol, FinishInstall, HookOk
<1>6. CASE Fallback
  BY <1>6 DEF Fallback, FinishInstall, HookOk
<1>7. CASE Replace \/ FailReplace
  BY <1>7 DEF Replace, FailReplace
<1>8. CASE Publish
  BY <1>8 DEF Publish, HookOk
<1>9. ASSUME NEW image \in Image, Load(image) \/ Unload(image) PROVE Opened'
  BY <1>9 DEF Load, Unload
<1>10. ASSUME NEW h \in Hook, Learn(h) \/ Forget(h) PROVE Opened'
  BY <1>10 DEF Learn, Forget
<1>11. CASE UNCHANGED vars
  BY <1>11 DEF vars
<1>12. QED
  BY <1>1, <1>2, <1>3, <1>4, <1>5, <1>6, <1>7, <1>8, <1>9, <1>10, <1>11
  DEF Next, Step, Program

\* Whatever arrives or goes meanwhile, a hook leaves the images it names only if
\* they lack its symbol.
THEOREM ScopeTheorem == Spec => []LandsInScope
<1>1. Init => Opened /\ OutOfScope /\ Aimed /\ LandsInScope
  BY DEF Init, Opened, OutOfScope, Aimed, LandsInScope
<1>2. ScopeInv /\ ComTypeOK' /\ [Next]_vars
        => Opened' /\ OutOfScope' /\ Aimed' /\ LandsInScope'
  <2> SUFFICES ASSUME ScopeInv, ComTypeOK', [Next]_vars
               PROVE  Opened' /\ OutOfScope' /\ Aimed' /\ LandsInScope'
    OBVIOUS
  <2>0. Opened'
    BY OpenedStep DEF ScopeInv
  <2> SUFFICES OutOfScope' /\ Aimed' /\ LandsInScope'
    BY <2>0
  <2> USE DEF ScopeInv, ComTypeOK, OutOfScope, Aimed, LandsInScope, Goto, End,
              Env, loader
  <2>1. CASE Call \/ Guard \/ Open \/ OpenDone
    BY <2>1 DEF Call, Guard, HookOk, Open, OpenDone
  <2>2. CASE ResolvePreferred
    BY <2>2 DEF ResolvePreferred, FinishInstall, HookOk, Acceptable
  <2>3. CASE ResolveSymbol
    <3>1. Scope(idx) = Listed(ResolveSlice(idx))
      BY <2>3 DEF ResolveSymbol, Scope
    <3>2. \A image \in Scope(idx) : Steady(image)
      BY <2>3, Slices DEF ResolveSymbol, Opened
    <3>3. CASE Visible(idx) = {} /\ pc' = "fallback"
      BY <2>3, <3>2, <3>3 DEF ResolveSymbol, Visible, Steady
    <3>4. ASSUME NEW f \in Function, Finds(idx, ResolveSlice(idx), f),
                 target' = f, pc' = "replace"
          PROVE  OutOfScope' /\ Aimed' /\ LandsInScope'
      <4>1. Acceptable(idx, f)
        BY <3>1, <3>2, <3>4, FindsAcceptable
      <4>2. QED
        BY <2>3, <3>4, <4>1 DEF ResolveSymbol, Acceptable
    <3>5. \/ Visible(idx) = {} /\ pc' = "fallback"
          \/ \E f \in Function : /\ Finds(idx, ResolveSlice(idx), f)
                                 /\ target' = f /\ pc' = "replace"
      BY <2>3 DEF ResolveSymbol
    <3>6. QED
      <4> HIDE DEF ScopeInv, ComTypeOK, OutOfScope, Aimed, LandsInScope
      <4> QED
        BY <3>3, <3>4, <3>5
  <2>4. CASE Fallback
    <3>1. CASE pc' # "replace"
      BY <2>4, <3>1 DEF Fallback, FinishInstall, HookOk
    <3>2. ASSUME NEW f \in Function, Finds(idx, InstallSlice(idx), f),
                 target' = f, pc' = "replace"
          PROVE  OutOfScope' /\ Aimed' /\ LandsInScope'
      <4>1. CASE RouteOf[idx] = "symbol"
        BY <2>4, <3>2, <4>1 DEF Fallback, FinishInstall, HookOk, Acceptable
      <4>2. CASE RouteOf[idx] # "symbol"
        <5>1. Scope(idx) = Listed(InstallSlice(idx))
          BY <4>2 DEF Scope
        <5>2. \A image \in Scope(idx) : Steady(image)
          BY <2>4, Slices DEF Fallback, Opened
        <5>3. Acceptable(idx, f)
          BY <3>2, <5>1, <5>2, FindsAcceptable
        <5>4. QED
          BY <2>4, <3>2, <5>3 DEF Fallback, FinishInstall, HookOk, Acceptable
      <4>3. QED
        BY <4>1, <4>2
    <3>3. \/ pc' # "replace"
          \/ \E f \in Function : /\ Finds(idx, InstallSlice(idx), f)
                                 /\ target' = f /\ pc' = "replace"
      BY <2>4 DEF Fallback, FinishInstall, HookOk
    <3>4. QED
      <4> HIDE DEF ScopeInv, ComTypeOK, OutOfScope, Aimed, LandsInScope
      <4> QED
        BY <3>1, <3>2, <3>3
  <2>5. CASE Replace \/ FailReplace
    BY <2>5 DEF Replace, FailReplace
  <2>6. CASE Publish
    BY <2>6 DEF Publish, HookOk
  <2>7. ASSUME NEW image \in Image, Load(image) \/ Unload(image)
        PROVE  OutOfScope' /\ Aimed' /\ LandsInScope'
    BY <2>7 DEF Load, Unload, Acceptable
  <2>8. ASSUME NEW h \in Hook, Learn(h) \/ Forget(h)
        PROVE  OutOfScope' /\ Aimed' /\ LandsInScope'
    BY <2>8 DEF Learn, Forget
  <2>9. CASE UNCHANGED vars
    BY <2>9 DEF vars
  <2>10. QED
    BY <2>1, <2>2, <2>3, <2>4, <2>5, <2>6, <2>7, <2>8, <2>9
    DEF Next, Step, Program
<1>3. QED
  BY <1>1, <1>2, ComTypes, PTL DEF Spec, ScopeInv

------------------------------------------------------------------------------
(* The second lookup.                                                        *)

\* What a symbol hook sees after its first lookup has come since.
SeenLate == pc = "fallback" /\ RouteOf[idx] = "symbol" =>
              \A f \in Visible(idx) : HomeOf[f] \in late

\* The second lookup of a symbol hook finds nothing that was there at the first.
THEOREM SecondLookupTheorem == Spec => SecondLookupIsLate
<1>1. Init => SeenLate
  BY DEF Init, SeenLate
<1>2. ComTypeOK /\ SeenLate /\ [Next]_vars => SeenLate'
  <2> SUFFICES ASSUME ComTypeOK, SeenLate, [Next]_vars
               PROVE  SeenLate'
    OBVIOUS
  <2> USE DEF SeenLate, Visible, Goto, End, Env, loader
  <2>1. CASE Call \/ Guard \/ Open \/ OpenDone
    BY <2>1 DEF Call, Guard, HookOk, Open, OpenDone
  <2>2. CASE ResolvePreferred \/ ResolveSymbol
    BY <2>2 DEF ResolvePreferred, ResolveSymbol, FinishInstall, HookOk
  <2>3. CASE Fallback
    BY <2>3 DEF Fallback, FinishInstall, HookOk
  <2>4. CASE Replace \/ FailReplace \/ Publish
    BY <2>4 DEF Replace, FailReplace, Publish, HookOk
  <2>5. ASSUME NEW image \in Image, Load(image) \/ Unload(image)
        PROVE  SeenLate'
    BY <2>5 DEF Load, Unload
  <2>6. ASSUME NEW h \in Hook, Learn(h) \/ Forget(h)
        PROVE  SeenLate'
    BY <2>6 DEF Learn, Forget
  <2>7. CASE UNCHANGED vars
    BY <2>7 DEF vars
  <2>8. QED
    BY <2>1, <2>2, <2>3, <2>4, <2>5, <2>6, <2>7 DEF Next, Step, Program
<1>3. ComTypeOK /\ SeenLate /\ [Next]_vars =>
        [pc = "fallback" /\ pc' = "replace" /\ RouteOf[idx] = "symbol"
           => HomeOf[target'] \in late]_vars
  <2> SUFFICES ASSUME SeenLate, Next, pc = "fallback", pc' = "replace",
                      RouteOf[idx] = "symbol"
               PROVE  HomeOf[target'] \in late
    OBVIOUS
  <2>1. Fallback
    BY DEF Next, Step, Program, Call, Guard, Open, OpenDone, ResolvePreferred,
           ResolveSymbol, Replace, FailReplace, Publish, Load, Unload, Learn,
           Forget, Env
  <2>2. target' \in Visible(idx)
    BY <2>1 DEF Fallback, FinishInstall, Finds, HookOk, End
  <2>3. QED
    BY <2>2 DEF SeenLate
<1>4. QED
  BY <1>1, <1>2, <1>3, ComTypes, PTL DEF Spec, SecondLookupIsLate

------------------------------------------------------------------------------
(* References.                                                               *)

\* A reference keeps its image, an image without one is the program's, and a
\* function that is about to be replaced was in the process when it was found.
Held == /\ primed \subseteq mapped
        /\ mapped \ primed \subseteq lent
        /\ pc = "replace" => HomeOf[target] \in mapped \cup lent
        /\ result = "crash" => pc = "dead"

\* Only images that the program loaded itself can go before a hook gets there.
THEOREM PrimedTheorem == Spec => []PrimedOutlives
<1>1. Init => Held /\ PrimedOutlives
  BY DEF Init, Held, PrimedOutlives
<1>2. ComTypeOK /\ Held /\ PrimedOutlives /\ ComTypeOK' /\ [Next]_vars
        => Held' /\ PrimedOutlives'
  <2> SUFFICES ASSUME ComTypeOK, Held, PrimedOutlives, ComTypeOK', [Next]_vars
               PROVE  Held' /\ PrimedOutlives'
    OBVIOUS
  <2> USE DEF ComTypeOK, Held, PrimedOutlives, Goto, End, Env, loader
  <2>1. CASE Call \/ Guard \/ Open \/ OpenDone
    BY <2>1 DEF Call, Guard, HookOk, Open, OpenDone
  <2>2. CASE ResolvePreferred
    BY <2>2 DEF ResolvePreferred, FinishInstall, HookOk
  <2>3. CASE ResolveSymbol
    BY <2>3 DEF ResolveSymbol, Finds, Visible
  <2>4. CASE Fallback
    BY <2>4 DEF Fallback, FinishInstall, HookOk, Finds, Visible
  <2>5. CASE Replace \/ FailReplace \/ Publish
    BY <2>5 DEF Replace, FailReplace, Publish, HookOk
  <2>6. ASSUME NEW image \in Image, Load(image) \/ Unload(image)
        PROVE  Held' /\ PrimedOutlives'
    BY <2>6 DEF Load, Unload
  <2>7. ASSUME NEW h \in Hook, Learn(h) \/ Forget(h)
        PROVE  Held' /\ PrimedOutlives'
    BY <2>7 DEF Learn, Forget
  <2>8. CASE UNCHANGED vars
    BY <2>8 DEF vars
  <2>9. QED
    BY <2>1, <2>2, <2>3, <2>4, <2>5, <2>6, <2>7, <2>8 DEF Next, Step, Program
<1>3. QED
  BY <1>1, <1>2, ComTypes, PTL DEF Spec

------------------------------------------------------------------------------
(* Every call ends, as far as that can be said without fairness: a pair of   *)
(* numbers that each step of the call makes smaller, and that the program    *)
(* does not change.                                                          *)

Calling == pc \notin {"idle", "dead"}

\* How far the installer of the hook at hand is from its end. It opens its images
\* one by one and then goes from one lookup to the next.
InstallerLeft ==
  CASE pc = "guard"    -> Len(ToOpen(idx)) + 6
    [] pc = "open"     -> Len(ToOpen(idx)) - opened + 5
    [] pc = "resolve"  -> 4
    [] pc = "fallback" -> 3
    [] pc = "replace"  -> 2
    [] pc = "publish"  -> 1

CallLeft == IF Calling THEN <<N + 1 - idx, InstallerLeft>> ELSE <<0, 0>>

NatOrder  == {ss \in Nat \X Nat : ss[1] < ss[2]}
CallOrder == LexPairOrdering(NatOrder, NatOrder, Nat, Nat)

\* The images are opened in turn, to the last one.
OpensInTurn == pc = "open" => opened <= Len(ToOpen(idx))

LEMMA OpensStep == ComTypeOK /\ OpensInTurn /\ [Next]_vars => OpensInTurn'
<1> SUFFICES ASSUME ComTypeOK, OpensInTurn, [Next]_vars, pc' = "open"
             PROVE  opened' <= Len(ToOpen(idx'))
  BY DEF OpensInTurn
<1>1. idx \in Hook /\ Len(ToOpen(idx)) \in Nat /\ opened \in Nat
  BY Slices DEF ComTypeOK
<1>2. CASE Guard
  <2>1. opened' = 0 /\ idx' = idx
    BY <1>2 DEF Guard, HookOk, Goto
  <2>2. QED
    BY <1>1, <2>1
<1>3. CASE Open
  <2>1. opened < Len(ToOpen(idx)) /\ opened' = opened + 1 /\ idx' = idx
    BY <1>3 DEF Open, End
  <2>2. QED
    BY <1>1, <2>1
<1>4. CASE ~Guard /\ ~Open
  <2>1. pc = "open" /\ idx' = idx /\ opened' = opened
    BY <1>4 DEF Next, Step, Program, vars, Call, OpenDone, ResolvePreferred, ResolveSymbol,
                Fallback, Replace, FailReplace, Publish, FinishInstall, HookOk, End, Goto,
                Load, Unload, Learn, Forget, Env
  <2>2. QED
    BY <2>1 DEF OpensInTurn
<1>5. QED
  BY <1>2, <1>3, <1>4

LEMMA OpensInvariant == Spec => []OpensInTurn
<1>1. Init => OpensInTurn
  BY DEF Init, OpensInTurn
<1>2. QED
  BY <1>1, OpensStep, ComTypes, PTL DEF Spec

LeftTyped ==
  /\ CallLeft \in Nat \X Nat
  /\ Calling => /\ N + 1 - idx \in Nat \ {0} /\ InstallerLeft \in Nat \ {0}
                /\ CallLeft = <<N + 1 - idx, InstallerLeft>>

LEMMA CallLeftTypes == ComTypeOK /\ OpensInTurn => LeftTyped
<1> SUFFICES ASSUME ComTypeOK, OpensInTurn PROVE LeftTyped
  OBVIOUS
<1>1. idx \in 1 .. N /\ N \in Nat /\ Len(ToOpen(idx)) \in Nat /\ opened \in Nat
  BY Slices, CountAssumption DEF ComTypeOK, Hook
<1>2. Calling => InstallerLeft \in Nat \ {0}
  <2>1. CASE pc = "open"
    <3>1. opened <= Len(ToOpen(idx))
      BY <2>1 DEF OpensInTurn
    <3>2. InstallerLeft = Len(ToOpen(idx)) - opened + 5
      BY <2>1 DEF InstallerLeft
    <3>3. QED
      BY <1>1, <3>1, <3>2
  <2>2. CASE pc = "guard"
    <3>1. InstallerLeft = Len(ToOpen(idx)) + 6
      BY <2>2 DEF InstallerLeft
    <3>2. QED
      BY <1>1, <3>1
  <2>3. CASE pc \in {"resolve", "fallback", "replace", "publish"}
    BY <2>3 DEF InstallerLeft
  <2>4. QED
    BY <2>1, <2>2, <2>3 DEF Calling, ComTypeOK
<1>3. QED
  BY <1>1, <1>2 DEF LeftTyped, CallLeft

\* The order of pairs, and that it has no end of smaller and smaller ones.
LEMMA CallOrderMeans ==
  ASSUME NEW p \in Nat \X Nat, NEW q \in Nat \X Nat,
         p[1] < q[1] \/ (p[1] = q[1] /\ p[2] < q[2])
  PROVE  <<p, q>> \in CallOrder
<1>1. <<p[1], q[1]>> \in NatOrder \/ (p[1] = q[1] /\ <<p[2], q[2]>> \in NatOrder)
  BY DEF NatOrder
<1>2. QED
  BY <1>1 DEF CallOrder, LexPairOrdering

LEMMA CallOrderEnds == IsWellFoundedOn(CallOrder, Nat \X Nat)
<1>1. IsWellFoundedOn(NatOrder, Nat)
  BY NatLessThanWellFounded DEF NatOrder, OpToRel
<1>2. QED
  BY <1>1, WFLexPairOrdering DEF CallOrder

\* The next hook, or the end of the call, is closer to the end than any installer.
LEMMA LoopFalls ==
  ASSUME ComTypeOK, LeftTyped, LeftTyped', Calling,
         HookOk \/ \E how \in {"err", "panic", "crash"} : End(how)
  PROVE  <<CallLeft', CallLeft>> \in CallOrder
<1>1. /\ N + 1 - idx \in Nat \ {0} /\ InstallerLeft \in Nat
      /\ CallLeft = <<N + 1 - idx, InstallerLeft>> /\ CallLeft' \in Nat \X Nat
  BY DEF LeftTyped
<1>2. CASE pc' \in {"idle", "dead"}
  <2>1. CallLeft' = <<0, 0>>
    BY <1>2 DEF CallLeft, Calling
  <2>2. QED
    BY <1>1, <2>1, CallOrderMeans
<1>3. CASE pc' = "guard" /\ idx' = idx + 1
  <2>1. InstallerLeft' \in Nat /\ N + 1 - idx' \in Nat /\ CallLeft' = <<N + 1 - idx', InstallerLeft'>>
    BY <1>3 DEF LeftTyped, Calling
  <2>2. N + 1 - idx' < N + 1 - idx
    BY <1>3, CountAssumption DEF ComTypeOK, Hook
  <2>3. QED
    BY <1>1, <2>1, <2>2, CallOrderMeans
<1>4. QED
  BY <1>2, <1>3 DEF HookOk, End

\* And so is the next label of an installer.
LEMMA InstallerFalls ==
  ASSUME LeftTyped, LeftTyped', Calling, Calling',
         idx' = idx, InstallerLeft' < InstallerLeft
  PROVE  <<CallLeft', CallLeft>> \in CallOrder
<1>1. /\ N + 1 - idx \in Nat /\ InstallerLeft \in Nat
      /\ CallLeft = <<N + 1 - idx, InstallerLeft>>
  BY DEF LeftTyped
<1>2. InstallerLeft' \in Nat /\ CallLeft' = <<N + 1 - idx, InstallerLeft'>>
  BY DEF LeftTyped
<1>3. QED
  BY <1>1, <1>2, CallOrderMeans

LEMMA StepFalls ==
  ASSUME ComTypeOK, LeftTyped, LeftTyped', Calling, Step
  PROVE  <<CallLeft', CallLeft>> \in CallOrder
<1> DEFINE Ends == HookOk \/ \E how \in {"err", "panic", "crash"} : End(how)
<1>1. Len(ToOpen(idx)) \in Nat /\ opened \in Nat
  BY Slices DEF ComTypeOK
<1>2. CASE Ends
  BY <1>2, LoopFalls
<1>3. ASSUME ~Ends PROVE Calling' /\ idx' = idx /\ InstallerLeft' < InstallerLeft
  <2>1. CASE Guard
    <3>1. pc = "guard" /\ pc' = "open" /\ opened' = 0 /\ idx' = idx
      BY <1>3, <2>1 DEF Guard, Goto
    <3>2. InstallerLeft = Len(ToOpen(idx)) + 6 /\ InstallerLeft' = Len(ToOpen(idx)) - 0 + 5
      BY <3>1 DEF InstallerLeft
    <3>3. QED
      BY <1>1, <3>1, <3>2 DEF Calling
  <2>2. CASE Open
    <3>1. pc = "open" /\ pc' = "open" /\ opened' = opened + 1 /\ idx' = idx
      BY <1>3, <2>2 DEF Open
    <3>2. InstallerLeft = Len(ToOpen(idx)) - opened + 5
          /\ InstallerLeft' = Len(ToOpen(idx)) - (opened + 1) + 5
      BY <3>1 DEF InstallerLeft
    <3>3. QED
      BY <1>1, <3>1, <3>2 DEF Calling
  <2>3. CASE OpenDone
    <3>1. pc = "open" /\ pc' = "resolve" /\ opened = Len(ToOpen(idx)) /\ idx' = idx
      BY <2>3 DEF OpenDone, Goto
    <3>2. InstallerLeft = Len(ToOpen(idx)) - opened + 5 /\ InstallerLeft' = 4
      BY <3>1 DEF InstallerLeft
    <3>3. QED
      BY <1>1, <3>1, <3>2 DEF Calling
  <2>4. CASE ResolvePreferred \/ ResolveSymbol
    <3>1. pc = "resolve" /\ pc' \in {"fallback", "replace"} /\ idx' = idx
      BY <1>3, <2>4 DEF ResolvePreferred, ResolveSymbol, FinishInstall, Goto
    <3>2. InstallerLeft = 4 /\ InstallerLeft' \in {3, 2}
      BY <3>1 DEF InstallerLeft
    <3>3. QED
      BY <3>1, <3>2 DEF Calling
  <2>5. CASE Fallback
    <3>1. pc = "fallback" /\ pc' = "replace" /\ idx' = idx
      BY <1>3, <2>5 DEF Fallback, FinishInstall, Goto
    <3>2. InstallerLeft = 3 /\ InstallerLeft' = 2
      BY <3>1 DEF InstallerLeft
    <3>3. QED
      BY <3>1, <3>2 DEF Calling
  <2>6. CASE Replace
    <3>1. pc = "replace" /\ pc' = "publish" /\ idx' = idx
      BY <1>3, <2>6 DEF Replace, Goto
    <3>2. InstallerLeft = 2 /\ InstallerLeft' = 1
      BY <3>1 DEF InstallerLeft
    <3>3. QED
      BY <3>1, <3>2 DEF Calling
  <2>7. QED
    BY <1>3, <2>1, <2>2, <2>3, <2>4, <2>5, <2>6 DEF Step, Call, FailReplace, Publish, Calling
<1>4. QED
  BY <1>2, <1>3, InstallerFalls

LEMMA ProgramStays == ASSUME [Next]_vars, ~Step PROVE CallLeft' = CallLeft
<1>1. UNCHANGED <<pc, idx, opened>>
  BY DEF Next, Program, vars, Load, Unload, Learn, Forget, Env
<1>2. InstallerLeft' = InstallerLeft
  BY <1>1 DEF InstallerLeft
<1>3. QED
  BY <1>1, <1>2 DEF CallLeft, Calling

\* A call of install_registered_hooks takes finitely many steps, however the images
\* and objects come and go under it: it does not wait for an image, an export or an
\* instance, and it looks a symbol up twice and no more.
THEOREM ComEndsTheorem ==
  /\ IsWellFoundedOn(CallOrder, Nat \X Nat)
  /\ Spec => /\ [](CallLeft \in Nat \X Nat)
             /\ [][Calling => IF Step THEN <<CallLeft', CallLeft>> \in CallOrder
                              ELSE CallLeft' = CallLeft]_vars
<1>1. LeftTyped => CallLeft \in Nat \X Nat
  BY DEF LeftTyped
<1>2. ComTypeOK /\ LeftTyped /\ LeftTyped' /\ [Next]_vars
        => (Calling => IF Step THEN <<CallLeft', CallLeft>> \in CallOrder
                       ELSE CallLeft' = CallLeft)
  BY StepFalls, ProgramStays
<1>3. Spec => /\ [](CallLeft \in Nat \X Nat)
              /\ [][Calling => IF Step THEN <<CallLeft', CallLeft>> \in CallOrder
                               ELSE CallLeft' = CallLeft]_vars
  BY <1>1, <1>2, ComTypes, OpensInvariant, CallLeftTypes, PTL DEF Spec
<1>4. QED
  BY <1>3, CallOrderEnds
=============================================================================
