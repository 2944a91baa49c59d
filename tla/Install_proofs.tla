--------------------------- MODULE Install_proofs ---------------------------
(***************************************************************************)
(* Proofs about Install, for every number of threads, hooks and targets.   *)
(*                                                                         *)
(* Here: that the state keeps to its sets, and that Ok means installed. A  *)
(* caller at hook i has dealt with every hook before it, since the loop    *)
(* moves on only by HookOk (LoopTurn), and what is published stays so.     *)
(* And that a call has a bounded number of steps.                          *)
(***************************************************************************)
EXTENDS Install, TLAPS

\* The loop over HOOKS keeps its locals in their sets.
LEMMA LoopTypes ==
  ASSUME TypeOK, NEW th \in Thread, NEW label \in PC
  PROVE  Goto(th, label) \/ HookOk(th) \/ HookErr(th)
           => /\ pc' \in [Thread -> PC]
              /\ idx' \in [Thread -> Hook]
              /\ result' \in [Thread -> Result]
<1> DEFINE Typed == /\ pc' \in [Thread -> PC]
                    /\ idx' \in [Thread -> Hook]
                    /\ result' \in [Thread -> Result]
<1>1. Goto(th, label) => Typed
  BY DEF Goto, TypeOK
<1>2. HookErr(th) => Typed
  BY DEF HookErr, TypeOK, PC, Result
<1>3. ASSUME HookOk(th) PROVE Typed
  <2>1. pc' \in [Thread -> PC] /\ result' \in [Thread -> Result]
    BY <1>3 DEF HookOk, TypeOK, PC, Result
  <2>2. idx' \in [Thread -> Hook]
    <3>1. idx[th] \in Hook /\ (idx[th] < N => idx[th] + 1 \in Hook)
      BY CountAssumption DEF TypeOK, Hook
    <3>2. QED
      BY <1>3, <3>1 DEF HookOk, TypeOK
  <2>3. QED
    BY <2>1, <2>2
<1>4. QED
  BY <1>1, <1>2, <1>3

\* Every variable keeps to its set (the types of the statics and locals of
\* the generated installers).
THEOREM TypeCorrect == Spec => []TypeOK
<1>1. Init => TypeOK
  BY CountAssumption, TargetAssumption
  DEF Init, TypeOK, Hook, Impl, Real, Unset, PC, Result
<1>2. TypeOK /\ [Next]_vars => TypeOK'
  <2> SUFFICES ASSUME TypeOK, [Next]_vars PROVE TypeOK'
    OBVIOUS
  <2> USE DEF TypeOK, PC, process, locals
  <2>1. ASSUME NEW th \in Thread, Call(th) PROVE TypeOK'
    BY <2>1, CountAssumption DEF Call, Hook, Result
  <2>2. ASSUME NEW th \in Thread, Guard(th) PROVE TypeOK'
    BY <2>2, LoopTypes DEF Guard
  <2>3. ASSUME NEW th \in Thread, Resolve(th) PROVE TypeOK'
    <3>1. loaded' \in SUBSET Image
      BY <2>3, TargetAssumption DEF Resolve, LoadedBy
    <3>2. pc' \in [Thread -> PC] /\ idx' \in [Thread -> Hook] /\ result' \in [Thread -> Result]
      BY <2>3, LoopTypes DEF Resolve, FinishInstall
    <3>3. QED
      BY <2>3, <3>1, <3>2 DEF Resolve
  <2>4. ASSUME NEW th \in Thread, Displace(th) 
        PROVE /\ loaded' \in SUBSET Image
              /\ entry' \in [Target -> Impl]
              /\ original' \in [Hook -> Impl \cup {Unset}]
              /\ pc' \in [Thread -> PC]
              /\ idx' \in [Thread -> Hook]
              /\ held' \in [Thread -> Impl]
              /\ result' \in [Thread -> Result]
              /\ below' \in [Hook -> Impl \cup {Unset}]
    BY <2>4, TargetAssumption DEF Displace, Goto, Current, Site, Impl
  <2>5. ASSUME NEW th \in Thread, Replace(th) PROVE TypeOK'
    <3>1. CASE SwapMethod(th)
      BY <3>1, <2>4 DEF SwapMethod
    <3>2. CASE HookInline(th)
      BY <3>2, <2>4, TargetAssumption DEF HookInline, Site, Current
    <3>3. CASE RefuseInline(th) \/ FailPatch(th) \/ RefuseDetour(th)
      BY <3>3 DEF RefuseInline, FailPatch, RefuseDetour, HookErr, Result
    <3>4. CASE FailRelocate(th)
      BY <3>4, TargetAssumption DEF FailRelocate, HookErr, Current, Site, Impl, Result
    <3>5. CASE BeginDetour(th) \/ FailBegin(th) \/ AbortDetour(th)
      BY <3>5 DEF BeginDetour, FailBegin, AbortDetour, Goto, HookErr, Result
    <3>6. CASE CommitDetour(th)
      BY <3>6, <2>4 DEF CommitDetour
    <3>7. QED
      BY <2>5, <3>1, <3>2, <3>3, <3>4, <3>5, <3>6 DEF Replace
  <2>6. ASSUME NEW th \in Thread, Publish(th) PROVE TypeOK'
    BY <2>6, LoopTypes DEF Publish, Current
  <2>7. ASSUME NEW image \in Image, LoadImage(image) PROVE TypeOK'
    BY <2>7 DEF LoadImage
  <2>8. CASE UNCHANGED vars
    BY <2>8 DEF vars
  <2>9. QED
    BY <2>1, <2>2, <2>3, <2>5, <2>6, <2>7, <2>8 DEF Next, Step
<1>3. QED
  BY <1>1, <1>2, PTL DEF Spec

------------------------------------------------------------------------------
(* Ok means installed. The strengthening says it of the prefix of HOOKS that *)
(* a call has already walked.                                                *)

PrefixInstalled ==
  \A th \in Thread : \A h \in Hook \ Optional :
    result[th] = "ok" \/ (pc[th] # "idle" /\ h < idx[th]) => Installed(h)

\* How a step moves one thread's place in the loop.
Turn(th) ==
  \/ pc'[th] = pc[th] /\ idx'[th] = idx[th] /\ result'[th] = result[th]
  \/ pc'[th] = "guard" /\ idx'[th] = 1 /\ result'[th] = "none"
  \/ pc'[th] = "idle" /\ result'[th] = "err"
  \/ /\ pc[th] # "idle"
     /\ idx'[th] = idx[th] /\ result'[th] = result[th]
  \/ /\ pc[th] # "idle"
     /\ idx[th] \in Optional \/ original'[idx[th]] # Unset
     /\ \/ idx[th] < N /\ idx'[th] = idx[th] + 1 /\ result'[th] = result[th]
        \/ idx[th] = N /\ result'[th] = "ok"

\* Hence a call reaches the next hook only past an optional or installed one.
LEMMA LoopTurn ==
  ASSUME TypeOK, [Next]_vars PROVE \A th \in Thread : Turn(th)
<1> SUFFICES ASSUME NEW th \in Thread PROVE Turn(th)
  OBVIOUS
<1> USE DEF TypeOK, Turn, process, locals, Installed, Current
<1>1. ASSUME NEW u \in Thread, Call(u) PROVE Turn(th)
  BY <1>1 DEF Call
<1>2. ASSUME NEW u \in Thread, Guard(u) PROVE Turn(th)
  <2>1. CASE u = th /\ HookOk(th)
    <3>1. original'[idx[th]] # Unset
      BY <1>2, <2>1 DEF Guard, Goto, HookOk
    <3>2. QED
      BY <1>2, <2>1, <3>1 DEF Guard, HookOk
  <2>2. CASE ~ (u = th /\ HookOk(th))
    BY <1>2, <2>2 DEF Guard, HookOk, Goto
  <2>3. QED
    BY <2>1, <2>2
<1>3. ASSUME NEW u \in Thread, Resolve(u) PROVE Turn(th)
  BY <1>3 DEF Resolve, FinishInstall, HookOk, HookErr, Goto
<1>4. ASSUME NEW u \in Thread, Replace(u) PROVE Turn(th)
  <2>1. CASE SwapMethod(u) \/ HookInline(u) \/ CommitDetour(u)
    BY <2>1 DEF SwapMethod, HookInline, CommitDetour, Displace, Goto, At
  <2>2. CASE RefuseInline(u) \/ FailPatch(u) \/ FailRelocate(u)
    BY <2>2 DEF RefuseInline, FailPatch, FailRelocate, HookErr
  <2>3. CASE RefuseDetour(u) \/ FailBegin(u) \/ AbortDetour(u)
    BY <2>3 DEF RefuseDetour, FailBegin, AbortDetour, HookErr
  <2>4. CASE BeginDetour(u)
    BY <2>4 DEF BeginDetour, Goto, At
  <2>5. QED
    BY <1>4, <2>1, <2>2, <2>3, <2>4 DEF Replace
<1>5. ASSUME NEW u \in Thread, Publish(u) PROVE Turn(th)
  <2>1. original'[idx[u]] # Unset
    BY <1>5 DEF Publish, Unset, Impl, Hook, Real
  <2>2. CASE u = th
    BY <1>5, <2>1, <2>2 DEF Publish, HookOk
  <2>3. CASE u # th
    BY <1>5, <2>3 DEF Publish, HookOk
  <2>4. QED
    BY <2>2, <2>3
<1>6. ASSUME NEW image \in Image, LoadImage(image) PROVE Turn(th)
  BY <1>6 DEF LoadImage
<1>7. CASE UNCHANGED vars
  BY <1>7 DEF vars
<1>8. QED
  BY <1>1, <1>2, <1>3, <1>4, <1>5, <1>6, <1>7 DEF Next, Step

\* A OnceLock that is set keeps its value.
LEMMA PublishedStays ==
  ASSUME TypeOK, [Next]_vars
  PROVE  \A h \in Hook : Installed(h) => original'[h] = original[h]
<1> USE DEF TypeOK, process, Installed
<1>1. ASSUME NEW u \in Thread, Publish(u)
      PROVE  \A h \in Hook : Installed(h) => original'[h] = original[h]
  BY <1>1 DEF Publish
<1>2. ASSUME ~ \E u \in Thread : Publish(u) PROVE original' = original
  BY <1>2 DEF Next, Step, vars, Call, Guard, Resolve, Replace, LoadImage,
              SwapMethod, HookInline, RefuseInline, FailPatch, FailRelocate,
              BeginDetour, RefuseDetour, FailBegin, CommitDetour, AbortDetour,
              Displace
<1>3. QED
  BY <1>1, <1>2

\* A call that returns Ok has left no required hook uninstalled, whatever
\* other callers, failures and retries did (lib.rs install_registered_hooks).
THEOREM OkTheorem == Spec => []OkMeansInstalled
<1>1. Init => PrefixInstalled
  BY DEF Init, PrefixInstalled
<1>2. TypeOK /\ PrefixInstalled /\ [Next]_vars => PrefixInstalled'
  <2> SUFFICES ASSUME TypeOK, PrefixInstalled, [Next]_vars,
                      NEW th \in Thread, NEW h \in Hook \ Optional,
                      result'[th] = "ok" \/ (pc'[th] # "idle" /\ h < idx'[th])
               PROVE  Installed(h)'
    BY DEF PrefixInstalled
  <2>1. Turn(th)
    BY LoopTurn
  <2>2. Installed(h) => Installed(h)'
    BY PublishedStays DEF Installed
  <2>3. idx[th] \in 1 .. N /\ h \in 1 .. N /\ N \in Nat
    BY CountAssumption DEF TypeOK, Hook
  <2>4. \/ result[th] = "ok" \/ (pc[th] # "idle" /\ h < idx[th])
        \/ h = idx[th] /\ original'[h] # Unset
    <3>1. CASE /\ pc[th] # "idle"
               /\ idx[th] \in Optional \/ original'[idx[th]] # Unset
               /\ \/ /\ idx[th] < N /\ idx'[th] = idx[th] + 1
                     /\ result'[th] = result[th]
                  \/ idx[th] = N /\ result'[th] = "ok"
      <4>1. result[th] = "ok" \/ h <= idx[th]
        BY <2>3, <3>1
      <4>2. QED
        BY <2>3, <3>1, <4>1
    <3>2. CASE idx'[th] = 1 /\ result'[th] = "none"
      BY <2>3, <3>2
    <3>3. QED
      BY <2>1, <2>3, <3>1, <3>2 DEF Turn
  <2>5. QED
    BY <2>2, <2>4 DEF PrefixInstalled, Installed
<1>3. PrefixInstalled => OkMeansInstalled
  BY DEF PrefixInstalled, OkMeansInstalled
<1>4. QED
  BY <1>1, <1>2, <1>3, TypeCorrect, PTL DEF Spec

------------------------------------------------------------------------------
(* Every call ends. What is proved is the part without fairness: a call has  *)
(* a number of steps left that each of its own steps makes smaller and that  *)
(* nobody else changes.                                                      *)

\* The steps that th's call has left at most.
StepsOf(label) == CASE label = "guard"   -> 5
                    [] label = "resolve" -> 4
                    [] label = "replace" -> 3
                    [] label = "commit"  -> 2
                    [] label = "publish" -> 1

StepsLeft(th) == IF pc[th] = "idle" THEN 0 ELSE (N - idx[th]) * 5 + StepsOf(pc[th])

\* A step inside a call comes closer to its end; no one else's makes it longer.
Approaches(th) ==
  pc[th] # "idle" =>
    IF Step(th) THEN StepsLeft(th)' < StepsLeft(th) ELSE StepsLeft(th)' = StepsLeft(th)

LEMMA StepsValues ==
  ASSUME NEW label \in PC \ {"idle"}
  PROVE  StepsOf(label) \in 1 .. 5
BY DEF PC, StepsOf

LEMMA StepsCounted ==
  ASSUME TypeOK, NEW th \in Thread
  PROVE  /\ StepsLeft(th) \in 0 .. 5 * N
         /\ pc[th] # "idle" => StepsLeft(th) >= 1
<1>1. idx[th] \in 1 .. N /\ N \in Nat /\ pc[th] \in PC
  BY CountAssumption DEF TypeOK, Hook
<1>2. CASE pc[th] = "idle"
  BY <1>1, <1>2 DEF StepsLeft
<1>3. CASE pc[th] # "idle"
  <2>1. StepsOf(pc[th]) \in 1 .. 5
    BY <1>1, <1>3, StepsValues
  <2>2. StepsLeft(th) = (N - idx[th]) * 5 + StepsOf(pc[th])
    BY <1>3 DEF StepsLeft
  <2>3. QED
    BY <1>1, <2>1, <2>2
<1>4. QED
  BY <1>2, <1>3

\* The loop: a label further down, the next hook, or the end of the call.
LEMMA LoopApproaches ==
  ASSUME TypeOK, TypeOK', NEW th \in Thread, pc[th] # "idle",
         NEW label \in PC \ {"idle"}, StepsOf(label) < StepsOf(pc[th]),
         Goto(th, label) \/ HookOk(th) \/ HookErr(th)
  PROVE  StepsLeft(th)' < StepsLeft(th)
<1>1. idx[th] \in 1 .. N /\ N \in Nat /\ pc[th] \in PC
  BY CountAssumption DEF TypeOK, Hook
<1>2. StepsOf(pc[th]) \in 1 .. 5 /\ StepsOf(label) \in 1 .. 5
  BY <1>1, StepsValues
<1>3. StepsLeft(th) = (N - idx[th]) * 5 + StepsOf(pc[th])
  BY DEF StepsLeft
<1>4. CASE Goto(th, label)
  <2>1. pc'[th] = label /\ idx'[th] = idx[th]
    BY <1>4 DEF Goto, TypeOK
  <2>2. StepsLeft(th)' = (N - idx[th]) * 5 + StepsOf(label)
    BY <2>1 DEF StepsLeft
  <2>3. QED
    BY <1>1, <1>2, <1>3, <2>2
<1>5. CASE pc'[th] = "idle"
  <2>1. StepsLeft(th)' = 0
    BY <1>5 DEF StepsLeft
  <2>2. QED
    BY <1>1, <1>2, <1>3, <2>1
<1>6. CASE pc'[th] = "guard" /\ idx'[th] = idx[th] + 1
  <2>1. StepsLeft(th)' = (N - (idx[th] + 1)) * 5 + 5
    BY <1>6 DEF StepsLeft, StepsOf
  <2>2. QED
    BY <1>1, <1>2, <1>3, <2>1
<1>7. QED
  BY <1>4, <1>5, <1>6 DEF HookOk, HookErr, TypeOK

LEMMA StepApproaches ==
  ASSUME TypeOK, TypeOK', NEW th \in Thread, pc[th] # "idle", Step(th)
  PROVE  StepsLeft(th)' < StepsLeft(th)
<1> DEFINE Falls(label) == /\ label \in PC \ {"idle"} /\ StepsOf(label) < StepsOf(pc[th])
                           /\ Goto(th, label) \/ HookOk(th) \/ HookErr(th)
<1>1. CASE Guard(th)
  <2>1. Falls("resolve")
    BY <1>1 DEF Guard, PC, StepsOf
  <2>2. QED
    BY <2>1, LoopApproaches
<1>2. CASE Resolve(th)
  <2>1. Falls("replace")
    BY <1>2 DEF Resolve, FinishInstall, PC, StepsOf
  <2>2. QED
    BY <2>1, LoopApproaches
<1>3. CASE BeginDetour(th)
  <2>1. Falls("commit")
    BY <1>3 DEF BeginDetour, At, PC, StepsOf
  <2>2. QED
    BY <2>1, LoopApproaches
<1>4. CASE Replace(th) /\ ~BeginDetour(th)
  <2>1. pc[th] \in {"replace", "commit"} /\ (Goto(th, "publish") \/ HookErr(th))
    BY <1>4 DEF Replace, SwapMethod, HookInline, RefuseInline, FailPatch, FailRelocate,
                RefuseDetour, FailBegin, CommitDetour, AbortDetour, Displace, At
  <2>2. Falls("publish")
    BY <2>1 DEF PC, StepsOf
  <2>3. QED
    BY <2>2, LoopApproaches
<1>5. CASE Publish(th)
  <2>1. HookOk(th) /\ pc[th] = "publish"
    BY <1>5 DEF Publish
  <2>2. idx[th] \in 1 .. N /\ N \in Nat
    BY CountAssumption DEF TypeOK, Hook
  <2>3. StepsLeft(th) = (N - idx[th]) * 5 + 1
    BY <2>1 DEF StepsLeft, StepsOf
  <2>4. \/ pc'[th] = "idle"
        \/ pc'[th] = "guard" /\ idx'[th] = idx[th] + 1
    BY <2>1 DEF HookOk, TypeOK
  <2>5. \/ StepsLeft(th)' = 0
        \/ StepsLeft(th)' = (N - (idx[th] + 1)) * 5 + 5
    BY <2>4 DEF StepsLeft, StepsOf
  <2>6. QED
    BY <2>2, <2>3, <2>5
<1>6. QED
  BY <1>1, <1>2, <1>3, <1>4, <1>5 DEF Step, Call

\* Only its own steps move a thread.
LEMMA OthersStay ==
  ASSUME TypeOK, NEW th \in Thread, [Next]_vars, ~Step(th)
  PROVE  pc'[th] = pc[th] /\ idx'[th] = idx[th]
<1> USE DEF TypeOK, process, locals
<1>1. ASSUME NEW u \in Thread, Step(u) PROVE pc'[th] = pc[th] /\ idx'[th] = idx[th]
  <2>1. u # th
    BY <1>1
  <2>2. CASE Call(u) \/ Guard(u) \/ Resolve(u) \/ Publish(u)
    BY <2>1, <2>2 DEF Call, Guard, Resolve, Publish, FinishInstall, HookOk, HookErr, Goto
  <2>3. CASE Replace(u)
    <3>1. \E label \in PC : Goto(u, label) \/ HookErr(u)
      BY <2>3 DEF Replace, SwapMethod, HookInline, RefuseInline, FailPatch, FailRelocate,
                  BeginDetour, RefuseDetour, FailBegin, CommitDetour, AbortDetour, Displace, PC
    <3>2. QED
      BY <2>1, <3>1 DEF Goto, HookErr
  <2>4. QED
    BY <1>1, <2>2, <2>3 DEF Step
<1>2. ASSUME NEW image \in Image, LoadImage(image) PROVE pc'[th] = pc[th] /\ idx'[th] = idx[th]
  BY <1>2 DEF LoadImage
<1>3. CASE UNCHANGED vars
  BY <1>3 DEF vars
<1>4. QED
  BY <1>1, <1>2, <1>3 DEF Next

\* A call of install_registered_hooks takes at most 5 steps a hook, whatever other
\* callers, failures and the program do: no failure is retried inside a call, and
\* nobody sends a thread back in its loop.
THEOREM InstallEndsTheorem ==
  Spec => /\ [](\A th \in Thread : StepsLeft(th) \in 0 .. 5 * N)
          /\ [][\A th \in Thread : Approaches(th)]_vars
<1>1. TypeOK => \A th \in Thread : StepsLeft(th) \in 0 .. 5 * N
  BY StepsCounted
<1>2. TypeOK /\ TypeOK' /\ [Next]_vars => \A th \in Thread : Approaches(th)
  <2> SUFFICES ASSUME TypeOK, TypeOK', [Next]_vars, NEW th \in Thread, pc[th] # "idle"
               PROVE  IF Step(th) THEN StepsLeft(th)' < StepsLeft(th)
                      ELSE StepsLeft(th)' = StepsLeft(th)
    BY DEF Approaches
  <2>1. CASE Step(th)
    BY <2>1, StepApproaches
  <2>2. CASE ~Step(th)
    <3>1. pc'[th] = pc[th] /\ idx'[th] = idx[th]
      BY <2>2, OthersStay
    <3>2. QED
      BY <2>2, <3>1 DEF StepsLeft
  <2>3. QED
    BY <2>1, <2>2
<1>3. QED
  BY <1>1, <1>2, TypeCorrect, PTL DEF Spec
=============================================================================
