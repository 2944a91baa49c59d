------------------------- MODULE InstallChain_proofs -------------------------
(***************************************************************************)
(* Proofs about what a replacement displaces: no replacement is left       *)
(* without its original, forwards do not loop, and installation implements *)
(* HookOnce.                                                               *)
(*                                                                         *)
(* For these a step is of one of four kinds: an engine puts a replacement  *)
(* in place (Placed), Dobby patches a target and reports a failure         *)
(* (Relocated), a thread publishes (Publish), or none of these (Plain).    *)
(* Lemma StepKinds sorts the actions; the invariants are proved by kind.   *)
(***************************************************************************)
EXTENDS Install_proofs

\* Every patch an engine makes is one it reports: no half-made Dobby hook.
FaultsReported == "relocate" \notin Faults

Placed(th) ==
  /\ pc[th] \in {"replace", "commit"}
  /\ Displace(th)
  /\ \/ EngineOf[Site(th)] # "dobby" /\ UNCHANGED registered
     \/ /\ EngineOf[Site(th)] = "dobby"
        /\ Site(th) \notin registered
        /\ registered' = registered \cup {Site(th)}

\* Where a thread is headed for a replacement it has found uninstalled.
Bound == {"resolve", "replace", "commit"}

Quietly ==
  /\ UNCHANGED <<registered, original, held, below>>
  /\ \A th \in Thread :
       /\ pc'[th] = "publish" <=> pc[th] = "publish"
       /\ pc[th] = "publish" => idx'[th] = idx[th]
       /\ pc'[th] \in Bound =>
            /\ idx'[th] = idx[th]
            /\ \/ pc[th] \in Bound
               \/ pc[th] = "guard" /\ ~Installed(idx[th])

Plain == Quietly /\ UNCHANGED entry

Relocated(th) == Quietly /\ FailRelocate(th)

LEMMA StepKinds ==
  ASSUME TypeOK, [Next]_vars
  PROVE  Plain \/ \E th \in Thread : Placed(th) \/ Relocated(th) \/ Publish(th)
<1> USE DEF TypeOK, process, locals, Plain, Quietly, Bound, Current, Installed
<1>1. ASSUME NEW u \in Thread, Call(u) PROVE Plain
  BY <1>1 DEF Call
<1>2. ASSUME NEW u \in Thread, Guard(u) PROVE Plain
  BY <1>2 DEF Guard, HookOk, Goto
<1>3. ASSUME NEW u \in Thread, Resolve(u) PROVE Plain
  BY <1>3 DEF Resolve, FinishInstall, HookOk, HookErr, Goto
<1>4. ASSUME NEW u \in Thread, Replace(u) PROVE Plain \/ Placed(u) \/ Relocated(u)
  <2>1. CASE SwapMethod(u) \/ HookInline(u) \/ CommitDetour(u)
    BY <2>1 DEF SwapMethod, HookInline, CommitDetour, Placed, At
  <2>2. CASE RefuseInline(u) \/ FailPatch(u)
    BY <2>2 DEF RefuseInline, FailPatch, HookErr, At
  <2>3. CASE RefuseDetour(u) \/ FailBegin(u) \/ AbortDetour(u)
    BY <2>3 DEF RefuseDetour, FailBegin, AbortDetour, HookErr, At
  <2>4. CASE BeginDetour(u)
    BY <2>4 DEF BeginDetour, Goto, At
  <2>5. CASE FailRelocate(u)
    BY <2>5 DEF FailRelocate, Relocated, HookErr, At
  <2>6. QED
    BY <1>4, <2>1, <2>2, <2>3, <2>4, <2>5 DEF Replace
<1>5. ASSUME NEW image \in Image, LoadImage(image) PROVE Plain
  BY <1>5 DEF LoadImage
<1>6. CASE UNCHANGED vars
  BY <1>6 DEF vars
<1>7. QED
  BY <1>1, <1>2, <1>3, <1>4, <1>5, <1>6 DEF Next, Step

LEMMA ReportedKinds ==
  ASSUME FaultsReported, TypeOK, [Next]_vars
  PROVE  Plain \/ \E th \in Thread : Placed(th) \/ Publish(th)
BY StepKinds DEF Relocated, FailRelocate, FaultsReported

------------------------------------------------------------------------------
(* No replacement without its original.                                      *)

\* A hook that was never placed runs nowhere and is nobody's original.
FreshUnused ==
  \A h \in Hook : below[h] = Unset =>
    /\ \A t \in Target : entry[t] # h
    /\ \A g \in Hook : below[g] # h

\* A hook that was placed is published or about to be.
Pending ==
  \A h \in Hook : below[h] # Unset /\ ~Installed(h)
    => \E th \in Thread : pc[th] = "publish" /\ idx[th] = h

\* The parts of Displace, with the functions applied.
LEMMA DisplaceParts ==
  ASSUME TypeOK, NEW th \in Thread, Placed(th)
  PROVE  /\ idx[th] \in Hook /\ Site(th) \in Target /\ Site(th) = TargetOf[idx[th]]
         /\ \A t \in Target :
              entry'[t] = IF t = Site(th) THEN idx[th] ELSE entry[t]
         /\ \A h \in Hook :
              below'[h] = IF h = idx[th] THEN entry[Site(th)] ELSE below[h]
         /\ \A u \in Thread :
              /\ held'[u] = IF u = th THEN entry[Site(th)] ELSE held[u]
              /\ pc'[u] = IF u = th THEN "publish" ELSE pc[u]
         /\ original' = original
         /\ idx' = idx
         /\ pc[th] \in {"replace", "commit"}
         /\ entry[Site(th)] \in Impl
BY TargetAssumption DEF TypeOK, Placed, Displace, Goto, Site, Current

\* The parts of Publish.
LEMMA PublishParts ==
  ASSUME TypeOK, NEW th \in Thread, Publish(th)
  PROVE  /\ idx[th] \in Hook /\ held[th] \in Impl /\ pc[th] = "publish"
         /\ \A h \in Hook :
              original'[h] = IF h = idx[th] /\ original[h] = Unset
                             THEN held[th] ELSE original[h]
         /\ \A u \in Thread \ {th} : pc'[u] = pc[u] /\ idx'[u] = idx[u]
         /\ pc'[th] \in {"idle", "guard"}
         /\ UNCHANGED <<entry, registered, held, below>>
BY DEF TypeOK, Publish, HookOk, Current

LEMMA ImplTypes == Unset \notin Impl /\ Hook \subseteq Impl /\ Real \in Impl /\ Real \notin Hook
BY DEF Unset, Impl, Hook, Real

LEMMA FreshUnusedStep ==
  ASSUME FaultsReported, TypeOK, FreshUnused, [Next]_vars
  PROVE  FreshUnused'
<1>1. CASE Plain
  BY <1>1 DEF Plain, Quietly, FreshUnused
<1>2. ASSUME NEW th \in Thread, Placed(th) PROVE FreshUnused'
  BY <1>2, DisplaceParts, ImplTypes DEF FreshUnused
<1>3. ASSUME NEW th \in Thread, Publish(th) PROVE FreshUnused'
  BY <1>3, PublishParts DEF FreshUnused
<1>4. QED
  BY <1>1, <1>2, <1>3, ReportedKinds

LEMMA PendingStep ==
  ASSUME TypeOK, Pending, [Next]_vars
  PROVE  Pending'
<1> USE DEF Pending, Installed
<1>1. CASE Quietly
  BY <1>1 DEF Quietly
<1>2. ASSUME NEW th \in Thread, Placed(th) PROVE Pending'
  BY <1>2, DisplaceParts
<1>3. ASSUME NEW th \in Thread, Publish(th) PROVE Pending'
  <2> SUFFICES ASSUME NEW h \in Hook, below'[h] # Unset, original'[h] = Unset
               PROVE  \E u \in Thread : pc'[u] = "publish" /\ idx'[u] = h
    OBVIOUS
  <2>1. h # idx[th] /\ original[h] = Unset /\ below[h] # Unset
    BY <1>3, PublishParts, ImplTypes
  <2>2. PICK u \in Thread : pc[u] = "publish" /\ idx[u] = h
    BY <2>1
  <2>3. QED
    BY <1>3, <2>1, <2>2, PublishParts
<1>4. QED
  BY <1>1, <1>2, <1>3, StepKinds DEF Plain, Relocated

\* A replacement in front of a target has its original published, or the
\* thread that put it there is about to: concurrent callers and failures
\* never leave `forward!()` with nothing to call.
THEOREM NoOrphanTheorem ==
  ASSUME FaultsReported PROVE Spec => []NoOrphanReplacement
<1> DEFINE IInv == FreshUnused /\ Pending
<1>1. Init => IInv
  BY ImplTypes DEF Init, FreshUnused, Pending, Unset, Real, Hook
<1>2. TypeOK /\ IInv /\ [Next]_vars => IInv'
  BY FreshUnusedStep, PendingStep
<1>3. TypeOK /\ IInv => NoOrphanReplacement
  BY DEF FreshUnused, Pending, NoOrphanReplacement, Current
<1>4. QED
  BY <1>1, <1>2, <1>3, TypeCorrect, PTL DEF Spec

------------------------------------------------------------------------------
(* A hook is placed once. Without order this fails: two callers may both see *)
(* the hook's OnceLock empty and both replace. It holds where every engine   *)
(* refuses a second replacement, or one caller runs at a time.               *)

Orderly == Serial \/ \A t \in Target : EngineOf[t] = "dobby"

\* Dobby knows the address of every hook it has placed.
Registered ==
  \A h \in Hook : below[h] # Unset /\ EngineOf[TargetOf[h]] = "dobby"
    => TargetOf[h] \in registered

\* With another engine, a caller past the guard has a hook never placed.
Unclaimed ==
  \A th \in Thread : pc[th] \in Bound /\ EngineOf[Site(th)] # "dobby"
    => below[idx[th]] = Unset

PlacedOnce == Registered /\ Unclaimed

LEMMA PlacedFresh ==
  ASSUME TypeOK, PlacedOnce, NEW th \in Thread, Placed(th)
  PROVE  below[idx[th]] = Unset
BY DisplaceParts DEF PlacedOnce, Registered, Unclaimed, Placed, Bound

LEMMA PlacedOnceStep ==
  ASSUME TypeOK, Orderly, Orderly', Pending, PlacedOnce, [Next]_vars
  PROVE  PlacedOnce'
<1> USE DEF PlacedOnce, Registered, Unclaimed
<1>1. CASE Quietly
  <2>1. Registered'
    BY <1>1 DEF Quietly
  <2>2. ASSUME NEW th \in Thread, pc'[th] \in Bound,
               EngineOf[TargetOf[idx'[th]]] # "dobby"
        PROVE  below'[idx'[th]] = Unset
    <3>1. idx'[th] = idx[th] /\ below' = below /\ idx[th] \in Hook
      BY <1>1, <2>2 DEF Quietly, TypeOK
    <3>2. CASE pc[th] \in Bound
      BY <2>2, <3>1, <3>2 DEF Site, Current
    <3>3. CASE pc[th] = "guard" /\ ~Installed(idx[th])
      <4>1. Serial
        BY <2>2, <3>1, TargetAssumption DEF Orderly
      <4>2. \A u \in Thread : pc[u] # "publish"
        BY <3>3, <4>1 DEF Serial
      <4>3. QED
        BY <3>1, <3>3, <4>2 DEF Pending
    <3>4. QED
      BY <1>1, <2>2, <3>2, <3>3 DEF Quietly
  <2>3. QED
    BY <2>1, <2>2 DEF Site, Current
<1>2. ASSUME NEW th \in Thread, Placed(th) PROVE PlacedOnce'
  <2>1. Registered'
    BY <1>2, DisplaceParts DEF Placed
  <2>2. ASSUME NEW u \in Thread, pc'[u] \in Bound,
               EngineOf[TargetOf[idx'[u]]] # "dobby"
        PROVE  FALSE
    <3>1. Serial' /\ u # th /\ pc'[th] = "publish"
      BY <1>2, <2>2, DisplaceParts, TargetAssumption DEF Orderly, Bound, TypeOK
    <3>2. QED
      BY <2>2, <3>1 DEF Serial, Bound
  <2>3. QED
    BY <2>1, <2>2 DEF Site, Current
<1>3. ASSUME NEW th \in Thread, Publish(th) PROVE PlacedOnce'
  BY <1>3, PublishParts DEF Site, Current, Bound
<1>4. QED
  BY <1>1, <1>2, <1>3, StepKinds DEF Plain, Relocated

------------------------------------------------------------------------------
(* The chain of displaced implementations.                                   *)

\* What is published is what was displaced.
Published ==
  /\ \A h \in Hook : Installed(h) => original[h] = below[h]
  /\ \A th \in Thread : pc[th] = "publish" => held[th] = below[idx[th]]

\* Following what hooks displaced, one leaves every set of hooks.
BelowAcyclic ==
  \A S \in SUBSET Hook : S # {} => \E h \in S : below[h] \notin S

\* The genuine implementation and every placed hook are in the chain of t.
Whole(t) ==
  \A x \in {Real} \cup {h \in Hook : TargetOf[h] = t /\ below[h] # Unset} :
    entry[t] = x \/ \E g \in Hook : g # x /\ TargetOf[g] = t /\ below[g] = x

Complete == \A t \in Target : Whole(t)

\* What holds of claims on a hook whatever Dobby reports or hides.
Claims == Pending /\ PlacedOnce /\ Published

Chain == FreshUnused /\ Claims /\ BelowAcyclic /\ Complete

LEMMA ChainInit == Init => Chain
<1> SUFFICES ASSUME Init PROVE Chain
  OBVIOUS
<1> USE ImplTypes DEF Init
<1>1. FreshUnused /\ Pending
  BY DEF FreshUnused, Pending, Unset, Real, Hook
<1>2. PlacedOnce
  BY DEF PlacedOnce, Registered, Unclaimed, Bound
<1>3. Published /\ BelowAcyclic
  BY DEF Published, Installed, BelowAcyclic
<1>4. Complete
  BY DEF Complete, Whole
<1>5. QED
  BY <1>1, <1>2, <1>3, <1>4 DEF Chain, Claims

LEMMA PublishedStep ==
  ASSUME TypeOK, PlacedOnce, Published, [Next]_vars
  PROVE  Published'
<1> USE DEF Published, Installed
<1>1. CASE Quietly
  BY <1>1 DEF Quietly
<1>2. ASSUME NEW th \in Thread, Placed(th) PROVE Published'
  <2>1. below[idx[th]] = Unset
    BY <1>2, PlacedFresh
  <2>2. original[idx[th]] = Unset
    BY <1>2, <2>1, DisplaceParts
  <2>3. \A u \in Thread \ {th} : pc[u] = "publish" => idx[u] # idx[th]
    BY <2>1, ImplTypes DEF TypeOK
  <2>4. QED
    BY <1>2, <2>2, <2>3, DisplaceParts DEF TypeOK
<1>3. ASSUME NEW th \in Thread, Publish(th) PROVE Published'
  BY <1>3, PublishParts DEF TypeOK
<1>4. QED
  BY <1>1, <1>2, <1>3, StepKinds DEF Plain, Relocated

LEMMA BelowAcyclicStep ==
  ASSUME FaultsReported, TypeOK, FreshUnused, PlacedOnce, BelowAcyclic, [Next]_vars
  PROVE  BelowAcyclic'
<1>1. CASE UNCHANGED below
  BY <1>1 DEF BelowAcyclic
<1>2. ASSUME NEW th \in Thread, Placed(th),
             NEW S \in SUBSET Hook, S # {}
      PROVE  \E h \in S : below'[h] \notin S
  <2> DEFINE c == idx[th]
  <2>1. below[c] = Unset /\ c \in Hook
    BY <1>2, PlacedFresh, DisplaceParts
  <2>2. CASE c \notin S
    BY <1>2, <2>2, DisplaceParts DEF BelowAcyclic
  <2>3. CASE S = {c}
    BY <1>2, <2>1, <2>3, DisplaceParts DEF FreshUnused
  <2>4. CASE c \in S /\ S \ {c} # {}
    <3>1. PICK h \in S \ {c} : below[h] \notin S \ {c}
      BY <2>4 DEF BelowAcyclic
    <3>2. below[h] # c
      BY <2>1, <3>1 DEF FreshUnused
    <3>3. QED
      BY <1>2, <3>1, <3>2, DisplaceParts
  <2>5. QED
    BY <2>2, <2>3, <2>4
<1>3. ASSUME NEW th \in Thread, Publish(th) PROVE UNCHANGED below
  BY <1>3, PublishParts
<1>4. QED
  BY <1>1, <1>2, <1>3, ReportedKinds DEF Plain, Quietly, BelowAcyclic

\* A placed replacement takes the chain of its target under it.
LEMMA WholeStep ==
  ASSUME TypeOK, NEW th \in Thread, Placed(th), below[idx[th]] = Unset,
         NEW t \in Target, Whole(t)
  PROVE  Whole(t)'
<1> DEFINE c == idx[th]
<1> SUFFICES ASSUME NEW x \in {Real} \cup {h \in Hook : TargetOf[h] = t /\ below'[h] # Unset}
             PROVE  entry'[t] = x \/ \E g \in Hook : g # x /\ TargetOf[g] = t /\ below'[g] = x
  BY DEF Whole
<1>1. c \in Hook /\ TargetOf[c] = Site(th)
  BY DisplaceParts
<1>2. CASE x = c
  BY <1>1, <1>2, DisplaceParts, ImplTypes
<1>3. CASE x # c /\ entry[t] = x
  BY <1>1, <1>3, DisplaceParts
<1>4. CASE x # c /\ entry[t] # x
  <2>1. x \in {Real} \cup {h \in Hook : TargetOf[h] = t /\ below[h] # Unset}
    BY <1>4, DisplaceParts
  <2>2. PICK g \in Hook : g # x /\ TargetOf[g] = t /\ below[g] = x
    BY <1>4, <2>1 DEF Whole
  <2>3. g # c
    BY <2>1, <2>2, ImplTypes
  <2>4. below'[g] = x
    BY <2>2, <2>3, DisplaceParts
  <2>5. QED
    BY <2>2, <2>4
<1>5. QED
  BY <1>2, <1>3, <1>4

LEMMA CompleteStep ==
  ASSUME FaultsReported, TypeOK, PlacedOnce, Complete, [Next]_vars
  PROVE  Complete'
<1>1. CASE UNCHANGED <<entry, below>>
  BY <1>1 DEF Complete, Whole
<1>2. ASSUME NEW th \in Thread, Placed(th) PROVE Complete'
  BY <1>2, PlacedFresh, WholeStep DEF Complete
<1>3. ASSUME NEW th \in Thread, Publish(th) PROVE UNCHANGED <<entry, below>>
  BY <1>3, PublishParts
<1>4. QED
  BY <1>1, <1>2, <1>3, ReportedKinds DEF Plain, Quietly

LEMMA ClaimsInvariant == Spec /\ []Orderly => []Claims
<1>1. TypeOK /\ Orderly /\ Orderly' /\ Claims /\ [Next]_vars => Claims'
  BY PendingStep, PlacedOnceStep, PublishedStep DEF Claims
<1>2. Init => Claims
  BY ChainInit DEF Chain
<1>3. QED
  BY <1>1, <1>2, TypeCorrect, PTL DEF Spec

------------------------------------------------------------------------------
(* What holds of claims alone, failed relocations included.                  *)

\* Only an engine that succeeds changes what a hook has displaced.
LEMMA BelowStep ==
  ASSUME TypeOK, [Next]_vars, NEW h \in Hook, below'[h] # below[h]
  PROVE  \E th \in Thread : Placed(th) /\ idx[th] = h
BY StepKinds, DisplaceParts, PublishParts DEF Plain, Relocated, Quietly

\* No step puts in front of its target a hook that an engine has placed before.
LEMMA FrontStep ==
  ASSUME TypeOK, PlacedOnce, [Next]_vars,
         NEW h \in Hook, below[h] # Unset, entry'[TargetOf[h]] = h
  PROVE  entry[TargetOf[h]] = h
<1>1. TargetOf[h] \in Target
  BY TargetAssumption
<1>2. ASSUME NEW th \in Thread, Placed(th) PROVE entry[TargetOf[h]] = h
  BY <1>1, <1>2, PlacedFresh, DisplaceParts
<1>3. ASSUME NEW th \in Thread, Relocated(th) PROVE entry[TargetOf[h]] = h
  <2>1. /\ EngineOf[Site(th)] = "dobby" /\ Site(th) \notin registered
        /\ entry' = [entry EXCEPT ![Site(th)] = idx[th]]
    BY <1>3 DEF Relocated, FailRelocate, At, Current
  <2>2. TargetOf[h] # Site(th) \/ EngineOf[TargetOf[h]] # "dobby"
    BY <2>1 DEF PlacedOnce, Registered
  <2>3. QED
    BY <1>1, <2>1, <2>2 DEF TypeOK
<1>4. QED
  BY <1>2, <1>3, StepKinds, PublishParts DEF Plain

\* A hook that an engine has reported in place is not applied again, by any caller
\* at any time: it keeps what it displaced, and no later patch, half-made ones
\* included, brings it in front again ("applies each hook at most once").
THEOREM AppliedOnceTheorem == Spec /\ []Orderly => AppliedAtMostOnce
<1>1. TypeOK /\ Claims /\ [Next]_vars
        => [\A h \in Hook : below[h] # Unset =>
              /\ below'[h] = below[h]
              /\ entry'[TargetOf[h]] = h => entry[TargetOf[h]] = h]_vars
  BY BelowStep, PlacedFresh, FrontStep DEF Claims
<1>2. QED
  BY <1>1, ClaimsInvariant, TypeCorrect, PTL DEF Spec, AppliedAtMostOnce

\* A caller that is alone and past the guard has a hook never placed.
AloneUnclaimed == \A th \in Thread : pc[th] \in Bound => below[idx[th]] = Unset

LEMMA AloneUnclaimedStep ==
  ASSUME TypeOK, Serial, Serial', Pending, AloneUnclaimed, [Next]_vars
  PROVE  AloneUnclaimed'
<1> SUFFICES ASSUME NEW th \in Thread, pc'[th] \in Bound
             PROVE  below'[idx'[th]] = Unset
  BY DEF AloneUnclaimed
<1>1. CASE Quietly
  <2>1. idx'[th] = idx[th] /\ below' = below /\ idx[th] \in Hook
    BY <1>1 DEF Quietly, TypeOK
  <2>2. CASE pc[th] \in Bound
    BY <2>1, <2>2 DEF AloneUnclaimed
  <2>3. CASE pc[th] = "guard" /\ ~Installed(idx[th])
    <3>1. \A u \in Thread : pc[u] # "publish"
      BY <2>3 DEF Serial
    <3>2. QED
      BY <2>1, <2>3, <3>1 DEF Pending
  <2>4. QED
    BY <1>1, <2>2, <2>3 DEF Quietly
<1>2. ASSUME NEW u \in Thread, Placed(u) PROVE FALSE
  BY <1>2, DisplaceParts DEF Serial, Bound
<1>3. ASSUME NEW u \in Thread, Publish(u) PROVE below'[idx'[th]] = Unset
  <2>1. pc[u] = "publish" /\ pc'[u] \in {"idle", "guard"}
    BY <1>3, PublishParts
  <2>2. th # u
    BY <2>1 DEF Bound
  <2>3. pc[th] = pc'[th]
    BY <1>3, <2>2, PublishParts
  <2>4. QED
    BY <2>1, <2>2, <2>3 DEF Serial, Bound
<1>4. QED
  BY <1>1, <1>2, <1>3, StepKinds DEF Plain, Relocated

\* Callers that do not overlap get an error only over a hook that is not in
\* place: no retry fails because of what an earlier call installed.
THEOREM GenuineErrorsTheorem == Spec /\ []Serial => ErrorsAreGenuine
<1>1. TypeOK /\ Claims /\ Serial /\ Serial' /\ AloneUnclaimed /\ [Next]_vars
        => AloneUnclaimed'
  BY AloneUnclaimedStep DEF Claims
<1>2. Init => AloneUnclaimed
  BY DEF Init, AloneUnclaimed, Bound
<1>3. AloneUnclaimed /\ [Next]_vars
        => [\A th \in Thread : pc[th] = "replace" /\ result'[th] = "err"
              => below[Current(th)] = Unset]_vars
  BY DEF AloneUnclaimed, Bound, Current
<1>4. Serial => Orderly
  BY DEF Orderly
<1>5. QED
  BY <1>1, <1>2, <1>3, <1>4, ClaimsInvariant, TypeCorrect, PTL
     DEF Spec, ErrorsAreGenuine

\* A target that Dobby has patched without registering it, so that a hook of it is
\* in front of nothing; or that Dobby has hooked on top of that.
Ruined(t) ==
  /\ EngineOf[t] = "dobby"
  /\ entry[t] \in HooksOf(t)
  /\ \/ t \notin registered
     \/ /\ t \in registered
        /\ below[entry[t]] \in {entry[t]} \cup {g \in HooksOf(t) : below[g] = Unset}

Damage == \A t \in Target : Whole(t) \/ Ruined(t)

LEMMA DamageStep ==
  ASSUME TypeOK, PlacedOnce, Damage, [Next]_vars
  PROVE  Damage'
<1> SUFFICES ASSUME NEW t \in Target PROVE Whole(t)' \/ Ruined(t)'
  BY DEF Damage
<1>1. CASE UNCHANGED <<entry, registered, below>>
  BY <1>1 DEF Damage, Whole, Ruined
<1>2. ASSUME NEW th \in Thread, Placed(th) PROVE Whole(t)' \/ Ruined(t)'
  <2>1. below[idx[th]] = Unset
    BY <1>2, PlacedFresh
  <2>2. CASE Whole(t)
    BY <1>2, <2>1, <2>2, WholeStep
  <2>3. CASE Ruined(t) /\ t # Site(th)
    <3>1. /\ entry'[t] = entry[t]
          /\ t \in registered' <=> t \in registered
          /\ \A h \in HooksOf(t) : below'[h] = below[h]
      BY <1>2, <2>3, DisplaceParts DEF Placed, HooksOf
    <3>2. QED
      BY <2>3, <3>1 DEF Ruined
  <2>4. CASE Ruined(t) /\ t = Site(th)
    <3>1. t \notin registered /\ t \in registered'
      BY <1>2, <2>4 DEF Ruined, Placed
    <3>2. below[entry[t]] = Unset
      BY <2>4, <3>1 DEF Ruined, HooksOf, PlacedOnce, Registered
    <3>3. /\ idx[th] \in HooksOf(t) /\ entry'[t] = idx[th]
          /\ below'[idx[th]] = entry[t]
          /\ entry[t] # idx[th] => below'[entry[t]] = Unset
      BY <1>2, <2>4, <3>2, DisplaceParts DEF Ruined, HooksOf
    <3>4. QED
      BY <2>4, <3>1, <3>3 DEF Ruined
  <2>5. QED
    BY <2>2, <2>3, <2>4 DEF Damage
<1>3. ASSUME NEW th \in Thread, Relocated(th) PROVE Whole(t)' \/ Ruined(t)'
  <2>1. /\ EngineOf[Site(th)] = "dobby" /\ Site(th) \notin registered
        /\ entry' = [entry EXCEPT ![Site(th)] = idx[th]]
        /\ below' = below /\ registered' = registered
    BY <1>3 DEF Relocated, Quietly, FailRelocate, At, Current
  <2>2. idx[th] \in Hook /\ TargetOf[idx[th]] = Site(th) /\ Site(th) \in Target
    BY TargetAssumption DEF TypeOK, Site, Current
  <2>3. CASE t = Site(th)
    BY <2>1, <2>2, <2>3 DEF Ruined, HooksOf, TypeOK
  <2>4. CASE t # Site(th)
    <3>1. entry'[t] = entry[t]
      BY <2>1, <2>4 DEF TypeOK
    <3>2. QED
      BY <2>1, <3>1 DEF Damage, Whole, Ruined
  <2>5. QED
    BY <2>3, <2>4
<1>4. QED
  BY <1>1, <1>2, <1>3, StepKinds, PublishParts DEF Plain, Quietly

\* With every fault of every engine, a target that loses its genuine
\* implementation is one that Dobby patched and did not register; until it accepts a
\* hook no hook of the target is installed, and then one is, over a hook that has
\* only its fallback or over itself.
THEOREM DamageTheorem == Spec /\ []Orderly => []DamageStaysLocal
<1>1. Init => Damage
  BY DEF Init, Damage, Whole
<1>2. TypeOK /\ Claims /\ Damage /\ [Next]_vars => Damage'
  BY DamageStep DEF Claims
<1>3. Claims /\ Damage => DamageStaysLocal
  <2> SUFFICES ASSUME Claims, Damage, Quiet, NEW t \in Target, ~Linked(t)
               PROVE  /\ EngineOf[t] = "dobby"
                      /\ entry[t] \in HooksOf(t)
                      /\ \/ /\ t \notin registered
                            /\ \A h \in HooksOf(t) : ~Installed(h)
                         \/ /\ t \in registered
                            /\ original[entry[t]]
                                 \in {entry[t]} \cup {g \in HooksOf(t) : ~Installed(g)}
    BY DEF DamageStaysLocal
  <2>1. \A h \in Hook : original[h] = below[h]
    BY DEF Claims, Published, Pending, Quiet, Installed
  <2>2. CASE Whole(t)
    BY <2>1, <2>2 DEF Whole, Linked, Installed
  <2>3. CASE Ruined(t)
    <3>1. t \notin registered => \A h \in HooksOf(t) : ~Installed(h)
      BY <2>1, <2>3 DEF Ruined, HooksOf, Claims, PlacedOnce, Registered, Installed
    <3>2. \A h \in HooksOf(t) : original[h] = below[h]
      BY <2>1 DEF HooksOf
    <3>3. QED
      BY <2>3, <3>1, <3>2 DEF Ruined, Installed
  <2>4. QED
    BY <2>2, <2>3 DEF Damage
<1>4. QED
  BY <1>1, <1>2, <1>3, ClaimsInvariant, TypeCorrect, PTL DEF Spec

------------------------------------------------------------------------------
(* What holds if Dobby hides no patch.                                       *)

LEMMA ChainInvariant ==
  ASSUME FaultsReported PROVE Spec /\ []Orderly => []Chain
<1>1. TypeOK /\ Claims /\ Claims' /\ Chain /\ [Next]_vars => Chain'
  BY FreshUnusedStep, BelowAcyclicStep, CompleteStep DEF Chain, Claims
<1>2. QED
  BY <1>1, ChainInit, ClaimsInvariant, TypeCorrect, PTL DEF Spec

\* `forward!()` reaches the genuine implementation: no chain of published
\* originals returns to a hook it has passed.
THEOREM ForwardTheorem ==
  ASSUME FaultsReported PROVE Spec /\ []Orderly => []ForwardAcyclic
<1>1. Chain => ForwardAcyclic
  <2> SUFFICES ASSUME Chain, NEW S \in SUBSET Hook, S # {}
               PROVE  \E h \in S : original[h] \notin S
    BY DEF ForwardAcyclic
  <2>1. PICK h \in S : below[h] \notin S
    BY DEF Chain, BelowAcyclic
  <2>2. original[h] = Unset \/ original[h] = below[h]
    BY DEF Chain, Claims, Published, Installed
  <2>3. QED
    BY <2>1, <2>2, ImplTypes
<1>2. QED
  BY <1>1, ChainInvariant, PTL

\* When no caller is about to publish, the genuine implementation and every
\* installed hook of a target run first or are what another hook forwards to.
THEOREM ChainTheorem ==
  ASSUME FaultsReported PROVE Spec /\ []Orderly => []ChainComplete
<1>1. Chain => ChainComplete
  <2> SUFFICES ASSUME Chain, Quiet, NEW t \in Target,
                 NEW x \in {Real} \cup {h \in Hook : TargetOf[h] = t /\ Installed(h)},
                 entry[t] # x
               PROVE  \E g \in Hook : g # x /\ TargetOf[g] = t /\ original[g] = x
    BY DEF ChainComplete, Linked
  <2>1. \A h \in Hook : Installed(h) => below[h] = original[h]
    BY DEF Chain, Claims, Published
  <2>2. \A h \in Hook : below[h] # Unset => Installed(h)
    BY DEF Chain, Claims, Pending, Quiet
  <2>3. PICK g \in Hook : g # x /\ TargetOf[g] = t /\ below[g] = x
    BY <2>1 DEF Chain, Complete, Whole, Installed
  <2>4. below[g] # Unset
    BY <2>3, ImplTypes
  <2>5. QED
    BY <2>1, <2>2, <2>3, <2>4
<1>2. QED
  BY <1>1, ChainInvariant, PTL

\* The calls implement HookOnce: a hook goes from absent to installed in one
\* step, once, on top of whatever its target ran.
THEOREM InstallsOnceTheorem ==
  ASSUME FaultsReported PROVE Spec /\ []Orderly => InstallsOnce
<1>1. Init => Once!Init
  BY DEF Init, Once!Init, Hook, Real, Unset, Once!Hook, Once!Real, Once!Unset
<1>2. TypeOK /\ Chain /\ [Next]_vars => [Once!Next]_<<entry, below>>
  <2> SUFFICES ASSUME FaultsReported, TypeOK, Chain, [Next]_vars
               PROVE  [Once!Next]_<<entry, below>>
    OBVIOUS
  <2>1. ASSUME NEW th \in Thread, Placed(th) PROVE Once!Next
    <3>1. below[idx[th]] = Unset /\ idx[th] \in Hook
      BY <2>1, PlacedFresh, DisplaceParts DEF Chain, Claims
    <3>2. Once!Install(idx[th])
      BY <2>1, <3>1 DEF Placed, Displace, Once!Install, Site, Current,
                        Unset, Once!Unset
    <3>3. QED
      BY <3>1, <3>2 DEF Once!Next, Once!Hook, Hook
  <2>2. ASSUME NEW th \in Thread, Publish(th) PROVE UNCHANGED <<entry, below>>
    BY <2>2, PublishParts
  <2>3. QED
    BY <2>1, <2>2, ReportedKinds DEF Plain, Quietly
<1>3. QED
  BY <1>1, <1>2, ChainInvariant, TypeCorrect, PTL
     DEF Spec, InstallsOnce, Once!Spec

\* On Dobby no order of the callers is needed: it refuses the second of two.
COROLLARY DobbyNeedsNoOrder ==
  ASSUME FaultsReported, \A t \in Target : EngineOf[t] = "dobby"
  PROVE  Spec => InstallsOnce /\ []ForwardAcyclic /\ []ChainComplete
<1>1. Orderly
  BY DEF Orderly
<1>2. QED
  BY <1>1, InstallsOnceTheorem, ForwardTheorem, ChainTheorem, PTL

\* Nor on any engine when only one thread installs.
COROLLARY OneCallerNeedsNoOrder ==
  ASSUME FaultsReported, \A a, b \in Thread : a = b
  PROVE  Spec => InstallsOnce /\ []ForwardAcyclic /\ []ChainComplete
<1>1. Orderly
  BY DEF Orderly, Serial
<1>2. QED
  BY <1>1, InstallsOnceTheorem, ForwardTheorem, ChainTheorem, PTL
=============================================================================
