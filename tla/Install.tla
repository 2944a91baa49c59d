------------------------------- MODULE Install -------------------------------
(***************************************************************************)
(* `install_registered_hooks` and the installers the macros generate.      *)
(*                                                                         *)
(* A thread that calls `install_registered_hooks` walks the HOOKS slice in *)
(* link order and, for each hook, runs its installer: test the guard (the  *)
(* hook's OnceLock), resolve the target, have the platform engine put the  *)
(* replacement in front of it, publish the displaced implementation in the *)
(* OnceLock. Nothing serialises two callers, so each of these is a step.   *)
(*                                                                         *)
(* The engine is the Objective-C runtime ("objc": one atomic IMP swap),    *)
(* Dobby ("dobby": one critical section that refuses a registered address) *)
(* or Detours ("detours": a transaction that one thread at a time owns).   *)
(*                                                                         *)
(* Hooks are numbered by their place in the slice; 0 stands for the        *)
(* genuine implementation of a target.                                     *)
(***************************************************************************)
EXTENDS Integers

CONSTANTS
  Thread,     \* threads that call install_registered_hooks
  N,          \* length of the HOOKS slice
  Target,     \* functions and methods that can be hooked
  TargetOf,   \* Hook -> Target
  EngineOf,   \* Target -> Engine
  Image,      \* modules that hold the targets
  HomeOf,     \* Target -> Image
  Exported,   \* targets whose symbol or selector exists once the image is in
  OnDisk,     \* images the loader can find
  Scoped,     \* hooks declared with an explicit image
  Optional,   \* hooks declared `optional = true`
  AutoPrime,  \* the crate's `auto-prime` feature
  Faults      \* engine failures that may happen

Hook   == 1 .. N
Real   == 0
Unset  == -1       \* an empty OnceLock
Impl   == Hook \cup {Real}
Engine == {"objc", "dobby", "detours"}

(***************************************************************************)
(* "patch": Dobby cannot make the code page writable and changes nothing.  *)
(* "relocate": Dobby finds no room for the relocated prologue, yet patches *)
(* the target. "begin": Detours takes the transaction and then fails.      *)
(* "attach": Detours fails inside the transaction and aborts it.           *)
(***************************************************************************)
Fault == {"patch", "relocate", "begin", "attach"}

ASSUME CountAssumption  == N \in Nat \ {0}
ASSUME TargetAssumption == /\ TargetOf \in [Hook -> Target]
                           /\ EngineOf \in [Target -> Engine]
                           /\ HomeOf \in [Target -> Image]
                           /\ Exported \subseteq Target
                           /\ OnDisk \subseteq Image
ASSUME HookAssumption   == /\ Scoped \subseteq Hook
                           /\ \A h \in Scoped : EngineOf[TargetOf[h]] # "objc"
                           /\ Optional \subseteq Hook
ASSUME FlagAssumption   == AutoPrime \in BOOLEAN /\ Faults \subseteq Fault

VARIABLES
  loaded,      \* images mapped into the process
  entry,       \* what a call of each target runs first
  registered,  \* Dobby's gInterceptor: addresses it knows to be hooked
  transaction, \* Detours' s_nPendingThreadId: {} or the owning thread
  original,    \* each hook's OnceLock
  pc, idx,     \* where each thread is in the loop over HOOKS
  held,        \* the thread's local `original`, between replace and publish
  result,      \* what the thread's last call returned
  below        \* history: what each hook's last successful replace displaced

process == <<entry, registered, transaction, original>>
locals  == <<pc, idx, held, result>>
vars    == <<loaded, process, locals, below>>

PC     == {"idle", "guard", "resolve", "replace", "commit", "publish"}
Result == {"none", "ok", "err"}

TypeOK ==
  /\ loaded \in SUBSET Image
  /\ entry \in [Target -> Impl]
  /\ registered \in SUBSET Target
  /\ transaction \in SUBSET Thread
  /\ original \in [Hook -> Impl \cup {Unset}]
  /\ pc \in [Thread -> PC]
  /\ idx \in [Thread -> Hook]
  /\ held \in [Thread -> Impl]
  /\ result \in [Thread -> Result]
  /\ below \in [Hook -> Impl \cup {Unset}]

Init ==
  /\ loaded \in SUBSET OnDisk
  /\ entry = [t \in Target |-> Real]
  /\ registered = {}
  /\ transaction = {}
  /\ original = [h \in Hook |-> Unset]
  /\ pc = [th \in Thread |-> "idle"]
  /\ idx = [th \in Thread |-> 1]
  /\ held = [th \in Thread |-> Real]
  /\ result = [th \in Thread |-> "none"]
  /\ below = [h \in Hook |-> Unset]

------------------------------------------------------------------------------
(* The loop over HOOKS.                                                     *)

\* The hook whose installer th is running, its target and its engine.
Current(th) == idx[th]
Site(th)    == TargetOf[Current(th)]
At(th, label, engine) == pc[th] = label /\ EngineOf[Site(th)] = engine

Goto(th, label) == /\ pc' = [pc EXCEPT ![th] = label]
                   /\ UNCHANGED <<idx, result>>

\* Mutant: the loop takes one hook too many.
HookOkPastEnd(th) ==
  /\ idx' = [idx EXCEPT ![th] = @ + 1]
  /\ pc' = [pc EXCEPT ![th] = IF idx[th] <= N THEN "guard" ELSE "idle"]
  /\ UNCHANGED result

\* The installer returns Ok: the loop takes the next hook or returns Ok.
HookOk(th) ==
  \/ /\ idx[th] < N
     /\ idx' = [idx EXCEPT ![th] = @ + 1]
     /\ pc' = [pc EXCEPT ![th] = "guard"]
     /\ UNCHANGED result
  \/ /\ idx[th] = N
     /\ pc' = [pc EXCEPT ![th] = "idle"]
     /\ result' = [result EXCEPT ![th] = "ok"]
     /\ UNCHANGED idx

\* Mutant: the error is dropped on the way out of the loop.
HookErrSilently(th) == /\ pc' = [pc EXCEPT ![th] = "idle"]
                       /\ UNCHANGED <<idx, result>>

\* The installer returns Err: `?` ends the loop, later hooks are not tried.
HookErr(th) == /\ pc' = [pc EXCEPT ![th] = "idle"]
               /\ result' = [result EXCEPT ![th] = "err"]
               /\ UNCHANGED idx

Call(th) == /\ pc[th] = "idle"
            /\ pc' = [pc EXCEPT ![th] = "guard"]
            /\ idx' = [idx EXCEPT ![th] = 1]
            /\ result' = [result EXCEPT ![th] = "none"]
            /\ UNCHANGED <<loaded, process, held, below>>

\* `if original_lock.get().is_some() { return Ok(()) }`
Guard(th) == /\ pc[th] = "guard"
             /\ \/ original[Current(th)] # Unset /\ HookOk(th)
                \/ original[Current(th)] = Unset /\ Goto(th, "resolve")
             /\ UNCHANGED <<loaded, process, held, below>>

------------------------------------------------------------------------------
(* Resolution: `into_function`, `ObjcMethod::instance` and the scoped or     *)
(* global lookups under them.                                                *)

\* The images mapped once h's target has been looked up: an explicit image
\* that is not in yet is loaded first, if the crate primes images.
LoadedBy(h) ==
  IF h \in Scoped /\ AutoPrime
  THEN loaded \cup ({HomeOf[TargetOf[h]]} \cap OnDisk)
  ELSE loaded

\* What the lookup of h finds among images. Only "absent" is an error that
\* `is_absent` accepts; an image that cannot be primed is `LoadFailed`.
Lookup(h, images) ==
  IF HomeOf[TargetOf[h]] \in images
  THEN IF TargetOf[h] \in Exported THEN "found" ELSE "absent"
  ELSE IF h \in Scoped /\ AutoPrime THEN "failed" ELSE "absent"

\* Mutant: absence is ignored for required hooks too.
FinishInstallLeniently(th, outcome) ==
  \/ outcome = "absent" /\ HookOk(th)
  \/ outcome = "failed" /\ HookErr(th)

\* Mutant: an optional hook that is absent ends the loop with Ok.
FinishInstallReturning(th, outcome) ==
  /\ pc' = [pc EXCEPT ![th] = "idle"]
  /\ result' = [result EXCEPT ![th] =
       IF Current(th) \in Optional /\ outcome = "absent" THEN "ok" ELSE "err"]
  /\ UNCHANGED idx

\* `finish_install`: an absent target is no error for an optional hook.
FinishInstall(th, outcome) ==
  \/ Current(th) \in Optional /\ outcome = "absent" /\ HookOk(th)
  \/ ~(Current(th) \in Optional /\ outcome = "absent") /\ HookErr(th)

Resolve(th) ==
  LET outcome == Lookup(Current(th), LoadedBy(Current(th)))
  IN  /\ pc[th] = "resolve"
      /\ loaded' = LoadedBy(Current(th))
      /\ \/ outcome = "found" /\ Goto(th, "replace")
         \/ outcome # "found" /\ FinishInstall(th, outcome)
      /\ UNCHANGED <<process, held, below>>

------------------------------------------------------------------------------
(* The engines. `replace_with` returns Ok with the displaced implementation  *)
(* or Err, and an Err is final for this call even if the hook is optional.   *)

\* Mutant: the genuine implementation is returned, whatever ran in front.
DisplaceReturningReal(th) ==
  /\ entry' = [entry EXCEPT ![Site(th)] = Current(th)]
  /\ held' = [held EXCEPT ![th] = Real]
  /\ below' = [below EXCEPT ![Current(th)] = entry[Site(th)]]
  /\ Goto(th, "publish")
  /\ UNCHANGED <<loaded, original>>

\* The replacement is in front of its target; what ran there is returned.
Displace(th) ==
  /\ entry' = [entry EXCEPT ![Site(th)] = Current(th)]
  /\ held' = [held EXCEPT ![th] = entry[Site(th)]]
  /\ below' = [below EXCEPT ![Current(th)] = entry[Site(th)]]
  /\ Goto(th, "publish")
  /\ UNCHANGED <<loaded, original>>

\* method_setImplementation exchanges the IMP atomically.
SwapMethod(th) == /\ At(th, "replace", "objc")
                  /\ Displace(th)
                  /\ UNCHANGED <<registered, transaction>>

\* Mutant: the address is not looked up.
HookInlineAgain(th) == /\ At(th, "replace", "dobby")
                       /\ Displace(th)
                       /\ registered' = registered \cup {Site(th)}
                       /\ UNCHANGED transaction

\* Mutant: the entry is not added to the interceptor.
HookInlineForgotten(th) == /\ At(th, "replace", "dobby")
                           /\ Site(th) \notin registered
                           /\ Displace(th)
                           /\ UNCHANGED <<registered, transaction>>

\* DobbyHook under gDobbyMutex: an address it already knows is refused.
HookInline(th) == /\ At(th, "replace", "dobby")
                  /\ Site(th) \notin registered
                  /\ Displace(th)
                  /\ registered' = registered \cup {Site(th)}
                  /\ UNCHANGED transaction

RefuseInline(th) == /\ At(th, "replace", "dobby")
                    /\ Site(th) \in registered
                    /\ HookErr(th)
                    /\ UNCHANGED <<loaded, process, held, below>>

\* Mutant: the patch was written when its error is reported.
FailPatchLate(th) == /\ "patch" \in Faults
                     /\ At(th, "replace", "dobby")
                     /\ Site(th) \notin registered
                     /\ entry' = [entry EXCEPT ![Site(th)] = Current(th)]
                     /\ HookErr(th)
                     /\ UNCHANGED <<loaded, registered, transaction, original, held, below>>

\* The page cannot be patched: nothing happened to the target.
FailPatch(th) == /\ "patch" \in Faults
                 /\ At(th, "replace", "dobby")
                 /\ Site(th) \notin registered
                 /\ HookErr(th)
                 /\ UNCHANGED <<loaded, process, held, below>>

\* Mutant: the address of a failed relocation is registered as well.
FailRelocateRegistered(th) ==
  /\ "relocate" \in Faults
  /\ At(th, "replace", "dobby")
  /\ Site(th) \notin registered
  /\ entry' = [entry EXCEPT ![Site(th)] = Current(th)]
  /\ registered' = registered \cup {Site(th)}
  /\ HookErr(th)
  /\ UNCHANGED <<loaded, transaction, original, held, below>>

\* Relocation failed, but Active() patched the target before the error was
\* looked at, and the address was not registered.
FailRelocate(th) == /\ "relocate" \in Faults
                    /\ At(th, "replace", "dobby")
                    /\ Site(th) \notin registered
                    /\ entry' = [entry EXCEPT ![Site(th)] = Current(th)]
                    /\ HookErr(th)
                    /\ UNCHANGED <<loaded, registered, transaction, original, held, below>>

\* DetourTransactionBegin succeeds for one thread at a time.
BeginDetour(th) == /\ At(th, "replace", "detours")
                   /\ transaction = {}
                   /\ transaction' = {th}
                   /\ Goto(th, "commit")
                   /\ UNCHANGED <<loaded, entry, registered, original, held, below>>

RefuseDetour(th) == /\ At(th, "replace", "detours")
                    /\ transaction # {}
                    /\ HookErr(th)
                    /\ UNCHANGED <<loaded, process, held, below>>

\* Begin owns the transaction and then cannot unprotect the trampolines; the
\* shim returns that status without an abort.
FailBegin(th) == /\ "begin" \in Faults
                 /\ At(th, "replace", "detours")
                 /\ transaction = {}
                 /\ transaction' = {th}
                 /\ HookErr(th)
                 /\ UNCHANGED <<loaded, entry, registered, original, held, below>>

\* DetourAttach and DetourTransactionCommit.
CommitDetour(th) == /\ At(th, "commit", "detours")
                    /\ Displace(th)
                    /\ transaction' = transaction \ {th}
                    /\ UNCHANGED registered

\* DetourAttach fails and the shim aborts the transaction.
AbortDetour(th) == /\ "attach" \in Faults
                   /\ At(th, "commit", "detours")
                   /\ transaction' = transaction \ {th}
                   /\ HookErr(th)
                   /\ UNCHANGED <<loaded, entry, registered, original, held, below>>

\* Mutant: the original is dropped.
PublishNothing(th) == /\ pc[th] = "publish"
                      /\ HookOk(th)
                      /\ UNCHANGED <<loaded, process, held, below>>

\* `let _ = original_lock.set(original)`: the first value stays.
Publish(th) == /\ pc[th] = "publish"
               /\ original' = IF original[Current(th)] = Unset
                              THEN [original EXCEPT ![Current(th)] = held[th]]
                              ELSE original
               /\ HookOk(th)
               /\ UNCHANGED <<loaded, entry, registered, transaction, held, below>>

------------------------------------------------------------------------------

\* The program maps an image, e.g. with its own dlopen or LoadLibrary.
LoadImage(image) == /\ image \in OnDisk \ loaded
                    /\ loaded' = loaded \cup {image}
                    /\ UNCHANGED <<process, locals, below>>

Replace(th) == \/ SwapMethod(th)
               \/ HookInline(th) \/ RefuseInline(th)
               \/ FailPatch(th) \/ FailRelocate(th)
               \/ BeginDetour(th) \/ RefuseDetour(th) \/ FailBegin(th)
               \/ CommitDetour(th) \/ AbortDetour(th)

Step(th) == Call(th) \/ Guard(th) \/ Resolve(th) \/ Replace(th) \/ Publish(th)

Next == (\E th \in Thread : Step(th)) \/ (\E image \in Image : LoadImage(image))

Spec == Init /\ [][Next]_vars

------------------------------------------------------------------------------
(* Properties.                                                               *)

Installed(h) == original[h] # Unset

\* No thread is between an engine's success and the OnceLock.
Quiet == \A th \in Thread : pc[th] # "publish"

\* At most one thread is inside install_registered_hooks.
Serial == \A a, b \in Thread : pc[a] # "idle" /\ pc[b] # "idle" => a = b

\* A failed Begin left the transaction owned by a thread that is not in one.
Leaked == \E th \in transaction : pc[th] # "commit"

\* Ok is not returned, by this thread or after any retry, while a required
\* hook is uninstalled (`Ok(())` at the end of install_registered_hooks).
OkMeansInstalled ==
  \A th \in Thread :
    result[th] = "ok" => \A h \in Hook \ Optional : Installed(h)

\* A replacement in front of a target has its original published, except
\* while the thread that put it there is about to publish it: a call that
\* fails half-way leaves no hook forwarding to its fallback for good.
NoOrphanReplacement ==
  \A t \in Target :
    entry[t] \in Hook /\ ~Installed(entry[t])
      => \E th \in Thread : pc[th] = "publish" /\ Current(th) = entry[t]

\* `forward!()` never loops: every set of hooks has a member whose original
\* is outside the set, so a chain of forwards leaves the hooks.
ForwardAcyclic ==
  \A S \in (SUBSET Hook) \ {{}} : \E h \in S : original[h] \notin S

\* The genuine implementation of t and every installed hook on it run first or
\* are what another hook forwards to.
Linked(t) ==
  \A x \in {Real} \cup {h \in Hook : TargetOf[h] = t /\ Installed(h)} :
    \/ entry[t] = x
    \/ \E g \in Hook : g # x /\ TargetOf[g] = t /\ original[g] = x

\* No implementation is lost when hooks share a target, whatever the order in
\* which failures, late images and retries install them.
ChainComplete == Quiet => \A t \in Target : Linked(t)

HooksOf(t) == {h \in Hook : TargetOf[h] = t}

\* A failed relocation costs its own target the genuine implementation, and no
\* other target anything. Until Dobby accepts a hook of that target, none of them
\* is installed, and the one in front has only its fallback. The one that Dobby
\* then accepts forwards to itself or to a hook that has only its fallback.
DamageStaysLocal ==
  Quiet => \A t \in Target :
    \/ Linked(t)
    \/ /\ EngineOf[t] = "dobby"
       /\ entry[t] \in HooksOf(t)
       /\ \/ /\ t \notin registered
             /\ \A h \in HooksOf(t) : ~Installed(h)
          \/ /\ t \in registered
             /\ original[entry[t]] \in {entry[t]} \cup {g \in HooksOf(t) : ~Installed(g)}

\* Each installer is one indivisible step that happens once (lib.rs 230).
Once == INSTANCE HookOnce WITH N <- N, Target <- Target, TargetOf <- TargetOf,
                              entry <- entry, below <- below
InstallsOnce == Once!Spec

\* lib.rs 230-232: "applies each hook at most once [...] already-installed
\* hooks are skipped": a hook that its engine has reported in place displaces
\* nothing again, nor comes in front of its target again. (One whose relocation
\* failed has not been applied, and a retry does put it in front again.)
AppliedAtMostOnce ==
  [][\A h \in Hook : below[h] # Unset =>
       /\ below'[h] = below[h]
       /\ entry'[TargetOf[h]] = h => entry[TargetOf[h]] = h]_vars

\* lib.rs 230-232, 236: "Returns an error if any required hook cannot be
\* resolved or replaced": a call does not fail over a hook that is in place.
ErrorsAreGenuine ==
  [][\A th \in Thread : pc[th] = "replace" /\ result'[th] = "err"
       => below[Current(th)] = Unset]_vars

\* lib.rs 237: "Optional hooks are ignored when their target is absent".
OptionalAbsentIgnored ==
  [][\A th \in Thread :
       /\ pc[th] = "resolve"
       /\ Current(th) \in Optional
       /\ HomeOf[Site(th)] \notin loaded \cup OnDisk
       => result'[th] # "err"]_vars

\* Every installer can now find its target or may do without it.
Ready == \A h \in Hook :
  \/ Lookup(h, LoadedBy(h)) = "found"
  \/ h \in Optional /\ Lookup(h, LoadedBy(h)) = "absent"

\* Dobby takes one hook for a target: h came second and stays refused.
Crowded(h) == /\ EngineOf[TargetOf[h]] = "dobby" /\ ~Installed(h)
              /\ \E g \in HooksOf(TargetOf[h]) : Installed(g)

\* A caller that keeps calling installs every hook whose target is there,
\* whatever failed before, unless a failed Begin holds the transaction or a hook
\* up to this one is refused because Dobby has another for its target.
RetryInstalls ==
  \A h \in Hook :
    (Ready /\ Lookup(h, LoadedBy(h)) = "found")
      ~> (Installed(h) \/ Leaked \/ \E g \in 1 .. h : Crowded(g))

\* A thread in a call runs on, calls again, and its engine does not fail
\* every time.
Fairness ==
  \A th \in Thread :
    /\ WF_vars(Step(th))
    /\ SF_vars(SwapMethod(th))
    /\ SF_vars(HookInline(th))
    /\ SF_vars(BeginDetour(th))
    /\ SF_vars(CommitDetour(th))

FairSpec == Spec /\ Fairness
=============================================================================
