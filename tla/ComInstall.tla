------------------------------ MODULE ComInstall ------------------------------
(***************************************************************************)
(* The installers of COM hooks (`com_install_body`), run by one thread that *)
(* calls `install_registered_hooks`, while the program loads and unloads   *)
(* images and creates and releases COM objects between any two steps.      *)
(*                                                                         *)
(* An installer opens every image the hook names, asks the hook's          *)
(* preferred route for a function (an explicit expression, the vtable slot *)
(* of a live instance, or a symbol), looks the symbol up a second time if  *)
(* that route has none, and replaces what it found. An image that does not *)
(* open is a panic. What the engine does is the subject of Install.        *)
(***************************************************************************)
EXTENDS Integers, Sequences

CONSTANTS
  N,             \* length of the HOOKS slice
  Image,         \* DLLs
  Function,      \* functions in them
  HomeOf,        \* Function -> Image
  RouteOf,       \* Hook -> Route
  PreferredOf,   \* Hook -> the function an expression or a slot leads to
  Exports,       \* Hook -> the functions exported under its symbol
  Imports,       \* Hook -> images in `imports`
  ResolveImages, \* Hook -> images in `resolve_images`
  FallbackImage, \* Hook -> image in `image`: a sequence of at most one
  Named,         \* hooks whose expression yields a name, not a pointer
  Optional,      \* hooks declared `optional = true`
  OnDisk,        \* images the loader can find
  Volatile,      \* images the program also unloads
  AutoPrime,     \* the crate's `auto-prime` feature
  None

Hook  == 1 .. N
Route == {"explicit", "slot", "symbol"}

ASSUME CountAssumption == N \in Nat \ {0}
ASSUME ImageAssumption ==
  /\ HomeOf \in [Function -> Image]
  /\ None \notin Function
  /\ OnDisk \subseteq Image /\ Volatile \subseteq Image
ASSUME HookAssumption ==
  /\ RouteOf \in [Hook -> Route]
  /\ PreferredOf \in [Hook -> Function]
  /\ Exports \in [Hook -> SUBSET Function]
  /\ \A h \in Hook : \A f, g \in Exports[h] : HomeOf[f] = HomeOf[g] => f = g
  /\ Imports \in [Hook -> Seq(Image)]
  /\ ResolveImages \in [Hook -> Seq(Image)]
  /\ FallbackImage \in [Hook -> Seq(Image)]
  /\ Named \subseteq Hook
  /\ Optional \subseteq Hook /\ AutoPrime \in BOOLEAN

VARIABLES
  mapped,    \* images in the process
  primed,    \* images that hold a reference the crate took and never returns
  lent,      \* history: images that the program brought in last, not the crate
  known,     \* hooks whose expression or instance is non-null
  patched,   \* the hooks in front of each function
  installed, \* hooks whose OnceLock is set
  pc, idx,   \* where the thread is in the loop over HOOKS
  opened,    \* how many of the hook's images it has opened
  target,    \* the function it is about to replace
  late,      \* history: images loaded since the preferred route was asked
  result     \* what the last call returned

loader == <<mapped, primed, lent>>
vars   == <<loader, known, patched, installed, pc, idx, opened, target, late,
            result>>

ComTypeOK ==
  /\ mapped \in SUBSET Image /\ primed \in SUBSET Image /\ lent \in SUBSET Image
  /\ known \in SUBSET Hook
  /\ patched \in [Function -> SUBSET Hook]
  /\ installed \in SUBSET Hook
  /\ pc \in {"idle", "guard", "open", "resolve", "fallback", "replace",
             "publish", "dead"}
  /\ idx \in Hook
  /\ opened \in Nat
  /\ target \in Function \cup {None}
  /\ pc = "replace" => target \in Function
  /\ late \in SUBSET Image
  /\ result \in {"none", "ok", "err", "panic", "crash"}

Init ==
  /\ mapped \in SUBSET OnDisk
  /\ primed = {}
  /\ lent = mapped
  /\ known \in SUBSET {h \in Hook : RouteOf[h] # "symbol"
                                    /\ HomeOf[PreferredOf[h]] \in mapped}
  /\ patched = [f \in Function |-> {}]
  /\ installed = {}
  /\ pc = "idle"
  /\ idx = 1
  /\ opened = 0
  /\ target = None
  /\ late = {}
  /\ result = "none"

------------------------------------------------------------------------------
(* The loop over HOOKS.                                                     *)

Goto(label) == /\ pc' = label
               /\ UNCHANGED <<idx, result>>

\* The installer returns Ok: the loop takes the next hook or returns Ok.
HookOk == \/ /\ idx < N
             /\ idx' = idx + 1
             /\ pc' = "guard"
             /\ UNCHANGED result
          \/ /\ idx = N
             /\ pc' = "idle"
             /\ result' = "ok"
             /\ UNCHANGED idx

\* The call ends: with an error, with a panic that unwinds through the loop,
\* or with the process.
End(how) == /\ pc' = IF how = "crash" THEN "dead" ELSE "idle"
            /\ result' = how
            /\ UNCHANGED idx

Call == /\ pc = "idle"
        /\ pc' = "guard"
        /\ idx' = 1
        /\ result' = "none"
        /\ UNCHANGED <<loader, known, patched, installed, opened, target, late>>

\* Mutant: the OnceLock is not tested.
GuardNothing == /\ pc = "guard"
                /\ Goto("open")
                /\ opened' = 0
                /\ UNCHANGED <<loader, known, patched, installed, target, late>>

\* `if original_lock.get().is_some() { return Ok(()) }`
Guard == /\ pc = "guard"
         /\ \/ idx \in installed /\ HookOk /\ UNCHANGED opened
            \/ idx \notin installed /\ Goto("open") /\ opened' = 0
         /\ UNCHANGED <<loader, known, patched, installed, target, late>>

------------------------------------------------------------------------------
(* The images a hook names.                                                  *)

\* `module_slice_expr`: the list, or else `image`, or else no image at all.
ModuleSlice(images, fallback) == IF images # <<>> THEN images ELSE fallback

InstallSlice(h) == ModuleSlice(Imports[h], FallbackImage[h])
ResolveSlice(h) == ModuleSlice(ResolveImages[h], FallbackImage[h])
ToOpen(h)       == InstallSlice(h) \o ResolveSlice(h)
Listed(slice)   == {slice[i] : i \in 1 .. Len(slice)}

\* Mutant: an image that is loaded here is not kept.
OpenUnpinned ==
  /\ pc = "open"
  /\ opened < Len(ToOpen(idx))
  /\ LET image == ToOpen(idx)[opened + 1] IN
       \/ /\ image \in mapped \/ (AutoPrime /\ image \in OnDisk)
          /\ mapped' = mapped \cup {image}
          /\ lent' = lent \ ({image} \ mapped)
          /\ opened' = opened + 1
          /\ UNCHANGED <<primed, pc, idx, result>>
       \/ /\ image \notin mapped
          /\ End("panic")
          /\ UNCHANGED <<loader, opened>>
  /\ UNCHANGED <<known, patched, installed, target, late>>

\* `into_module(..).expect(..)`, in order, before any route is tried. An image
\* that is mapped is not referenced, one that is loaded here is, for good. One
\* that is not mapped may be missing, or its initialisation may fail.
Open ==
  /\ pc = "open"
  /\ opened < Len(ToOpen(idx))
  /\ LET image == ToOpen(idx)[opened + 1] IN
       \/ /\ image \in mapped
          /\ opened' = opened + 1
          /\ UNCHANGED <<loader, pc, idx, result>>
       \/ /\ image \notin mapped
          /\ AutoPrime /\ image \in OnDisk
          /\ mapped' = mapped \cup {image}
          /\ primed' = primed \cup {image}
          /\ lent' = lent \ {image}
          /\ opened' = opened + 1
          /\ UNCHANGED <<pc, idx, result>>
       \/ /\ image \notin mapped
          /\ End("panic")
          /\ UNCHANGED <<loader, opened>>
  /\ UNCHANGED <<known, patched, installed, target, late>>

OpenDone == /\ pc = "open"
            /\ opened = Len(ToOpen(idx))
            /\ Goto("resolve")
            /\ UNCHANGED <<loader, known, patched, installed, opened, target,
                           late>>

------------------------------------------------------------------------------
(* Resolution.                                                               *)

\* Functions of the process exported under h's symbol.
Visible(h) == {f \in Exports[h] : HomeOf[f] \in mapped}

\* `resolve_in_modules`: the first image of the slice that exports the symbol,
\* else whichever image of the process the loader lists first.
Finds(h, slice, f) ==
  /\ f \in Visible(h)
  /\ \/ \E i \in 1 .. Len(slice) :
          /\ HomeOf[f] = slice[i]
          /\ \A j \in 1 .. i - 1 : \A g \in Visible(h) : HomeOf[g] # slice[j]
     \/ \A g \in Visible(h) : HomeOf[g] \notin Listed(slice)

\* Mutant: a null instance is an error instead of a reason to go on.
ResolvePreferredOnly ==
  /\ pc = "resolve"
  /\ RouteOf[idx] # "symbol"
  /\ late' = {}
  /\ \/ /\ idx \in known /\ HomeOf[PreferredOf[idx]] \in mapped
        /\ target' = PreferredOf[idx]
        /\ Goto("replace")
     \/ /\ idx \notin known \/ HomeOf[PreferredOf[idx]] \notin mapped
        /\ End("err")
        /\ UNCHANGED target
  /\ UNCHANGED <<loader, known, patched, installed, opened>>

\* Mutant: the pointer is not tested for null.
ResolvePreferredUnchecked ==
  /\ pc = "resolve"
  /\ RouteOf[idx] # "symbol"
  /\ late' = {}
  /\ target' = IF idx \in known THEN PreferredOf[idx] ELSE None
  /\ Goto("replace")
  /\ UNCHANGED <<loader, known, patched, installed, opened>>

\* `finish_install`: an absent target is no error for an optional hook.
FinishInstall(absent) ==
  \/ idx \in Optional /\ absent /\ HookOk
  \/ ~(idx \in Optional /\ absent) /\ End("err")

\* A null expression or instance is no answer. A name that is not found is
\* absent; a pointer whose image is gone has no owner, which is not absence.
ResolvePreferred ==
  /\ pc = "resolve"
  /\ RouteOf[idx] # "symbol"
  /\ late' = {}
  /\ \/ /\ idx \in known /\ HomeOf[PreferredOf[idx]] \in mapped
        /\ target' = PreferredOf[idx]
        /\ Goto("replace")
     \/ /\ idx \in known /\ HomeOf[PreferredOf[idx]] \notin mapped
        /\ FinishInstall(idx \in Named)
        /\ UNCHANGED target
     \/ /\ idx \notin known
        /\ Goto("fallback")
        /\ UNCHANGED target
  /\ UNCHANGED <<loader, known, patched, installed, opened>>

\* Mutant: only the slice is searched.
ResolveSymbolScoped ==
  /\ pc = "resolve"
  /\ RouteOf[idx] = "symbol"
  /\ late' = {}
  /\ LET found == {f \in Visible(idx) : HomeOf[f] \in Listed(ResolveSlice(idx))}
     IN  \/ \E f \in found : target' = f /\ Goto("replace")
         \/ found = {} /\ Goto("fallback") /\ UNCHANGED target
  /\ UNCHANGED <<loader, known, patched, installed, opened>>

\* Mutant: the images to install in are searched first, not those to resolve in.
ResolveSymbolSwapped ==
  /\ pc = "resolve"
  /\ RouteOf[idx] = "symbol"
  /\ late' = {}
  /\ \/ \E f \in Function : /\ Finds(idx, InstallSlice(idx), f)
                            /\ target' = f
                            /\ Goto("replace")
     \/ /\ Visible(idx) = {}
        /\ Goto("fallback")
        /\ UNCHANGED target
  /\ UNCHANGED <<loader, known, patched, installed, opened>>

\* `Ok(symbol.resolve_in_modules(resolve_images).ok())`
ResolveSymbol ==
  /\ pc = "resolve"
  /\ RouteOf[idx] = "symbol"
  /\ late' = {}
  /\ \/ \E f \in Function : /\ Finds(idx, ResolveSlice(idx), f)
                            /\ target' = f
                            /\ Goto("replace")
     \/ /\ Visible(idx) = {}
        /\ Goto("fallback")
        /\ UNCHANGED target
  /\ UNCHANGED <<loader, known, patched, installed, opened>>

\* The symbol once more, in the images to install in; then `finish_install`.
Fallback ==
  /\ pc = "fallback"
  /\ \/ \E f \in Function : /\ Finds(idx, InstallSlice(idx), f)
                            /\ target' = f
                            /\ Goto("replace")
     \/ /\ Visible(idx) = {}
        /\ FinishInstall(TRUE)
        /\ UNCHANGED target
  /\ UNCHANGED <<loader, known, patched, installed, opened, late>>

------------------------------------------------------------------------------
(* Replacement.                                                              *)

\* `replace_with`: a function that was unmapped in between is written to, or
\* read, all the same.
Replace ==
  /\ pc = "replace"
  /\ \/ /\ HomeOf[target] \in mapped
        /\ patched' = [patched EXCEPT ![target] = @ \cup {idx}]
        /\ Goto("publish")
     \/ /\ HomeOf[target] \notin mapped
        /\ End("crash")
        /\ UNCHANGED patched
  /\ UNCHANGED <<loader, known, installed, opened, target, late>>

\* The engine fails, which ends the call even if the hook is optional.
FailReplace ==
  /\ pc = "replace"
  /\ HomeOf[target] \in mapped
  /\ End("err")
  /\ UNCHANGED <<loader, known, patched, installed, opened, target, late>>

Publish == /\ pc = "publish"
           /\ installed' = installed \cup {idx}
           /\ HookOk
           /\ UNCHANGED <<loader, known, patched, opened, target, late>>

------------------------------------------------------------------------------
(* The program.                                                              *)

Env == UNCHANGED <<patched, installed, pc, idx, opened, target, result>>

Load(image) == /\ pc # "dead"
               /\ image \in OnDisk \ mapped
               /\ mapped' = mapped \cup {image}
               /\ lent' = lent \cup {image}
               /\ late' = late \cup {image}
               /\ Env /\ UNCHANGED <<primed, known>>

\* A live object keeps its server in the process; a pointer does not. Patches
\* go with the image.
Unload(image) ==
  /\ pc # "dead"
  /\ image \in (mapped \cap Volatile) \ primed
  /\ \A h \in known : RouteOf[h] = "slot" => HomeOf[PreferredOf[h]] # image
  /\ mapped' = mapped \ {image}
  /\ patched' = [f \in Function |->
                   IF HomeOf[f] = image THEN {} ELSE patched[f]]
  /\ UNCHANGED <<primed, lent, known, installed, pc, idx, opened, target, late,
                 result>>

\* The program creates the object or obtains the pointer.
Learn(h) == /\ pc # "dead"
            /\ RouteOf[h] # "symbol" /\ h \notin known
            /\ HomeOf[PreferredOf[h]] \in mapped
            /\ known' = known \cup {h}
            /\ Env /\ UNCHANGED <<loader, late>>

\* The program releases the object and clears its pointer.
Forget(h) == /\ pc # "dead"
             /\ h \in known
             /\ known' = known \ {h}
             /\ Env /\ UNCHANGED <<loader, late>>

Step == \/ Call \/ Guard \/ Open \/ OpenDone
        \/ ResolvePreferred \/ ResolveSymbol \/ Fallback
        \/ Replace \/ FailReplace \/ Publish

Program == \/ \E image \in Image : Load(image) \/ Unload(image)
           \/ \E h \in Hook : Learn(h) \/ Forget(h)

Next == Step \/ Program

Spec == Init /\ [][Next]_vars

------------------------------------------------------------------------------
(* Properties.                                                               *)

\* Whatever routes its retries take, after errors, panics and objects that come
\* and go, a hook is in front of at most one function, and of none without its
\* original (guard and OnceLock of com_install_body).
AtMostOneFunction ==
  \A f \in Function : \A h \in patched[f] :
    /\ h \in installed \/ (pc = "publish" /\ idx = h)
    /\ \A g \in Function : h \in patched[g] => g = f

\* Where h looks for its symbol: the preferred route of a symbol hook uses one
\* list, the second lookup the other.
Scope(h) == Listed(IF RouteOf[h] = "symbol" THEN ResolveSlice(h)
                   ELSE InstallSlice(h))

\* h may be put in front of f: its expression or slot leads there, an image it
\* names holds f, or none of these, except images the program unloads, has the
\* symbol.
Acceptable(h, f) ==
  \/ RouteOf[h] # "symbol" /\ f = PreferredOf[h]
  \/ HomeOf[f] \in Scope(h)
  \/ \A g \in Exports[h] : HomeOf[g] \notin Scope(h) \ Volatile

\* A hook leaves the images it names only if it must, however late the images,
\* objects and pointers arrive (resolve_in_modules after the eager into_module).
LandsInScope ==
  \A f \in Function : \A h \in patched[f] : Acceptable(h, f)

\* The first lookup of a symbol hook has searched the whole process, so that its
\* second one only finds what was loaded since (com_install_body: `imports` are
\* not searched first).
SecondLookupIsLate ==
  [][pc = "fallback" /\ pc' = "replace" /\ RouteOf[idx] = "symbol"
       => HomeOf[target'] \in late]_vars

\* An image that was loaded for a hook cannot be unloaded under it: a call only
\* writes into an image that is gone if the program had brought it in itself,
\* and only a reference would have kept it (`LoadLibraryW` in Module::resolve).
PrimedOutlives == result = "crash" => HomeOf[target] \in lent

\* Everything the hooks name can be found, and their expressions have answers.
Ready ==
  /\ pc # "dead"
  /\ \A h \in Hook :
       /\ Listed(ToOpen(h)) \subseteq mapped
       /\ \/ h \in known /\ HomeOf[PreferredOf[h]] \in mapped
          \/ h \notin known /\ Visible(h) # {}

\* A caller that keeps calling after errors and panics installs every hook once
\* the program has settled with everything in place.
SettledInstalls == <>[]Ready => <>(installed = Hook)

\* The thread runs on and calls again; the engine does not fail every time.
Fairness == WF_vars(Step) /\ SF_vars(Replace)

FairSpec == Spec /\ Fairness
=============================================================================
