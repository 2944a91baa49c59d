------------------------------- MODULE Loader -------------------------------
(***************************************************************************)
(* Lookups of functions and images (src/function.rs, src/com.rs and        *)
(* src/imp/function), one call of the platform's loader at a time, while   *)
(* the program maps and releases images.                                   *)
(*                                                                         *)
(* There is one symbol, which some images export; an image's copy of it is *)
(* at the image's base, so that a base is also the address of a function.  *)
(* A module handle is a base on Windows. On macOS, where it is a reference *)
(* and tells how the image was opened, it is the image if that was as the  *)
(* crate opens it (RTLD_FIRST), and None otherwise. Other threads in the   *)
(* loader act on it as the program does: one thread looks up.              *)
(***************************************************************************)
EXTENDS Naturals, Sequences

CONSTANTS Image,      \* images, and their names
          Base,       \* addresses at which images are mapped
          Exporters,  \* the sets of images that may export the symbol
          Findable,   \* the images that the loader finds by name on disk
          Lists,      \* the lists of images that are asked for
          None

ASSUME LoaderAssumption ==
  /\ Base \subseteq Nat \ {0}
  /\ Exporters \subseteq SUBSET Image
  /\ Findable \subseteq Image
  /\ Lists \subseteq Seq(Image)
  /\ \A list \in Lists : list # <<>>
  /\ None \notin Image

Nowhere == 0

VARIABLES
  build,     \* the platform, whether the crate has auto-prime, what exports the symbol
  base,      \* where each image is mapped
  order,     \* dyld's list of images
  held,      \* the images the program holds
  pinned,    \* the images the crate holds a reference to
  pc,        \* the next call of the lookup
  request,   \* what it is asked for
  todo,      \* names still to be converted to modules
  modules,   \* the modules converted so far
  handle, addr, name, count, index, probe,  \* locals
  result,    \* "found", "absent", "error", or "none" while it runs
  got,       \* the address and the module's name, and whose code was there
  steady,    \* the images mapped since the lookup began
  unmapped,  \* whether one has been unmapped since
  asked      \* the images lookups were about, so far

images  == <<base, order, held>>
locals  == <<handle, addr, name, count, index, probe>>
history == <<steady, unmapped>>
vars == <<build, images, pinned, pc, request, todo, modules, locals, result, got,
          history, asked>>

Mac      == build.os = "macos"
Exporter == build.exporter
Mapped   == {i \in Image : base[i] # Nowhere}
At(b)    == {i \in Image : base[i] = b /\ b # Nowhere}
Free     == Base \ {base[i] : i \in Image}

\* A value that converts to a function or a module. A symbol's text may hold a
\* NUL, a pointer may be null or dangle, and so may a handle, which on macOS
\* may be of an image that was opened without RTLD_FIRST.
Request ==
  [want : {"symbol"}, text : BOOLEAN]
  \cup [want : {"pair"}, names : {list \in Lists : Len(list) = 1}, text : BOOLEAN]
  \cup [want : {"list"}, names : Lists, text : {TRUE}]
  \cup [want : {"address"}, addr : Base \cup {Nowhere}]
  \cup [want : {"slot"}, instance : BOOLEAN, addr : Base \cup {Nowhere}]
  \cup [want : {"handle"}, image : Image \cup {None}, base : Base]

Init == /\ build \in [os : {"macos", "windows"}, prime : BOOLEAN, exporter : Exporters]
        /\ base = [i \in Image |-> Nowhere]
        /\ order = <<>>
        /\ held = {} /\ pinned = {}
        /\ pc = "idle"
        /\ request = [want |-> "symbol", text |-> TRUE]
        /\ todo = <<>> /\ modules = <<>>
        /\ handle = None /\ addr = Nowhere /\ name = None
        /\ count = 0 /\ index = 0 /\ probe = None
        /\ result = "none"
        /\ got = [addr |-> Nowhere, name |-> None, from |-> None]
        /\ steady = {} /\ unmapped = FALSE
        /\ asked = {}

------------------------------------------------------------------------------
(* The loader.                                                               *)

Map(i, b) == /\ base' = [base EXCEPT ![i] = b]
             /\ order' = Append(order, i)

Unmap(i) == /\ base' = [base EXCEPT ![i] = Nowhere]
            /\ \E k \in DOMAIN order :
                 /\ order[k] = i
                 /\ order' = SubSeq(order, 1, k - 1) \o SubSeq(order, k + 1, Len(order))
            /\ steady' = steady \ {i}
            /\ unmapped' = TRUE

Load(i) == /\ held' = held \cup {i}
           /\ IF i \in Mapped THEN UNCHANGED <<base, order>>
              ELSE \E b \in Free : Map(i, b)
           /\ UNCHANGED <<build, pinned, pc, request, todo, modules, locals, result, got,
                          history, asked>>

Release(i) == /\ i \in held
              /\ held' = held \ {i}
              /\ IF i \in pinned \/ i = probe THEN UNCHANGED <<base, order, history>>
                 ELSE Unmap(i)
              /\ UNCHANGED <<build, pinned, pc, request, todo, modules, locals, result, got,
                             asked>>

------------------------------------------------------------------------------
(* How a lookup goes on, and how it ends.                                    *)

Go(next) == pc' = next /\ UNCHANGED <<result, got>>

End(outcome) == /\ pc' = "idle"
                /\ result' = outcome
                /\ UNCHANGED got

\* The variants of ModuleError, SymbolError, FunctionError and ComError that
\* finish_install takes for absence: an image or a symbol that is not there, but
\* not a bad name, an image that cannot be loaded or an owner that is not known.
IsAbsent(error) == error \in {"NotFound", "Resolve"}

Fail(error) == End(IF IsAbsent(error) THEN "absent" ELSE "error")

\* A function at `a` in a module of the name `n`.
Found(a, n) == /\ pc' = "idle"
               /\ result' = "found"
               /\ got' = [addr |-> a, name |-> n,
                          from |-> IF At(a) = {} THEN None ELSE CHOOSE i \in At(a) : TRUE]

\* `module_name_from_handle` and `resolve_symbol_global` start.
Recover == IF Mac THEN "count" ELSE "file_name"
Global  == IF Mac THEN "dlsym" ELSE "walk"

\* An address without an owner: for a symbol, `.ok()?` makes it a failed lookup.
Unowned == IF request.want \in {"symbol", "list"} THEN "Resolve" ELSE "Unavailable"

Begin(r) ==
  /\ pc = "idle"
  /\ request' = r
  /\ todo' = IF r.want \in {"pair", "list"} THEN r.names ELSE <<>>
  /\ modules' = <<>>
  /\ handle' = IF r.want # "handle" THEN None ELSE IF Mac THEN r.image ELSE r.base
  /\ addr' = IF r.want \in {"address", "slot"} THEN r.addr ELSE Nowhere
  /\ name' = None /\ count' = 0 /\ index' = 0
  /\ steady' = Mapped /\ unmapped' = FALSE
  /\ result' = "none"
  /\ pc' = CASE r.want = "symbol"          -> IF r.text THEN Global ELSE "invalid"
             [] r.want \in {"pair", "list"} -> "open"
             [] r.want = "address"         -> IF r.addr = Nowhere THEN "invalid" ELSE "owner"
             [] r.want = "slot"            -> "slot"
             [] r.want = "handle"          -> Recover
  /\ r.want = "slot" => ~Mac
  /\ UNCHANGED <<build, images, pinned, probe, got, asked>>

\* A NUL in a name, or a null pointer.
Invalid == /\ pc = "invalid"
           /\ Fail(IF request.want = "address" THEN "Unavailable" ELSE "InvalidName")
           /\ UNCHANGED <<build, images, pinned, request, todo, modules, locals, history, asked>>

\* `ComMethodId::resolve_on`: a null instance, a null slot, or an address.
ReadSlot == /\ pc = "slot"
            /\ CASE ~request.instance                    -> Fail("NullInstance")
                 [] request.instance /\ addr = Nowhere -> Fail("MissingMethod")
                 [] OTHER                              -> Go("owner")
            /\ UNCHANGED <<build, images, pinned, request, todo, modules, locals, history, asked>>

------------------------------------------------------------------------------
(* From a name to a module: `IntoModule for CString`.                        *)

HandleOf(i) == IF Mac THEN i ELSE base[i]

\* `dlopen(RTLD_NOLOAD)` takes a reference, `GetModuleHandleW` none.
OpenLoaded ==
  /\ pc = "open"
  /\ LET i == Head(todo)
     IN  /\ asked' = asked \cup {i}
         /\ IF i \in Mapped
            THEN /\ handle' = HandleOf(i)
                 /\ pinned' = IF Mac THEN pinned \cup {i} ELSE pinned
                 /\ Go(Recover)
            ELSE /\ UNCHANGED <<handle, pinned>>
                 /\ IF build.prime THEN Go("prime") ELSE Fail("NotFound")
  /\ UNCHANGED <<build, images, request, todo, modules, addr, name, count, index, probe,
                 history>>

\* `dlopen` and `LoadLibraryW` both do.
Prime ==
  /\ pc = "prime"
  /\ LET i == Head(todo)
     IN  \/ /\ i \in Mapped
            /\ pinned' = pinned \cup {i}
            /\ handle' = HandleOf(i)
            /\ Go(Recover)
            /\ UNCHANGED <<base, order>>
         \/ /\ i \in Findable \ Mapped
            /\ pinned' = pinned \cup {i}
            /\ \E b \in Free : Map(i, b) /\ handle' = IF Mac THEN i ELSE b
            /\ Go(Recover)
         \/ /\ i \notin Findable \cup Mapped
            /\ Fail("LoadFailed")
            /\ UNCHANGED <<base, order, pinned, handle>>
  /\ UNCHANGED <<build, held, request, todo, modules, addr, name, count, index, probe,
                 history, asked>>

\* The handle has the name n, or None if it could not be recovered: a handle
\* that was passed in is then refused, and a name keeps its own text.
Named(n) ==
  IF request.want = "handle"
  THEN /\ IF n = None THEN Fail("Unavailable") ELSE End("found")
       /\ modules' = IF n = None THEN <<>> ELSE <<[handle |-> handle, name |-> n]>>
       /\ UNCHANGED todo
  ELSE /\ modules' = Append(modules, [handle |-> handle, name |-> n])
       /\ todo' = Tail(todo)
       /\ Go(IF Len(todo) > 1 THEN "open" ELSE IF request.text THEN "find" ELSE "invalid")

CountImages ==
  /\ pc = "count"
  /\ count' = Len(order)
  /\ index' = 1
  /\ Go("name_at")
  /\ UNCHANGED <<build, images, pinned, request, todo, modules, handle, addr, name, probe,
                 history, asked>>

\* Mutant: the last image is not looked at.
NameAtShort ==
  /\ pc = "name_at"
  /\ IF index >= count THEN Named(None) /\ UNCHANGED <<name, index>>
     ELSE /\ UNCHANGED <<todo, modules>>
          /\ IF index > Len(order)
             THEN Go("name_at") /\ index' = index + 1 /\ UNCHANGED name
             ELSE Go("probe") /\ name' = order[index] /\ UNCHANGED index
  /\ UNCHANGED <<build, images, pinned, request, handle, addr, count, probe, history, asked>>

\* `_dyld_get_image_name`, null past the end of a list that has shrunk.
NameAt ==
  /\ pc = "name_at"
  /\ IF index > count THEN Named(None) /\ UNCHANGED <<name, index>>
     ELSE /\ UNCHANGED <<todo, modules>>
          /\ IF index > Len(order)
             THEN Go("name_at") /\ index' = index + 1 /\ UNCHANGED name
             ELSE Go("probe") /\ name' = order[index] /\ UNCHANGED index
  /\ UNCHANGED <<build, images, pinned, request, handle, addr, count, probe, history, asked>>

Probe ==
  /\ pc = "probe"
  /\ IF name \in Mapped THEN Go("close") /\ probe' = name /\ UNCHANGED index
     ELSE Go("name_at") /\ index' = index + 1 /\ UNCHANGED probe
  /\ UNCHANGED <<build, images, pinned, request, todo, modules, handle, addr, name, count,
                 history, asked>>

\* Mutant: a candidate that does not match is not closed.
CloseMatching ==
  /\ pc = "close"
  /\ probe' = None
  /\ IF probe = handle THEN Named(name) /\ UNCHANGED <<index, pinned>>
     ELSE Go("name_at") /\ index' = index + 1 /\ pinned' = pinned \cup {probe}
          /\ UNCHANGED <<todo, modules>>
  /\ UNCHANGED <<build, images, request, handle, addr, name, count, history, asked>>

\* The comparison, of handles opened with RTLD_FIRST, and `dlclose`, which
\* unmaps an image that was released.
Close ==
  /\ pc = "close"
  /\ probe' = None
  /\ IF probe \in held \cup pinned THEN UNCHANGED <<base, order, history>> ELSE Unmap(probe)
  /\ IF probe = handle THEN Named(name) /\ UNCHANGED index
     ELSE Go("name_at") /\ index' = index + 1 /\ UNCHANGED <<todo, modules>>
  /\ UNCHANGED <<build, held, pinned, request, handle, addr, name, count, asked>>

\* `GetModuleFileNameW` of whatever is at the base.
FileName ==
  /\ pc = "file_name"
  /\ \/ \E i \in At(handle) : Named(i)
     \/ At(handle) = {} /\ Named(None)
  /\ UNCHANGED <<build, images, pinned, request, locals, history, asked>>

------------------------------------------------------------------------------
(* From a symbol to a function.                                              *)

\* The images that a handle stands for: at most one.
Behind(h) == IF Mac THEN {h} \cap Mapped ELSE At(h)

\* Mutant: a symbol that a module lacks is looked for in the process.
FindAnywhere ==
  /\ pc = "find"
  /\ LET m == Head(modules)
         here == Behind(m.handle) \cap Exporter
     IN  IF here # {}
         THEN /\ \E i \in here : Found(base[i], IF m.name = None THEN request.names[1] ELSE m.name)
              /\ UNCHANGED <<modules, index>>
         ELSE /\ modules' = Tail(modules)
              /\ index' = Nowhere
              /\ IF Len(modules) > 1 THEN Go("find") ELSE Go(Global)
  /\ UNCHANGED <<build, images, pinned, request, todo, handle, addr, name, count, probe,
                 history, asked>>

\* `dlsym(handle)` or `GetProcAddress`, in one module after the other; a list
\* ends in a search of the process, a pair in absence.
Find ==
  /\ pc = "find"
  /\ LET m == Head(modules)
         here == Behind(m.handle) \cap Exporter
     IN  IF here # {}
         THEN /\ \E i \in here : Found(base[i], IF m.name = None THEN request.names[1] ELSE m.name)
              /\ UNCHANGED <<modules, index>>
         ELSE /\ modules' = Tail(modules)
              /\ index' = Nowhere
              /\ IF Len(modules) > 1 THEN Go("find")
                 ELSE IF request.want = "list" THEN Go(Global) ELSE Fail("Resolve")
  /\ UNCHANGED <<build, images, pinned, request, todo, handle, addr, name, count, probe,
                 history, asked>>

\* `dlsym(RTLD_DEFAULT)`: the first image of the list that has it.
FindGlobal ==
  /\ pc = "dlsym"
  /\ \/ /\ \A k \in DOMAIN order : order[k] \notin Exporter
        /\ Fail("Resolve")
        /\ UNCHANGED addr
     \/ \E k \in DOMAIN order :
          /\ order[k] \in Exporter
          /\ \A j \in 1 .. (k - 1) : order[j] \notin Exporter
          /\ addr' = base[order[k]]
          /\ Go("owner")
  /\ UNCHANGED <<build, images, pinned, request, todo, modules, handle, name, count, index,
                 probe, history, asked>>

\* `dladdr`, or `DetourGetContainingModule`: what is at the address now.
Owner ==
  /\ pc = "owner"
  /\ \/ At(addr) = {} /\ Fail(Unowned) /\ UNCHANGED <<name, handle>>
     \/ \E i \in At(addr) :
          IF Mac THEN Go("retain") /\ name' = i /\ UNCHANGED handle
          ELSE Go("owner_name") /\ handle' = addr /\ UNCHANGED name
  /\ UNCHANGED <<build, images, pinned, request, todo, modules, addr, count, index, probe,
                 history, asked>>

\* `open_loaded_unix_module` of the name that dladdr gave.
Retain ==
  /\ pc = "retain"
  /\ IF name \in Mapped
     THEN /\ Found(addr, name)
          /\ pinned' = pinned \cup {name}
          /\ asked' = asked \cup {name}
     ELSE Fail(Unowned) /\ UNCHANGED <<pinned, asked>>
  /\ UNCHANGED <<build, images, request, todo, modules, locals, history>>

OwnerName ==
  /\ pc = "owner_name"
  /\ \/ At(handle) = {} /\ Fail("Unavailable")
     \/ \E i \in At(handle) : Found(addr, i)
  /\ UNCHANGED <<build, images, pinned, request, todo, modules, locals, history, asked>>

\* `DetourEnumerateModules`: the next base that is in use.
Walk ==
  /\ pc = "walk"
  /\ LET above == {base[i] : i \in Mapped} \cap {b \in Base : b > index}
     IN  IF above = {} THEN Fail("Resolve") /\ UNCHANGED <<index, handle>>
         ELSE /\ Go("export")
              /\ \E b \in above : /\ \A c \in above : b <= c
                                  /\ index' = b
                                  /\ handle' = b
  /\ UNCHANGED <<build, images, pinned, request, todo, modules, addr, name, count, probe,
                 history, asked>>

Export ==
  /\ pc = "export"
  /\ IF At(handle) \cap Exporter = {} THEN Go("walk") /\ UNCHANGED addr
     ELSE Go("walk_name") /\ addr' = handle
  /\ UNCHANGED <<build, images, pinned, request, todo, modules, handle, name, count, index,
                 probe, history, asked>>

\* Mutant: an image that is gone starts the walk again.
WalkNameAgain ==
  /\ pc = "walk_name"
  /\ \/ At(handle) = {} /\ Go("walk") /\ index' = Nowhere
     \/ \E i \in At(handle) : Found(addr, i) /\ UNCHANGED index
  /\ UNCHANGED <<build, images, pinned, request, todo, modules, handle, addr, name, count,
                 probe, history, asked>>

\* Mutant: an image that is gone ends the walk.
WalkNameOrEnd ==
  /\ pc = "walk_name"
  /\ \/ At(handle) = {} /\ Fail("Resolve")
     \/ \E i \in At(handle) : Found(addr, i)
  /\ UNCHANGED <<build, images, pinned, request, todo, modules, locals, history, asked>>

\* `module_name_from_handle_impl(..).ok()?`: an image that is gone is passed over.
WalkName ==
  /\ pc = "walk_name"
  /\ \/ At(handle) = {} /\ Go("walk")
     \/ \E i \in At(handle) : Found(addr, i)
  /\ UNCHANGED <<build, images, pinned, request, todo, modules, locals, history, asked>>

------------------------------------------------------------------------------

Step == \/ Invalid \/ ReadSlot
        \/ OpenLoaded \/ Prime
        \/ CountImages \/ NameAt \/ Probe \/ Close \/ FileName
        \/ Find \/ FindGlobal \/ Owner \/ Retain \/ OwnerName
        \/ Walk \/ Export \/ WalkName

Next == \/ Step
        \/ \E r \in Request : Begin(r)
        \/ \E i \in Image : Load(i) \/ Release(i)

Spec == Init /\ [][Next]_vars

\* A thread in a lookup runs on. The program may do what it likes.
Fairness == WF_vars(Step)

FairSpec == Spec /\ Fairness

------------------------------------------------------------------------------
(* Properties.                                                               *)

\* A function that is asked for in one image is that image's, and a list's is
\* outside the list only if no image of it that is mapped has the symbol. On
\* Windows this needs the image to stay, for the handle is no reference
\* (GetModuleHandleW; function.rs: "it only searches this specific module").
ScopeHonoured ==
  result = "found" /\ request.want \in {"pair", "list"} =>
    \/ \E k \in DOMAIN request.names : got.from = request.names[k]
    \/ ~Mac /\ unmapped
    \/ /\ request.want = "list"
       /\ \A k \in DOMAIN request.names : request.names[k] \notin Exporter

\* Where a request may find its function.
Reach == IF request.want = "pair" THEN {request.names[1]} ELSE Image

\* A symbol is reported absent, which skips an optional hook silently, only if
\* no image that had it was there all the time; on macOS also if one has been
\* unmapped, which the search for an owner takes for absence (unix.rs: `.ok()?`).
AbsenceIsReal ==
  result = "absent" /\ request.want # "list" =>
    \/ steady \cap Exporter \cap Reach = {}
    \/ Mac /\ unmapped /\ request.want = "symbol"

\* A module has the name of the image its handle stands for, and a handle that
\* is passed in is not refused, unless an image was unmapped meanwhile: the
\* scan's indices then shift under it (unix.rs, `_dyld_get_image_name`). On macOS
\* that goes for handles opened as the crate opens them; any other is refused,
\* whatever is mapped (unix.rs 132-135; function.rs: "one already resolved
\* module handle").
NameRecovered ==
  /\ \/ unmapped
     \/ /\ \A k \in DOMAIN modules : Behind(modules[k].handle) = {modules[k].name}
        /\ result = "error" /\ request.want = "handle" => Behind(handle) \cap steady = {}
  /\ Mac /\ request.want = "handle" /\ request.image = None => result # "found"

\* No lookup keeps an image mapped that it was not about: scanning every image
\* leaves none behind, even one that is released while it is being looked at.
KeepsOnlyAsked == Mapped \subseteq held \cup asked \cup {probe}
                  /\ (pc = "idle" => probe = None)

\* Every lookup ends, whatever is mapped and unmapped meanwhile.
LookupReturns == pc # "idle" ~> pc = "idle"
=============================================================================
