---------------------------- MODULE Loader_proofs ----------------------------
(***************************************************************************)
(* Proofs about Loader, for any images, addresses and lists: no lookup     *)
(* leaves an image behind, a scoped lookup stays in its scope, what is     *)
(* reported absent is absent, a module has its image's name, and a lookup  *)
(* takes finitely many calls of the loader.                                *)
(***************************************************************************)
EXTENDS Loader, TLAPS, WellFoundedInduction

\* Two images are never at one address.
Apart == /\ base \in [Image -> Base \cup {Nowhere}]
         /\ \A i, j \in Image : base[i] = base[j] /\ base[i] # Nowhere => i = j

\* The crate's references keep their images mapped, and it remembers them.
Kept == /\ pinned \subseteq Mapped \cap asked
        /\ IF pc = "close" THEN probe \in Mapped ELSE probe = None
        /\ pc = "prime" => Head(todo) \in asked
        /\ Mapped \subseteq held \cup asked \cup {probe}

LEMMA KeptInit == Init => Apart /\ Kept
BY LoaderAssumption DEF Init, Apart, Kept, Mapped, Nowhere

LEMMA Invisible ==
  ASSUME Apart, Kept, UNCHANGED <<base, held, pinned, probe, asked>>,
         pc # "close", pc' \notin {"close", "prime"}
  PROVE  Apart' /\ Kept'
BY DEF Apart, Kept, Mapped

LEMMA UnmapStep ==
  ASSUME Apart, NEW i \in Image, Unmap(i)
  PROVE  Apart' /\ Mapped' = Mapped \ {i}
BY LoaderAssumption DEF Apart, Unmap, Mapped, Nowhere

LEMMA MapStep ==
  ASSUME Apart, NEW i \in Image \ Mapped, NEW b \in Free, Map(i, b)
  PROVE  Apart' /\ Mapped' = Mapped \cup {i}
BY LoaderAssumption DEF Apart, Map, Mapped, Free, Nowhere

LEMMA KeptStep == Apart /\ Kept /\ [Next]_vars => Apart' /\ Kept'
<1> SUFFICES ASSUME Apart, Kept, [Next]_vars PROVE Apart' /\ Kept'
  OBVIOUS
<1> None \notin Image
  BY LoaderAssumption
<1>1. ASSUME NEW i \in Image, Load(i) PROVE Apart' /\ Kept'
  <2>1. Apart' /\ Mapped' = Mapped \cup {i}
    <3>1. CASE i \in Mapped
      BY <1>1, <3>1 DEF Load, Apart, Mapped
    <3>2. CASE i \notin Mapped
      BY <1>1, <3>2, MapStep DEF Load
    <3>3. QED
      BY <3>1, <3>2
  <2>2. QED
    BY <1>1, <2>1 DEF Load, Kept, locals
<1>2. ASSUME NEW i \in Image, Release(i) PROVE Apart' /\ Kept'
  <2>1. CASE i \in pinned \/ i = probe
    BY <1>2, <2>1 DEF Release, Apart, Kept, Mapped, locals
  <2>2. CASE i \notin pinned /\ i # probe
    <3>1. Apart' /\ Mapped' = Mapped \ {i}
      BY <1>2, <2>2, UnmapStep DEF Release
    <3>2. QED
      BY <1>2, <2>2, <3>1 DEF Release, Kept, locals
  <2>3. QED
    BY <2>1, <2>2
<1>3. ASSUME NEW r \in Request, Begin(r) PROVE Apart' /\ Kept'
  <2>1. pc # "close" /\ pc' \notin {"close", "prime"}
    BY <1>3 DEF Begin, Recover, Global, Request
  <2>2. QED
    BY <1>3, <2>1, Invisible DEF Begin, images
<1>4. CASE Invalid \/ ReadSlot
  BY <1>4, Invisible DEF Invalid, ReadSlot, Fail, End, Go, images, locals
<1>5. CASE OpenLoaded
  <2>1. UNCHANGED <<base, held, probe>> /\ Head(todo)' = Head(todo)
    BY <1>5 DEF OpenLoaded, images
  <2>2. asked' = asked \cup {Head(todo)} /\ pc # "close" /\ pc' # "close"
    BY <1>5 DEF OpenLoaded, Go, Fail, End, Recover
  <2>3. pinned' \subseteq pinned \cup (Mapped \cap {Head(todo)})
    BY <1>5 DEF OpenLoaded
  <2>4. QED
    BY <2>1, <2>2, <2>3 DEF Apart, Kept, Mapped
<1>6. CASE Prime
  <2>1. PICK i : i = Head(todo)
    OBVIOUS
  <2>2. /\ Apart' /\ pc' # "close" /\ pc' # "prime"
        /\ Mapped' = Mapped \cup pinned' /\ pinned' \subseteq pinned \cup {i}
    <3>1. CASE i \in Mapped
      <4>1. /\ UNCHANGED base
            /\ pinned' = pinned \cup {i}
            /\ pc' \in {"count", "file_name"}
        BY <1>6, <2>1, <3>1 DEF Prime, Go, Recover
      <4>2. QED
        BY <3>1, <4>1 DEF Apart, Mapped, Kept
    <3>2. CASE i \in Findable \ Mapped
      <4>1. /\ i \in Image
            /\ \E b \in Free : Map(i, b)
            /\ pinned' = pinned \cup {i}
            /\ pc' \in {"count", "file_name"}
        BY <1>6, <2>1, <3>2, LoaderAssumption DEF Prime, Go, Recover
      <4>2. QED
        BY <3>2, <4>1, MapStep DEF Kept
    <3>3. CASE i \notin Findable \cup Mapped
      BY <1>6, <2>1, <3>3 DEF Prime, Apart, Mapped, Kept, Fail, End
    <3>4. QED
      BY <3>1, <3>2, <3>3
  <2>3. QED
    BY <1>6, <2>1, <2>2 DEF Prime, Kept
<1>7. CASE CountImages \/ NameAt \/ Find \/ FindGlobal \/ FileName
  BY <1>7, Invisible
  DEF CountImages, NameAt, Find, FindGlobal, FileName, Named, Go, Fail, End, Found, Global,
      images, locals
<1>8. CASE Probe
  <2>1. UNCHANGED <<base, held, pinned, asked>> /\ pc # "close"
    BY <1>8 DEF Probe, images
  <2>2. CASE name \in Mapped
    BY <1>8, <2>1, <2>2 DEF Probe, Go, Apart, Kept, Mapped
  <2>3. CASE name \notin Mapped
    BY <1>8, <2>1, <2>3 DEF Probe, Go, Apart, Kept, Mapped
  <2>4. QED
    BY <2>2, <2>3
<1>9. CASE Close
  <2>1. probe \in Mapped /\ probe' = None /\ UNCHANGED held /\ UNCHANGED asked
    BY <1>9 DEF Close, Kept
  <2>2. UNCHANGED pinned /\ pc' # "close" /\ pc' # "prime"
    <3>1. CASE probe = handle
      BY <1>9, <3>1 DEF Close, Named, Go, Fail, End
    <3>2. CASE probe # handle
      BY <1>9, <3>2 DEF Close, Go
    <3>3. QED
      BY <3>1, <3>2
  <2>3. CASE probe \in held \cup pinned
    BY <1>9, <2>1, <2>2, <2>3 DEF Close, Apart, Kept, Mapped
  <2>4. CASE probe \notin held \cup pinned
    <3>1. Apart' /\ Mapped' = Mapped \ {probe}
      BY <1>9, <2>1, <2>4, UnmapStep DEF Close, Mapped
    <3>2. QED
      BY <2>1, <2>2, <2>4, <3>1 DEF Kept
  <2>5. QED
    BY <2>3, <2>4
<1>10. CASE Owner \/ OwnerName \/ Walk \/ Export \/ WalkName
  BY <1>10, Invisible
  DEF Owner, OwnerName, Walk, Export, WalkName, Go, Fail, End, Found, images, locals
<1>11. CASE Retain
  BY <1>11 DEF Retain, Apart, Kept, Mapped, Found, Fail, End, images, locals
<1>12. CASE UNCHANGED vars
  BY <1>12 DEF vars, Apart, Kept, Mapped, images, locals
<1>13. QED
  BY <1>1, <1>2, <1>3, <1>4, <1>5, <1>6, <1>7, <1>8, <1>9, <1>10, <1>11, <1>12 DEF Next, Step

\* No lookup keeps an image mapped that it was not about (unix.rs
\* loaded_macos_module_name_by_handle), for any number of images.
THEOREM KeepsTheorem == Spec => []KeepsOnlyAsked
<1>1. Kept => KeepsOnlyAsked
  BY DEF Kept, KeepsOnlyAsked
<1>2. QED
  BY <1>1, KeptInit, KeptStep, PTL DEF Spec

------------------------------------------------------------------------------
(* A lookup in one image or in a list of images stays there.                 *)

Scoped     == request.want \in {"pair", "list"}
Asked      == {request.names[k] : k \in DOMAIN request.names}
Elements(s)  == {s[k] : k \in DOMAIN s}
HandlesOf(s) == {s[k].handle : k \in DOMAIN s}
Waiting    == Elements(todo)
Handles    == HandlesOf(modules)
Handle     == Image \cup Base \cup {Nowhere}
Module     == [handle : Handle, name : Image \cup {None}]
Converting == {"open", "prime", "count", "name_at", "probe", "close", "file_name"}
Naming     == Converting \ {"open", "prime"}
Everywhere == {"dlsym", "walk", "export", "walk_name", "owner", "retain", "owner_name"}

\* On Windows an image may have gone since its handle was taken.
Stale == ~Mac /\ unmapped

\* The handle h is image i's: a reference on macOS, a base on Windows.
Stands(h, i) == IF Mac THEN h = i /\ i \in pinned ELSE h = base[i] /\ h # Nowhere

\* The modules are of images that are asked for.
Inside == Stale \/ \A h \in Handles : \E i \in Asked : Stands(h, i)

\* Every image of the list is waiting, or has its module.
Convert ==
  /\ todo \in Seq(Image) /\ todo # <<>> /\ Waiting \subseteq Asked
  /\ modules \in Seq(Module)
  /\ Inside
  /\ Stale \/ \A i \in Asked : i \in Waiting \/ \E h \in Handles : Stands(h, i)
  /\ pc \in Naming => handle \in Handle /\ (Stale \/ Stands(handle, Head(todo)))
  /\ pc = "close" => name \in Image

\* Every image of the list has its module, or lacks the symbol.
Search ==
  /\ modules \in Seq(Module) /\ modules # <<>>
  /\ Inside
  /\ Stale \/ \A i \in Asked \cap Exporter : \E h \in Handles : Stands(h, i)

Scope ==
  Scoped =>
    /\ Asked \subseteq Image
    /\ pc \in Converting => Convert
    /\ pc = "find" => Search
    /\ pc \in Everywhere => request.want = "list" /\ (Stale \/ Asked \cap Exporter = {})
    /\ pc # "slot"

Running == pc # "idle" => result = "none"

\* Of what a lookup relies on, steps take nothing away; or else an image is
\* unmapped.
Lasting == /\ UNCHANGED <<build, request>>
           /\ pinned \subseteq pinned'
           /\ unmapped => unmapped'
           /\ unmapped' \/ \A i \in Mapped : base'[i] = base[i]

LEMMA LastingStep ==
  ASSUME Apart, Kept,
         Step \/ \E i \in Image : Load(i) \/ Release(i)
  PROVE  Lasting
<1>1. ASSUME NEW i \in Image, Load(i) PROVE Lasting
  BY <1>1 DEF Load, Lasting, Map, Apart, Mapped, history
<1>2. ASSUME NEW i \in Image, Release(i) PROVE Lasting
  BY <1>2 DEF Release, Lasting, Unmap, history
<1>3. CASE Prime
  BY <1>3 DEF Prime, Lasting, Map, Apart, Mapped, history
<1>4. CASE Close
  <2>1. UNCHANGED <<build, request, pinned>>
    BY <1>4 DEF Close
  <2>2. \/ UNCHANGED <<base, unmapped>>
        \/ unmapped'
    BY <1>4 DEF Close, Unmap, history
  <2>3. QED
    BY <2>1, <2>2 DEF Lasting
<1>5. CASE \/ Invalid \/ ReadSlot \/ OpenLoaded \/ CountImages \/ NameAt \/ Probe
           \/ FileName \/ Find \/ FindGlobal \/ Owner \/ Retain \/ OwnerName
           \/ Walk \/ Export \/ WalkName
  <2>1. UNCHANGED <<build, request, base, unmapped>>
    BY <1>5
    DEF Invalid, ReadSlot, OpenLoaded, CountImages, NameAt, Probe, FileName, Find, FindGlobal,
        Owner, Retain, OwnerName, Walk, Export, WalkName, images, history
  <2>2. pinned \subseteq pinned'
    BY <1>5
    DEF Invalid, ReadSlot, OpenLoaded, CountImages, NameAt, Probe, FileName, Find, FindGlobal,
        Owner, Retain, OwnerName, Walk, Export, WalkName
  <2>3. QED
    BY <2>1, <2>2 DEF Lasting
<1>6. QED
  BY <1>1, <1>2, <1>3, <1>4, <1>5 DEF Step

LEMMA StandsOn ==
  ASSUME Apart, Kept, Lasting
  PROVE  /\ Stale => Stale'
         /\ \A h, i : i \in Image /\ Stands(h, i) => Stale' \/ Stands(h, i)'
         /\ Scoped' = Scoped /\ Asked' = Asked /\ Exporter' = Exporter /\ Mac' = Mac
BY DEF Apart, Kept, Lasting, Stale, Stands, Mac, Mapped, Scoped, Asked, Exporter

\* What a handle stands for is what is found through it.
LEMMA Through ==
  ASSUME Apart, Kept, NEW i \in Image, NEW h, Stands(h, i)
  PROVE  Behind(h) = {i} /\ At(base[i]) = {i}
<1>1. base[i] # Nowhere
  BY DEF Stands, Kept, Mapped
<1>2. At(base[i]) = {i}
  BY <1>1 DEF At, Apart
<1>3. Behind(h) = {i}
  BY <1>1, <1>2 DEF Behind, Stands, Mapped
<1>4. QED
  BY <1>2, <1>3

LEMMA RunningStep == Running /\ [Next]_vars => Running'
<1> SUFFICES ASSUME Running, [Next]_vars PROVE Running'
  OBVIOUS
<1>1. CASE \E i \in Image : Load(i) \/ Release(i)
  BY <1>1 DEF Load, Release, Running
<1>2. CASE \E r \in Request : Begin(r)
  BY <1>2 DEF Begin, Running
<1>3. CASE Invalid \/ ReadSlot \/ OpenLoaded \/ Prime \/ CountImages \/ Probe
  BY <1>3 DEF Invalid, ReadSlot, OpenLoaded, Prime, CountImages, Probe, Go, Fail, End, Running
<1>4. CASE NameAt \/ Close \/ FileName
  BY <1>4 DEF NameAt, Close, FileName, Named, Go, Fail, End, Running
<1>5. CASE Find \/ FindGlobal \/ Owner \/ Retain \/ OwnerName
  BY <1>5 DEF Find, FindGlobal, Owner, Retain, OwnerName, Found, Go, Fail, End, Running
<1>6. CASE Walk \/ Export \/ WalkName
  BY <1>6 DEF Walk, Export, WalkName, Found, Go, Fail, End, Running
<1>7. CASE UNCHANGED vars
  BY <1>7 DEF vars, Running
<1>8. QED
  BY <1>1, <1>2, <1>3, <1>4, <1>5, <1>6, <1>7 DEF Next, Step

LEMMA Appended ==
  ASSUME NEW s \in Seq(Module), NEW m \in Module
  PROVE  /\ Append(s, m) \in Seq(Module)
         /\ HandlesOf(Append(s, m)) = HandlesOf(s) \cup {m.handle}
<1> DEFINE t == Append(s, m)
<1>1. /\ t \in Seq(Module) /\ Len(t) = Len(s) + 1
      /\ \A k \in 1 .. Len(s) : t[k] = s[k]
      /\ t[Len(s) + 1] = m
  OBVIOUS
<1>2. DOMAIN t = 1 .. (Len(s) + 1) /\ DOMAIN s = 1 .. Len(s) /\ Len(s) \in Nat
  BY <1>1
<1> HIDE DEF t
<1>3. HandlesOf(t) \subseteq HandlesOf(s) \cup {m.handle}
  <2> SUFFICES ASSUME NEW k \in DOMAIN t PROVE t[k].handle \in HandlesOf(s) \cup {m.handle}
    BY DEF HandlesOf
  <2>1. CASE k = Len(s) + 1
    BY <1>1, <2>1
  <2>2. CASE k # Len(s) + 1
    <3>1. k \in DOMAIN s /\ t[k] = s[k]
      BY <1>1, <1>2, <2>2
    <3>2. QED
      BY <3>1 DEF HandlesOf
  <2>3. QED
    BY <2>1, <2>2
<1>4. HandlesOf(s) \cup {m.handle} \subseteq HandlesOf(t)
  <2>1. Len(s) + 1 \in DOMAIN t
    BY <1>2
  <2>2. \A k \in DOMAIN s : k \in DOMAIN t /\ t[k] = s[k]
    BY <1>1, <1>2
  <2>3. QED
    BY <1>1, <2>1, <2>2 DEF HandlesOf
<1>5. QED
  BY <1>1, <1>3, <1>4 DEF t

LEMMA Rest ==
  ASSUME NEW S, NEW s \in Seq(S), s # <<>>
  PROVE  /\ Tail(s) \in Seq(S)
         /\ Head(s) \in S
         /\ Len(Tail(s)) = Len(s) - 1 /\ Len(s) \in Nat \ {0}
         /\ 1 \in DOMAIN s /\ s[1] = Head(s)
         /\ \A k \in DOMAIN s : k # 1 => k - 1 \in DOMAIN Tail(s) /\ s[k] = Tail(s)[k - 1]
         /\ \A k \in DOMAIN Tail(s) : k + 1 \in DOMAIN s /\ Tail(s)[k] = s[k + 1]
<1>1. Len(s) \in Nat \ {0} /\ DOMAIN s = 1 .. Len(s)
  OBVIOUS
<1>2. Tail(s) \in Seq(S) /\ Head(s) = s[1] /\ Len(Tail(s)) = Len(s) - 1
  BY <1>1
<1>3. DOMAIN Tail(s) = 1 .. (Len(s) - 1)
  BY <1>2
<1>4. \A k \in 1 .. (Len(s) - 1) : Tail(s)[k] = s[k + 1]
  BY <1>1
<1>5. Head(s) \in S
  BY <1>1, <1>2
<1>6. \A k \in 1 .. Len(s) : k # 1 => k - 1 \in 1 .. (Len(s) - 1) /\ s[k] = Tail(s)[k - 1]
  BY <1>1, <1>4
<1>7. \A k \in 1 .. (Len(s) - 1) : k + 1 \in 1 .. Len(s)
  BY <1>1
<1>8. QED
  BY <1>1, <1>2, <1>3, <1>4, <1>5, <1>6, <1>7

LEMMA RestElements ==
  ASSUME NEW S, NEW s \in Seq(S), s # <<>>
  PROVE  /\ Elements(s) = {Head(s)} \cup Elements(Tail(s))
         /\ Len(s) > 1 => Tail(s) # <<>>
         /\ ~(Len(s) > 1) => Elements(Tail(s)) = {}
<1> DEFINE t == Tail(s)
<1>1. /\ t \in Seq(S)
      /\ Len(t) = Len(s) - 1 /\ Len(s) \in Nat \ {0}
      /\ 1 \in DOMAIN s /\ s[1] = Head(s)
      /\ \A k \in DOMAIN s : k # 1 => k - 1 \in DOMAIN t /\ s[k] = t[k - 1]
      /\ \A k \in DOMAIN t : k + 1 \in DOMAIN s /\ t[k] = s[k + 1]
  BY Rest
<1>2. DOMAIN t = 1 .. Len(t)
  BY <1>1
<1> HIDE DEF t
<1>3. Elements(s) = {Head(s)} \cup Elements(t)
  BY <1>1 DEF Elements
<1>4. Len(s) > 1 => t # <<>>
  BY <1>1
<1>5. ~(Len(s) > 1) => Elements(t) = {}
  BY <1>1, <1>2 DEF Elements
<1>6. QED
  BY <1>3, <1>4, <1>5 DEF t

LEMMA RestHandles ==
  ASSUME NEW s \in Seq(Module), s # <<>>
  PROVE  HandlesOf(s) = {Head(s).handle} \cup HandlesOf(Tail(s))
BY Rest DEF HandlesOf

\* The conversion goes on, or the lookup is over or everywhere as it was.
LEMMA ConvertOn ==
  ASSUME Apart, Kept, Lasting, Scope, UNCHANGED <<todo, modules>>,
         \/ pc \in Converting /\ pc' = "prime"
         \/ pc \in Naming /\ pc' \in Naming /\ handle' = handle
         \/ pc' = pc /\ UNCHANGED <<handle, name>>
         \/ pc \in Everywhere /\ pc' \in Everywhere
         \/ pc' \in {"idle", "invalid"},
         pc' = "close" => name' \in Image \/ (pc' = pc /\ UNCHANGED name)
  PROVE  Scope'
<1> SUFFICES ASSUME Scoped' PROVE Scope'
  BY DEF Scope
<1>1. /\ Scoped /\ Asked' = Asked /\ Exporter' = Exporter /\ request' = request
      /\ Stale => Stale'
      /\ \A h, i : i \in Image /\ Stands(h, i) => Stale' \/ Stands(h, i)'
      /\ Waiting' = Waiting /\ Handles' = Handles
  BY StandsOn DEF Lasting, Waiting, Handles
<1>2. pc' \in Converting => pc \in Converting /\ (pc' = "close" => name' \in Image)
  BY <1>1 DEF Converting, Naming, Everywhere, Scope, Convert
<1>3. CASE pc' \in Converting
  <2>1. Convert /\ Asked \subseteq Image
    BY <1>1, <1>2, <1>3 DEF Scope
  <2>2. Inside'
    BY <1>1, <2>1 DEF Convert, Inside
  <2>3. Stale' \/ \A i \in Asked' : i \in Waiting' \/ \E h \in Handles' : Stands(h, i)'
    BY <1>1, <2>1 DEF Convert
  <2>4. pc' \in Naming => handle' \in Handle /\ (Stale' \/ Stands(handle, Head(todo))')
    BY <1>1, <2>1, Rest DEF Convert, Naming, Converting, Everywhere
  <2>5. Convert'
    BY <1>1, <1>2, <1>3, <2>1, <2>2, <2>3, <2>4 DEF Convert
  <2>6. QED
    BY <1>1, <1>3, <2>1, <2>5 DEF Scope, Converting, Everywhere
<1>4. CASE pc' = "find"
  <2>1. Search
    BY <1>1, <1>4 DEF Scope, Naming, Converting, Everywhere
  <2>2. Search'
    BY <1>1, <2>1 DEF Search, Inside, Scope
  <2>3. QED
    BY <1>1, <1>4, <2>2 DEF Scope, Converting, Everywhere
<1>5. CASE pc' \notin Converting /\ pc' # "find"
  BY <1>1, <1>5 DEF Scope, Converting, Naming, Everywhere
<1>6. QED
  BY <1>3, <1>4, <1>5

\* An image of the list gets its module.
LEMMA NamedStep ==
  ASSUME Apart, Kept, Lasting, Scope, Scoped, pc \in Naming,
         NEW n \in Image \cup {None}, Named(n)
  PROVE  Scope'
<1>1. /\ Scoped' /\ Asked' = Asked /\ Exporter' = Exporter
      /\ Stale => Stale'
      /\ \A h, i : i \in Image /\ Stands(h, i) => Stale' \/ Stands(h, i)'
  BY StandsOn
<1>2. /\ Convert /\ Asked \subseteq Image /\ handle \in Handle
      /\ Stale \/ Stands(handle, Head(todo))
  BY DEF Scope, Naming, Convert
<1> DEFINE m == [handle |-> handle, name |-> n]
<1>3. /\ modules' = Append(modules, m) /\ todo' = Tail(todo)
      /\ pc' = IF Len(todo) > 1 THEN "open" ELSE IF request.text THEN "find" ELSE "invalid"
  BY DEF Named, Scoped, Go
<1>4. modules' \in Seq(Module) /\ Handles' = Handles \cup {handle}
  <2>1. m \in Module
    BY <1>2 DEF Module
  <2>2. QED
    BY <1>2, <1>3, <2>1, Appended DEF Convert, Handles
<1>5. /\ todo' \in Seq(Image) /\ Waiting = {Head(todo)} \cup Waiting'
      /\ Head(todo) \in Asked
      /\ IF Len(todo) > 1 THEN todo' # <<>> ELSE Waiting' = {}
  BY <1>2, <1>3, Rest, RestElements DEF Convert, Waiting
<1>6. Inside'
  BY <1>1, <1>2, <1>4, <1>5 DEF Convert, Inside
<1>7. Stale' \/ \A i \in Asked' : i \in Waiting' \/ \E h \in Handles' : Stands(h, i)'
  BY <1>1, <1>2, <1>4, <1>5 DEF Convert
<1>8. CASE Len(todo) > 1
  <2>1. Convert'
    BY <1>1, <1>2, <1>3, <1>4, <1>5, <1>6, <1>7, <1>8 DEF Convert, Naming, Converting
  <2>2. QED
    BY <1>1, <1>2, <1>3, <1>8, <2>1 DEF Scope, Converting, Everywhere
<1>9. CASE ~(Len(todo) > 1)
  <2>1. modules' # <<>>
    BY <1>2, <1>3 DEF Convert
  <2>2. Search'
    BY <1>1, <1>2, <1>4, <1>5, <1>6, <1>7, <1>9, <2>1 DEF Search
  <2>3. QED
    BY <1>1, <1>2, <1>3, <1>9, <2>2 DEF Scope, Converting, Everywhere
<1>10. QED
  BY <1>8, <1>9

\* A name has its handle.
LEMMA OpenedStep ==
  ASSUME Apart, Kept, Lasting, Scope, Scoped, pc \in Converting,
         UNCHANGED <<todo, modules>>, pc' \in {"count", "file_name"},
         handle' \in Handle, Stands(handle, Head(todo))'
  PROVE  Scope'
<1>1. /\ Scoped' /\ Asked' = Asked /\ Exporter' = Exporter
      /\ Stale => Stale'
      /\ \A h, i : i \in Image /\ Stands(h, i) => Stale' \/ Stands(h, i)'
      /\ Waiting' = Waiting /\ Handles' = Handles
  BY StandsOn DEF Waiting, Handles
<1>2. Convert /\ Asked \subseteq Image
  BY DEF Scope
<1>3. Inside'
  BY <1>1, <1>2 DEF Convert, Inside
<1>4. Stale' \/ \A i \in Asked' : i \in Waiting' \/ \E h \in Handles' : Stands(h, i)'
  BY <1>1, <1>2 DEF Convert
<1>5. handle' \in Handle'
  BY DEF Handle
<1>6. Convert'
  BY <1>1, <1>2, <1>3, <1>4, <1>5 DEF Convert
<1>7. QED
  BY <1>1, <1>2, <1>6 DEF Scope, Converting, Everywhere

LEMMA OpenLoadedStep ==
  ASSUME Apart, Kept, Lasting, Scope, Scoped, OpenLoaded
  PROVE  Scope'
<1>1. /\ Convert /\ pc = "open" /\ UNCHANGED <<build, base, todo, modules>>
  BY DEF OpenLoaded, Scope, Converting, images
<1>2. Head(todo) \in Image
  BY <1>1, Rest DEF Convert
<1>3. CASE Head(todo) \in Mapped
  <2>1. /\ handle' = HandleOf(Head(todo)) /\ pc' \in {"count", "file_name"}
        /\ Mac => Head(todo) \in pinned'
    BY <1>3 DEF OpenLoaded, Go, Recover
  <2>2. handle' \in Handle
    BY <1>2, <2>1 DEF HandleOf, Handle, Apart
  <2>3. Stands(handle, Head(todo))'
    BY <1>1, <1>3, <2>1 DEF Stands, HandleOf, Mac, Mapped
  <2>4. QED
    BY <1>1, <2>1, <2>2, <2>3, OpenedStep DEF Converting
<1>4. CASE Head(todo) \notin Mapped
  <2>1. pc' \in {"prime", "idle"}
    BY <1>4 DEF OpenLoaded, Go, Fail, End
  <2>2. QED
    BY <1>1, <2>1, ConvertOn DEF Converting
<1>5. QED
  BY <1>3, <1>4

LEMMA PrimeStep ==
  ASSUME Apart, Kept, Lasting, Scope, Scoped, Prime
  PROVE  Scope'
<1>1. Convert /\ pc = "prime" /\ UNCHANGED <<build, todo, modules>>
  BY DEF Prime, Scope, Converting
<1>2. PICK i \in Image : i = Head(todo)
  BY <1>1, Rest DEF Convert
<1>3. CASE i \in Mapped \/ i \in Findable \ Mapped
  <2>1. /\ pc' \in {"count", "file_name"} /\ i \in pinned'
        /\ \/ i \in Mapped /\ UNCHANGED base /\ handle' = HandleOf(i)
           \/ i \notin Mapped /\ \E b \in Free : Map(i, b) /\ handle' = IF Mac THEN i ELSE b
    BY <1>2, <1>3 DEF Prime, Go, Recover
  <2>2. handle' \in Handle /\ Stands(handle, i)'
    <3>1. CASE i \in Mapped
      BY <1>1, <1>2, <2>1, <3>1 DEF Stands, HandleOf, Handle, Apart, Mac, Mapped
    <3>2. CASE i \notin Mapped
      <4>1. PICK b \in Free : Map(i, b) /\ handle' = IF Mac THEN i ELSE b
        BY <2>1, <3>2
      <4>2. b \in Base /\ b # Nowhere /\ base'[i] = b
        BY <1>2, <4>1, LoaderAssumption DEF Free, Map, Apart, Nowhere
      <4>3. QED
        BY <1>1, <1>2, <2>1, <4>1, <4>2 DEF Stands, Handle, Mac
    <3>3. QED
      BY <3>1, <3>2
  <2>3. QED
    <3>1. Head(todo)' = i
      BY <1>1, <1>2
    <3>2. Stands(handle, Head(todo))'
      BY <2>2, <3>1 DEF Stands
    <3>3. QED
      BY <1>1, <2>1, <2>2, <3>2, OpenedStep DEF Converting
<1>4. CASE i \notin Mapped /\ i \notin Findable
  <2>1. pc' = "idle"
    BY <1>2, <1>4 DEF Prime, Fail, End
  <2>2. QED
    BY <1>1, <2>1, ConvertOn
<1>5. QED
  BY <1>3, <1>4

\* A module without the symbol is of no image that has it.
LEMMA FindStep ==
  ASSUME Apart, Kept, Lasting, Scope, Scoped, Find
  PROVE  Scope'
<1> DEFINE m == Head(modules)
           here == Behind(m.handle) \cap Exporter
<1>1. /\ Scoped' /\ Asked' = Asked /\ Exporter' = Exporter
      /\ Stale => Stale'
      /\ \A h, i : i \in Image /\ Stands(h, i) => Stale' \/ Stands(h, i)'
  BY StandsOn
<1>2. /\ Search /\ pc = "find" /\ Asked \subseteq Image
      /\ UNCHANGED <<todo, request>>
  BY DEF Find, Scope
<1>3. CASE here # {}
  <2>1. pc' = "idle" /\ UNCHANGED modules
    BY <1>3 DEF Find, Found
  <2>2. QED
    BY <1>2, <2>1, ConvertOn
<1>4. CASE here = {}
  <2>1. /\ modules' = Tail(modules)
        /\ IF Len(modules) > 1 THEN pc' = "find"
           ELSE IF request.want = "list" THEN pc' = Global ELSE pc' = "idle"
    BY <1>4 DEF Find, Go, Fail, End
  <2>2. /\ modules' \in Seq(Module) /\ m \in Module
        /\ Handles = {m.handle} \cup Handles'
        /\ Len(modules) > 1 => modules' # <<>>
        /\ ~(Len(modules) > 1) => Handles' = {}
    <3>1. modules' \in Seq(Module) /\ m \in Module
      BY <1>2, <2>1, Rest DEF Search
    <3>2. Handles = {m.handle} \cup Handles'
      BY <1>2, <2>1, RestHandles DEF Search, Handles
    <3>3. Len(modules) > 1 => modules' # <<>>
      BY <1>2, <2>1, RestElements DEF Search
    <3>4. ~(Len(modules) > 1) => Handles' = {}
      <4>1. Len(modules') = Len(modules) - 1 /\ Len(modules) \in Nat \ {0}
        BY <1>2, <2>1, Rest DEF Search
      <4>2. ~(Len(modules) > 1) => Len(modules') = 0 /\ DOMAIN modules' = {}
        BY <3>1, <4>1
      <4>3. QED
        BY <4>2 DEF Handles, HandlesOf
    <3>5. QED
      BY <3>1, <3>2, <3>3, <3>4
  <2>3. Stale' \/ \A i \in (Asked \cap Exporter)' : \E h \in Handles' : Stands(h, i)'
    <3>1. SUFFICES ASSUME ~Stale', NEW i \in Asked \cap Exporter
                   PROVE  \E h \in Handles' : Stands(h, i)'
      BY <1>1
    <3>2. PICK h \in Handles : Stands(h, i)
      BY <1>1, <1>2, <3>1 DEF Search
    <3>3. Behind(h) = {i}
      BY <1>2, <3>2, Through
    <3>4. h # m.handle
      BY <1>4, <3>3
    <3>5. QED
      BY <1>1, <1>2, <2>2, <3>1, <3>2, <3>4
  <2>4. CASE Len(modules) > 1
    <3>1. Inside'
      BY <1>1, <1>2, <2>2 DEF Search, Inside
    <3>2. Search'
      BY <2>2, <2>3, <2>4, <3>1 DEF Search, Module, Handle
    <3>3. QED
      BY <1>1, <1>2, <2>1, <2>4, <3>2 DEF Scope, Converting, Everywhere
  <2>5. CASE ~(Len(modules) > 1)
    <3>1. Stale' \/ (Asked \cap Exporter)' = {}
      BY <2>2, <2>3, <2>5
    <3>2. \/ request.want = "list" /\ pc' \in {"dlsym", "walk"}
          \/ pc' = "idle"
      BY <2>1, <2>5 DEF Global
    <3>3. QED
      BY <1>1, <1>2, <3>1, <3>2 DEF Scope, Converting, Everywhere
  <2>6. QED
    BY <2>4, <2>5
<1>5. QED
  BY <1>3, <1>4

\* A lookup that goes on finding names, or searches everywhere.
LEMMA GoesOnStep ==
  ASSUME Apart, Kept, Lasting, Scope, Scoped, Step, ~OpenLoaded, ~Prime, ~Find
  PROVE  Scope'
<1>1. pc # "slot" /\ (pc \in Converting => Convert) /\ Mapped \subseteq Image
  BY DEF Scope, Mapped
<1>2. CASE Invalid
  <2>1. UNCHANGED <<todo, modules>> /\ pc' = "idle"
    BY <1>2 DEF Invalid, Fail, End
  <2>2. QED
    BY <2>1, ConvertOn
<1>3. CASE CountImages
  <2>1. UNCHANGED <<todo, modules, handle>> /\ pc = "count" /\ pc' = "name_at"
    BY <1>3 DEF CountImages, Go
  <2>2. QED
    BY <2>1, ConvertOn DEF Naming, Converting
<1>4. CASE NameAt
  <2>1. CASE index > count
    BY <1>4, <2>1, NamedStep DEF NameAt, Naming, Converting
  <2>2. CASE ~(index > count)
    <3>1. /\ UNCHANGED <<todo, modules, handle>>
          /\ pc = "name_at" /\ pc' \in {"name_at", "probe"}
      BY <1>4, <2>2 DEF NameAt, Go
    <3>2. QED
      BY <3>1, ConvertOn DEF Naming, Converting
  <2>3. QED
    BY <2>1, <2>2
<1>5. CASE Probe
  <2>1. /\ UNCHANGED <<todo, modules, handle, name>>
        /\ pc = "probe" /\ pc' \in {"close", "name_at"}
        /\ pc' = "close" => name \in Mapped
    BY <1>5 DEF Probe, Go
  <2>2. QED
    BY <1>1, <2>1, ConvertOn DEF Naming, Converting
<1>6. CASE Close
  <2>1. CASE probe = handle
    BY <1>1, <1>6, <2>1, NamedStep DEF Close, Naming, Converting, Convert
  <2>2. CASE probe # handle
    <3>1. UNCHANGED <<todo, modules, handle>> /\ pc = "close" /\ pc' = "name_at"
      BY <1>6, <2>2 DEF Close, Go
    <3>2. QED
      BY <3>1, ConvertOn DEF Naming, Converting
  <2>3. QED
    BY <2>1, <2>2
<1>7. CASE FileName
  <2>1. \E n \in Image \cup {None} : Named(n)
    BY <1>7 DEF FileName, At
  <2>2. QED
    BY <1>7, <2>1, NamedStep DEF FileName, Naming, Converting
<1>8. CASE FindGlobal \/ Owner \/ Retain \/ OwnerName
  <2>1. UNCHANGED <<todo, modules>> /\ pc \in Everywhere /\ pc' \in Everywhere \cup {"idle"}
    BY <1>8 DEF FindGlobal, Owner, Retain, OwnerName, Go, Fail, End, Found, Everywhere, locals
  <2>2. QED
    BY <2>1, ConvertOn DEF Everywhere
<1>9. CASE Walk \/ Export \/ WalkName
  <2>1. UNCHANGED <<todo, modules>> /\ pc \in Everywhere /\ pc' \in Everywhere \cup {"idle"}
    BY <1>9 DEF Walk, Export, WalkName, Go, Fail, End, Found, Everywhere, locals
  <2>2. QED
    BY <2>1, ConvertOn DEF Everywhere
<1>10. QED
  BY <1>1, <1>2, <1>3, <1>4, <1>5, <1>6, <1>7, <1>8, <1>9 DEF Step, ReadSlot

LEMMA BeginStep ==
  ASSUME NEW r \in Request, Begin(r)
  PROVE  Scope'
<1> SUFFICES ASSUME Scoped' PROVE Scope'
  BY DEF Scope
<1>1. /\ r.want \in {"pair", "list"} /\ request' = r
      /\ todo' = r.names /\ modules' = <<>> /\ pc' = "open"
  BY DEF Begin, Scoped
<1>2. r.names \in Lists
  BY <1>1 DEF Request
<1>3. todo' \in Seq(Image) /\ todo' # <<>>
  BY <1>1, <1>2, LoaderAssumption
<1>4. Asked' = Waiting' /\ Asked' \subseteq Image
  <2>1. Asked' = {todo'[k] : k \in DOMAIN todo'} /\ Waiting' = {todo'[k] : k \in DOMAIN todo'}
    BY <1>1 DEF Asked, Waiting, Elements
  <2>2. \A k \in DOMAIN todo' : todo'[k] \in Image
    BY <1>3
  <2>3. QED
    BY <2>1, <2>2
<1>5. modules' \in Seq(Module)' /\ Handles' = {}
  BY <1>1 DEF Handles, HandlesOf
<1>6. Convert'
  BY <1>1, <1>3, <1>4, <1>5 DEF Convert, Inside, Naming, Converting
<1>7. QED
  BY <1>1, <1>4, <1>6 DEF Scope, Converting, Everywhere

LEMMA ScopeStep == Apart /\ Kept /\ Scope /\ [Next]_vars => Scope'
<1> SUFFICES ASSUME Apart, Kept, Scope, [Next]_vars PROVE Scope'
  OBVIOUS
<1>1. ASSUME NEW i \in Image, Load(i) \/ Release(i) PROVE Scope'
  <2>1. Lasting /\ UNCHANGED <<pc, todo, modules, handle, name>>
    BY <1>1, LastingStep DEF Load, Release, locals
  <2>2. QED
    BY <2>1, ConvertOn
<1>2. CASE \E r \in Request : Begin(r)
  BY <1>2, BeginStep
<1>3. CASE Step
  <2>1. Lasting
    BY <1>3, LastingStep
  <2>2. CASE ~Scoped
    BY <2>1, <2>2, StandsOn DEF Scope
  <2>3. CASE Scoped
    BY <1>3, <2>1, <2>3, GoesOnStep, OpenLoadedStep, PrimeStep, FindStep
  <2>4. QED
    BY <2>2, <2>3
<1>4. CASE UNCHANGED vars
  <2>1. Lasting /\ UNCHANGED <<pc, todo, modules, handle, name>>
    BY <1>4 DEF vars, images, locals, history, Lasting
  <2>2. QED
    BY <2>1, ConvertOn
<1>5. QED
  BY <1>1, <1>2, <1>3, <1>4 DEF Next

\* A lookup ends in its scope.
LEMMA FoundInScope ==
  ASSUME Apart, Kept, Scope, Running, Step, Scoped, result' = "found"
  PROVE  ScopeHonoured'
<1>1. pc # "idle" /\ result = "none"
  BY DEF Running, Step, Invalid, ReadSlot, OpenLoaded, Prime, CountImages, NameAt, Probe,
         Close, FileName, Find, FindGlobal, Owner, Retain, OwnerName, Walk, Export, WalkName
<1>2. Lasting
  BY LastingStep
<1>3. /\ Scoped' /\ Asked' = Asked /\ Exporter' = Exporter /\ request' = request
      /\ Stale => Stale'
      /\ Mac' = Mac
  BY <1>2, StandsOn DEF Lasting
<1>4. CASE pc \in Everywhere
  <2>1. request.want = "list" /\ (Stale \/ Asked \cap Exporter = {})
    BY <1>4 DEF Scope
  <2>2. CASE Stale
    BY <1>3, <2>2 DEF Stale, ScopeHonoured
  <2>3. CASE Asked \cap Exporter = {}
    BY <1>3, <2>1, <2>3 DEF Asked, ScopeHonoured
  <2>4. QED
    BY <2>1, <2>2, <2>3
<1>5. CASE Find
  <2> DEFINE m == Head(modules)
             here == Behind(m.handle) \cap Exporter
  <2>1. Search
    BY <1>5 DEF Find, Scope
  <2>2. here # {}
    BY <1>1, <1>5 DEF Find, Go, Fail, End
  <2>3. PICK i \in here : \E n : Found(base[i], n)
    BY <1>5, <2>2 DEF Find
  <2>4. CASE Stale
    BY <1>3, <2>4 DEF Stale, ScopeHonoured
  <2>5. CASE ~Stale
    <3>1. m.handle \in Handles
      BY <2>1, RestHandles DEF Search, Handles
    <3>2. PICK j \in Asked : Stands(m.handle, j)
      BY <2>1, <2>5, <3>1 DEF Search, Inside
    <3>3. Behind(m.handle) = {j} /\ At(base[j]) = {j}
      BY <3>2, Through DEF Scope
    <3>4. got'.from = j
      <4>1. i = j /\ At(base[i]) = {j}
        BY <3>3
      <4>2. QED
        BY <2>3, <4>1 DEF Found
    <3>5. QED
      BY <1>3, <3>2, <3>4 DEF Asked, ScopeHonoured
  <2>6. QED
    BY <2>4, <2>5
<1>6. CASE pc \notin Everywhere /\ ~Find
  <2>1. CASE NameAt \/ Close \/ FileName
    BY <1>1, <2>1 DEF NameAt, Close, FileName, Named, Scoped, Go
  <2>2. CASE Invalid \/ ReadSlot \/ OpenLoaded \/ Prime \/ CountImages \/ Probe
    BY <1>1, <2>2
    DEF Invalid, ReadSlot, OpenLoaded, Prime, CountImages, Probe, Go, Fail, End
  <2>3. QED
    BY <1>6, <2>1, <2>2
    DEF Step, Everywhere, FindGlobal, Owner, Retain, OwnerName, Walk, Export, WalkName
<1>7. QED
  BY <1>4, <1>5, <1>6

LEMMA ScopeHonouredStep ==
  Apart /\ Kept /\ Scope /\ Running /\ ScopeHonoured /\ [Next]_vars => ScopeHonoured'
<1> SUFFICES ASSUME Apart, Kept, Scope, Running, ScopeHonoured, [Next]_vars
             PROVE  ScopeHonoured'
  OBVIOUS
<1>1. CASE \E i \in Image : Load(i) \/ Release(i)
  <2>1. UNCHANGED <<request, result, got>>
    BY <1>1 DEF Load, Release
  <2>2. Lasting
    BY <1>1, LastingStep
  <2>3. QED
    BY <2>1, <2>2 DEF ScopeHonoured, Lasting, Mac, Exporter
<1>2. CASE \E r \in Request : Begin(r)
  BY <1>2 DEF Begin, ScopeHonoured
<1>3. CASE Step
  <2>1. Scoped' = Scoped
    BY <1>3, LastingStep, StandsOn
  <2>2. QED
    BY <1>3, <2>1, FoundInScope DEF ScopeHonoured, Scoped
<1>4. CASE UNCHANGED vars
  BY <1>4 DEF vars, history, ScopeHonoured, Mac, Exporter
<1>5. QED
  BY <1>1, <1>2, <1>3, <1>4 DEF Next

\* A function of one image, or of a list of images, is looked up there and
\* nowhere else (function.rs ModuleSymbol and ModuleListFunction), for any
\* images, addresses and lists.
THEOREM ScopeTheorem == Spec => []ScopeHonoured
<1>1. Init => Scope /\ Running /\ ScopeHonoured
  BY DEF Init, Scope, Scoped, Running, ScopeHonoured
<1>2. QED
  BY <1>1, KeptInit, KeptStep, ScopeStep, RunningStep, ScopeHonouredStep, PTL DEF Spec

------------------------------------------------------------------------------
(* What a lookup sees of the images, while others map and unmap them.        *)

\* dyld's list has each mapped image once.
Listed == /\ order \in Seq(Image)
          /\ Mapped = Elements(order)
          /\ \A j, k \in DOMAIN order : order[j] = order[k] => j = k

\* What was mapped all the time is mapped.
Steady == steady \subseteq Mapped

LEMMA AppendedElements ==
  ASSUME NEW S, NEW s \in Seq(S), NEW m \in S
  PROVE  Elements(Append(s, m)) = Elements(s) \cup {m}
<1> DEFINE t == Append(s, m)
<1>1. /\ Len(s) \in Nat /\ DOMAIN s = 1 .. Len(s) /\ DOMAIN t = 1 .. (Len(s) + 1)
      /\ \A k \in 1 .. Len(s) : t[k] = s[k]
      /\ t[Len(s) + 1] = m
  OBVIOUS
<1> HIDE DEF t
<1>2. /\ \A k \in DOMAIN s : k \in DOMAIN t /\ t[k] = s[k]
      /\ Len(s) + 1 \in DOMAIN t
      /\ \A k \in DOMAIN t : k \in DOMAIN s \/ k = Len(s) + 1
  BY <1>1
<1>3. Elements(t) = Elements(s) \cup {m}
  BY <1>1, <1>2 DEF Elements
<1>4. QED
  BY <1>3 DEF t

LEMMA MapListed ==
  ASSUME Apart, Listed, NEW i \in Image \ Mapped, NEW b \in Free, Map(i, b)
  PROVE  /\ Listed'
         /\ \A k \in DOMAIN order : k \in DOMAIN order' /\ order'[k] = order[k]
         /\ Len(order) <= Len(order')
<1> DEFINE s == order
           t == Append(s, i)
<1>1. /\ s \in Seq(Image) /\ t \in Seq(Image) /\ Len(s) \in Nat /\ Len(t) = Len(s) + 1
      /\ DOMAIN s = 1 .. Len(s) /\ DOMAIN t = 1 .. (Len(s) + 1)
      /\ \A k \in 1 .. Len(s) : t[k] = s[k]
      /\ t[Len(s) + 1] = i
  BY DEF Listed
<1>2. order' = t /\ Mapped' = Mapped \cup {i} /\ Mapped = Elements(s)
  BY MapStep DEF Map, Listed
<1>3. \A j, k \in DOMAIN s : s[j] = s[k] => j = k
  BY DEF Listed
<1> HIDE DEF t, s
<1>4. Elements(t) = Elements(s) \cup {i}
  BY <1>1, AppendedElements DEF t
<1>5. \A k \in DOMAIN s : s[k] # i
  BY <1>2 DEF Elements
<1>6. \A j, k \in DOMAIN t : t[j] = t[k] => j = k
  <2> SUFFICES ASSUME NEW j \in DOMAIN t, NEW k \in DOMAIN t, t[j] = t[k] PROVE j = k
    OBVIOUS
  <2>1. \A l \in DOMAIN t : l = Len(s) + 1 \/ (l \in DOMAIN s /\ t[l] = s[l])
    BY <1>1
  <2>2. QED
    BY <1>1, <1>3, <1>5, <2>1
<1>7. QED
  BY <1>1, <1>2, <1>4, <1>6 DEF Listed, s

LEMMA UnmapListed ==
  ASSUME Apart, Listed, NEW i \in Image, Unmap(i)
  PROVE  i \in Mapped /\ Listed'
<1> DEFINE s == order
<1>1. PICK k \in DOMAIN s : s[k] = i /\ order' = SubSeq(s, 1, k - 1) \o SubSeq(s, k + 1, Len(s))
  BY DEF Unmap
<1>2. /\ s \in Seq(Image) /\ Len(s) \in Nat /\ DOMAIN s = 1 .. Len(s)
      /\ k \in Nat /\ 1 <= k /\ k <= Len(s)
      /\ Mapped = Elements(s)
      /\ \A j, l \in DOMAIN s : s[j] = s[l] => j = l
  BY DEF Listed
<1> DEFINE a == SubSeq(s, 1, k - 1)
           b == SubSeq(s, k + 1, Len(s))
           t == a \o b
<1>3. a \in Seq(Image) /\ Len(a) = k - 1 /\ \A j \in 1 .. (k - 1) : a[j] = s[j]
  BY <1>2
<1>4. b \in Seq(Image) /\ Len(b) = Len(s) - k /\ \A j \in 1 .. (Len(s) - k) : b[j] = s[k + j]
  BY <1>2
<1>5. /\ t \in Seq(Image) /\ Len(t) = Len(s) - 1 /\ DOMAIN t = 1 .. (Len(s) - 1)
      /\ \A j \in 1 .. (Len(s) - 1) : t[j] = IF j < k THEN s[j] ELSE s[j + 1]
  <2> HIDE DEF a, b
  <2>1. /\ a \o b \in Seq(Image) /\ Len(a \o b) = Len(a) + Len(b)
        /\ \A j \in 1 .. (Len(a) + Len(b)) :
             (a \o b)[j] = IF j <= Len(a) THEN a[j] ELSE b[j - Len(a)]
    BY <1>3, <1>4
  <2>2. Len(a) + Len(b) = Len(s) - 1
    BY <1>2, <1>3, <1>4
  <2>3. \A j \in 1 .. (Len(s) - 1) : (a \o b)[j] = IF j < k THEN s[j] ELSE s[j + 1]
    <3> SUFFICES ASSUME NEW j \in 1 .. (Len(s) - 1)
                 PROVE  (a \o b)[j] = IF j < k THEN s[j] ELSE s[j + 1]
      OBVIOUS
    <3>1. CASE j < k
      BY <1>2, <1>3, <2>1, <2>2, <3>1
    <3>2. CASE ~(j < k)
      <4>1. (a \o b)[j] = b[j - (k - 1)] /\ j - (k - 1) \in 1 .. (Len(s) - k)
        <5>1. k \in Int /\ Len(s) \in Int /\ j \in Int /\ Len(a) = k - 1
          BY <1>2, <1>3
        <5>2. j \in 1 .. (Len(a) + Len(b)) /\ ~(j <= Len(a))
          BY <2>2, <3>2, <5>1
        <5>3. (a \o b)[j] = b[j - Len(a)]
          BY <2>1, <5>2
        <5>4. QED
          BY <3>2, <5>1, <5>3
      <4>2. b[j - (k - 1)] = s[k + (j - (k - 1))] /\ k + (j - (k - 1)) = j + 1
        BY <1>2, <1>4, <4>1
      <4>3. QED
        BY <3>2, <4>1, <4>2
    <3>3. QED
      BY <3>1, <3>2
  <2>4. DOMAIN (a \o b) = 1 .. (Len(s) - 1)
    <3>1. \A q \in Seq(Image) : DOMAIN q = 1 .. Len(q)
      OBVIOUS
    <3>2. QED
      BY <2>1, <2>2, <3>1
  <2>5. QED
    BY <2>1, <2>2, <2>3, <2>4
<1>6. order' = t /\ i = s[k]
  BY <1>1
<1> HIDE DEF t, s
<1>7. i \in Mapped /\ Mapped' = Mapped \ {i}
  BY <1>2, <1>6, UnmapStep DEF Elements
<1>8. Elements(t) = Elements(s) \ {i}
  <2>1. \A j \in DOMAIN t : \E l \in DOMAIN s : t[j] = s[l] /\ l # k
    BY <1>2, <1>5
  <2>2. \A l \in DOMAIN s : l # k => \E j \in DOMAIN t : t[j] = s[l]
    <3> SUFFICES ASSUME NEW l \in DOMAIN s, l # k PROVE \E j \in DOMAIN t : t[j] = s[l]
      OBVIOUS
    <3>1. CASE l < k
      BY <1>2, <1>5, <3>1
    <3>2. CASE l > k
      <4>1. l - 1 \in DOMAIN t /\ t[l - 1] = s[l]
        BY <1>2, <1>5, <3>2
      <4>2. QED
        BY <4>1
    <3>3. QED
      BY <1>2, <3>1, <3>2
  <2>3. \A l \in DOMAIN s : s[l] = i <=> l = k
    BY <1>2, <1>6
  <2>4. QED
    BY <2>1, <2>2, <2>3 DEF Elements
<1>9. \A j, l \in DOMAIN t : t[j] = t[l] => j = l
  <2> SUFFICES ASSUME NEW j \in DOMAIN t, NEW l \in DOMAIN t, t[j] = t[l] PROVE j = l
    OBVIOUS
  <2> DEFINE At1(n) == IF n < k THEN n ELSE n + 1
  <2>1. /\ At1(j) \in DOMAIN s /\ t[j] = s[At1(j)]
        /\ At1(l) \in DOMAIN s /\ t[l] = s[At1(l)]
    BY <1>2, <1>5
  <2>2. At1(j) = At1(l)
    BY <1>2, <2>1
  <2>3. QED
    BY <1>2, <1>5, <2>2
<1>10. QED
  BY <1>2, <1>5, <1>6, <1>7, <1>8, <1>9 DEF Listed

\* All that a step other than Begin does to the images.
LEMMA Changes ==
  ASSUME Apart, Kept, Listed,
         Step \/ \E i \in Image : Load(i) \/ Release(i)
  PROVE  \/ UNCHANGED <<base, order, steady, unmapped>>
         \/ UNCHANGED <<steady, unmapped>> /\ \E i \in Image \ Mapped, b \in Free : Map(i, b)
         \/ \E i \in Image : Unmap(i)
<1>1. CASE \E i \in Image : Load(i)
  BY <1>1 DEF Load, history
<1>2. CASE \E i \in Image : Release(i)
  BY <1>2 DEF Release, history
<1>3. CASE Prime
  <2>1. UNCHANGED <<steady, unmapped>>
    BY <1>3 DEF Prime, history
  <2>2. \/ UNCHANGED <<base, order>>
        \/ \E i \in Findable \ Mapped, b \in Free : Map(i, b)
    BY <1>3 DEF Prime
  <2>3. QED
    BY <2>1, <2>2, LoaderAssumption
<1>4. CASE Close
  <2>1. probe \in Image
    BY <1>4 DEF Close, Kept, Mapped
  <2>2. QED
    BY <1>4, <2>1 DEF Close, history
<1>5. CASE \/ Invalid \/ ReadSlot \/ OpenLoaded \/ CountImages \/ NameAt \/ Probe
           \/ FileName \/ Find \/ FindGlobal \/ Owner \/ Retain \/ OwnerName
           \/ Walk \/ Export \/ WalkName
  BY <1>5
  DEF Invalid, ReadSlot, OpenLoaded, CountImages, NameAt, Probe, FileName, Find, FindGlobal,
      Owner, Retain, OwnerName, Walk, Export, WalkName, images, history
<1>6. QED
  BY <1>1, <1>2, <1>3, <1>4, <1>5 DEF Step

\* An image that stays is where it was; while none goes, none moves in the list.
LEMMA SteadyStep ==
  ASSUME Apart, Kept, Listed, Steady,
         Step \/ \E i \in Image : Load(i) \/ Release(i)
  PROVE  /\ Listed' /\ Steady'
         /\ steady' \subseteq steady /\ \A i \in steady' : base'[i] = base[i]
         /\ \/ unmapped'
            \/ /\ unmapped' = unmapped
               /\ steady' = steady
               /\ Mapped \subseteq Mapped'
               /\ \A k \in DOMAIN order : k \in DOMAIN order' /\ order'[k] = order[k]
               /\ Len(order) <= Len(order')
<1>1. CASE UNCHANGED <<base, order, steady, unmapped>>
  BY <1>1 DEF Listed, Steady, Mapped
<1>2. CASE UNCHANGED <<steady, unmapped>> /\ \E i \in Image \ Mapped, b \in Free : Map(i, b)
  <2>1. PICK i \in Image \ Mapped, b \in Free : Map(i, b)
    BY <1>2
  <2>2. Mapped' = Mapped \cup {i}
    BY <2>1, MapStep
  <2>3. base' = [base EXCEPT ![i] = b] /\ i \notin steady
    BY <2>1 DEF Map, Steady
  <2>4. /\ Listed'
        /\ \A k \in DOMAIN order : k \in DOMAIN order' /\ order'[k] = order[k]
        /\ Len(order) <= Len(order')
    BY <2>1, MapListed
  <2>5. \A j \in steady : base'[j] = base[j]
    BY <2>3 DEF Steady, Mapped, Apart
  <2>6. QED
    BY <1>2, <2>2, <2>4, <2>5 DEF Steady
<1>3. CASE \E i \in Image : Unmap(i)
  <2>1. PICK i \in Image : Unmap(i)
    BY <1>3
  <2>2. Listed' /\ Mapped' = Mapped \ {i}
    BY <2>1, UnmapListed, UnmapStep
  <2>3. /\ base' = [base EXCEPT ![i] = Nowhere]
        /\ steady' = steady \ {i} /\ unmapped'
    BY <2>1 DEF Unmap
  <2>4. \A j \in steady' : base'[j] = base[j]
    BY <2>3 DEF Steady, Mapped, Apart
  <2>5. QED
    BY <2>2, <2>3, <2>4 DEF Steady
<1>4. QED
  BY <1>1, <1>2, <1>3, Changes

------------------------------------------------------------------------------
(* A function is reported absent only if it is.                              *)

Scanning == {"count", "name_at", "probe", "close"}
Walking  == {"walk", "export", "walk_name"}

\* Which calls a request makes, and on which platform.
Routes ==
  /\ request \in Request
  /\ pc \in {"open", "prime", "find"} => Scoped
  /\ pc \in Naming => Scoped \/ request.want = "handle"
  /\ pc \in Scanning \cup {"dlsym", "retain"} => Mac
  /\ pc \in Walking \cup {"file_name"} => ~Mac
  /\ pc \in Walking \cup {"dlsym"} => request.want \in {"symbol", "list"}
  /\ pc \in {"owner", "retain", "owner_name"} => request.want \notin {"pair", "handle"}
  /\ pc = "owner" /\ request.want = "symbol" => Mac
  /\ pc = "invalid" => request.want # "handle"
  /\ pc = "slot" => request.want = "slot"

LEMMA RoutesStep == Routes /\ [Next]_vars => Routes'
<1> SUFFICES ASSUME Routes, [Next]_vars PROVE Routes'
  OBVIOUS
<1> USE DEF Routes, Naming, Converting, Scanning, Walking, Scoped, Mac
<1>1. CASE \E i \in Image : Load(i) \/ Release(i)
  BY <1>1 DEF Load, Release
<1>2. CASE \E r \in Request : Begin(r)
  <2>1. PICK r \in Request : Begin(r)
    BY <1>2
  <2>2. /\ request' = r /\ UNCHANGED build /\ (r.want = "slot" => ~Mac)
        /\ r.want \in {"symbol", "pair", "list", "address", "slot", "handle"}
    BY <2>1 DEF Begin, Request
  <2>3. pc' = CASE r.want = "symbol"          -> IF r.text THEN Global ELSE "invalid"
                [] r.want \in {"pair", "list"} -> "open"
                [] r.want = "address"         -> IF r.addr = Nowhere THEN "invalid" ELSE "owner"
                [] r.want = "slot"            -> "slot"
                [] r.want = "handle"          -> Recover
    BY <2>1 DEF Begin
  <2>4. QED
    BY <2>2, <2>3 DEF Global, Recover
<1>3. CASE Invalid \/ ReadSlot
  BY <1>3 DEF Invalid, ReadSlot, Go, Fail, End
<1>4. CASE OpenLoaded \/ Prime
  BY <1>4 DEF OpenLoaded, Prime, Go, Fail, End, Recover
<1>5. CASE CountImages \/ Probe
  BY <1>5 DEF CountImages, Probe, Go
<1>6. CASE NameAt \/ Close \/ FileName
  <2>1. /\ UNCHANGED <<request, build>> /\ pc \in {"name_at", "close", "file_name"}
        /\ \/ \E n : Named(n)
           \/ pc' \in {"name_at", "probe"} /\ pc # "file_name"
    BY <1>6 DEF NameAt, Close, FileName, Go
  <2>2. CASE \E n : Named(n)
    BY <2>1, <2>2 DEF Named, Go, Fail, End
  <2>3. QED
    BY <2>1, <2>2
<1>7. CASE Find \/ FindGlobal
  BY <1>7 DEF Find, FindGlobal, Found, Go, Fail, End, Global
<1>8. CASE Owner \/ Retain \/ OwnerName
  BY <1>8 DEF Owner, Retain, OwnerName, Found, Go, Fail, End
<1>9. CASE Walk \/ Export \/ WalkName
  BY <1>9 DEF Walk, Export, WalkName, Found, Go, Fail, End
<1>10. CASE UNCHANGED vars
  BY <1>10 DEF vars
<1>11. QED
  BY <1>1, <1>2, <1>3, <1>4, <1>5, <1>6, <1>7, <1>8, <1>9, <1>10 DEF Next, Step

\* The image of a pair.
One == request.names[1]

LEMMA OneAsked ==
  ASSUME request \in Request, request.want = "pair"
  PROVE  Asked = {One} /\ One \in Image
<1>1. request.names \in Lists /\ Len(request.names) = 1
  BY DEF Request
<1>2. request.names \in Seq(Image)
  BY <1>1, LoaderAssumption
<1>3. DOMAIN request.names = {1} /\ request.names[1] \in Image
  BY <1>1, <1>2
<1>4. QED
  BY <1>3 DEF Asked, One

\* While the image of a pair stays, its handle is its own.
Held == request.want = "pair" /\ One \in steady =>
          /\ pc \in Naming => Stands(handle, One)
          /\ \A h \in Handles : Stands(h, One)

LEMMA StandsSteady ==
  ASSUME Apart, Kept, Listed, Steady, Lasting,
         Step \/ \E i \in Image : Load(i) \/ Release(i)
  PROVE  /\ steady' \subseteq steady
         /\ \A h, i : i \in steady' /\ Stands(h, i) => Stands(h, i)'
BY SteadyStep DEF Lasting, Stands, Mac

LEMMA HeldOn ==
  ASSUME Apart, Kept, Listed, Steady, Lasting, Held,
         Step \/ \E i \in Image : Load(i) \/ Release(i),
         Handles' \subseteq Handles \cup (IF pc \in Naming THEN {handle} ELSE {}),
         pc' \in Naming => \/ pc \in Naming /\ handle' = handle
                           \/ Stands(handle, One)'
  PROVE  Held'
<1>1. request' = request /\ One' = One
  BY DEF Lasting, One
<1>2. QED
  BY <1>1, StandsSteady DEF Held

LEMMA HeldStep ==
  ASSUME Apart, Kept, Listed, Steady, Lasting, Scope, Routes, Held,
         Step \/ \E i \in Image : Load(i) \/ Release(i)
  PROVE  Held'
<1> SUFFICES ASSUME request.want = "pair", One \in steady PROVE Held'
  BY StandsSteady DEF Held, Lasting, One
<1>1. Scoped /\ Asked = {One} /\ One \in Image
  BY OneAsked DEF Routes, Scoped
<1>2. CASE \E i \in Image : Load(i) \/ Release(i)
  <2>1. UNCHANGED <<pc, modules, handle>>
    BY <1>2 DEF Load, Release, locals
  <2>2. QED
    BY <2>1, HeldOn DEF Handles
<1>3. CASE OpenLoaded \/ Prime
  <2>1. Convert /\ UNCHANGED <<todo, modules, build>>
    BY <1>1, <1>3 DEF OpenLoaded, Prime, Scope, Converting
  <2>2. Head(todo) = One
    BY <1>1, <2>1, RestElements, ZenonT(30) DEF Convert, Waiting
  <2>3. One \in Mapped
    BY DEF Steady
  <2>4. /\ handle' = HandleOf(One) /\ UNCHANGED base
        /\ Mac => One \in pinned'
    <3>1. CASE OpenLoaded
      BY <2>2, <2>3, <3>1 DEF OpenLoaded, images
    <3>2. CASE Prime
      BY <2>2, <2>3, <3>2 DEF Prime
    <3>3. QED
      BY <1>3, <3>1, <3>2
  <2>5. Stands(handle, One)'
    BY <2>1, <2>3, <2>4 DEF Stands, HandleOf, Mac, Mapped, One, Lasting
  <2>6. QED
    BY <2>1, <2>5, HeldOn DEF Handles
<1>4. CASE NameAt \/ Close \/ FileName
  <2>1. /\ pc \in Naming /\ handle' = handle
        /\ \/ UNCHANGED modules
           \/ \E n \in Image \cup {None} : Named(n)
    <3>1. CASE NameAt
      BY <3>1 DEF NameAt, Naming, Converting
    <3>2. CASE Close
      <4>1. pc = "close" /\ name \in Image
        BY <1>1, <3>2 DEF Close, Scope, Convert, Converting
      <4>2. QED
        BY <3>2, <4>1 DEF Close, Naming, Converting
    <3>3. CASE FileName
      BY <3>3 DEF FileName, At, Naming, Converting, locals
    <3>4. QED
      BY <1>4, <3>1, <3>2, <3>3
  <2>2. CASE \E n \in Image \cup {None} : Named(n)
    <3>1. PICK n \in Image \cup {None} : Named(n)
      BY <2>2
    <3>2. Convert /\ handle \in Handle
      BY <1>1, <2>1 DEF Scope, Naming, Convert
    <3>3. modules' = Append(modules, [handle |-> handle, name |-> n])
      BY <1>1, <3>1 DEF Named, Scoped
    <3>4. [handle |-> handle, name |-> n] \in Module
      BY <3>2 DEF Module
    <3>5. Handles' = Handles \cup {handle}
      BY <3>2, <3>3, <3>4, Appended DEF Handles, Convert
    <3>6. QED
      BY <2>1, <3>5, HeldOn
  <2>3. QED
    BY <2>1, <2>2, HeldOn DEF Handles
<1>5. CASE CountImages \/ Probe
  <2>1. UNCHANGED <<modules, handle>> /\ pc \in Naming
    BY <1>5 DEF CountImages, Probe, Naming, Converting
  <2>2. QED
    BY <2>1, HeldOn DEF Handles
<1>6. CASE Find
  <2>1. Search
    BY <1>1, <1>6 DEF Find, Scope
  <2>2. \/ UNCHANGED modules
        \/ modules' = Tail(modules)
    BY <1>6 DEF Find
  <2>3. Handles' \subseteq Handles
    BY <2>1, <2>2, RestHandles DEF Search, Handles
  <2>4. pc' \notin Naming
    BY <1>6 DEF Find, Found, Go, Fail, End, Global, Naming, Converting
  <2>5. QED
    BY <2>3, <2>4, HeldOn
<1>7. CASE \/ Invalid \/ ReadSlot \/ FindGlobal \/ Owner \/ Retain \/ OwnerName
           \/ Walk \/ Export \/ WalkName
  <2>1. UNCHANGED modules /\ pc' \notin Naming
    BY <1>7
    DEF Invalid, ReadSlot, FindGlobal, Owner, Retain, OwnerName, Walk, Export, WalkName,
        Found, Go, Fail, End, Naming, Converting, locals
  <2>2. QED
    BY <2>1, HeldOn DEF Handles
<1>8. QED
  BY <1>2, <1>3, <1>4, <1>5, <1>6, <1>7 DEF Step

\* The walk over the bases passes no image that has the symbol and stays.
Ahead ==
  /\ index \in Nat
  /\ pc = "walk" => \A i \in steady \cap Exporter : base[i] > index
  /\ pc \in {"export", "walk_name"} =>
       index = handle /\ \A i \in steady \cap Exporter : base[i] >= index

LEMMA BaseNat ==
  ASSUME Apart, NEW i \in Mapped
  PROVE  base[i] \in Base /\ base[i] \in Nat /\ base[i] > 0
<1>1. base[i] \in Base
  BY DEF Apart, Mapped
<1>2. \A b \in Base : b \in Nat /\ b > 0
  BY LoaderAssumption
<1>3. QED
  BY <1>1, <1>2

LEMMA AheadOn ==
  ASSUME Apart, Kept, Listed, Steady, Ahead,
         Step \/ \E i \in Image : Load(i) \/ Release(i),
         \/ UNCHANGED <<pc, index, handle>>
         \/ pc' \notin Walking /\ index' \in Nat
  PROVE  Ahead'
<1>1. /\ steady' \subseteq steady /\ \A i \in steady' : base'[i] = base[i]
      /\ Exporter' = Exporter
  BY SteadyStep, LastingStep DEF Lasting, Exporter
<1>2. QED
  BY <1>1 DEF Ahead, Walking

LEMMA AheadStep ==
  Apart /\ Kept /\ Listed /\ Steady /\ Ahead /\ [Next]_vars => Ahead'
<1> SUFFICES ASSUME Apart, Kept, Listed, Steady, Ahead, [Next]_vars PROVE Ahead'
  OBVIOUS
<1>1. /\ \A i \in steady : base[i] \in Base /\ base[i] \in Nat /\ base[i] > 0
      /\ index \in Nat
  BY BaseNat DEF Steady, Ahead
<1>2. CASE \E i \in Image : Load(i) \/ Release(i)
  <2>1. UNCHANGED <<pc, index, handle>>
    BY <1>2 DEF Load, Release, locals
  <2>2. QED
    BY <1>2, <2>1, AheadOn
<1>3. CASE \E r \in Request : Begin(r)
  <2>1. index' = 0 /\ steady' = Mapped /\ UNCHANGED <<base, build>>
        /\ pc' \notin {"export", "walk_name"}
    BY <1>3 DEF Begin, images, Global, Recover, Request
  <2>2. \A i \in Mapped : base[i] > 0
    BY BaseNat
  <2>3. QED
    BY <2>1, <2>2 DEF Ahead
<1>4. CASE \/ Invalid \/ ReadSlot \/ OpenLoaded \/ Prime \/ CountImages \/ FileName
           \/ FindGlobal \/ Owner \/ Retain \/ OwnerName
  <2>1. pc' \notin Walking /\ index' \in Nat
    <3>1. CASE Invalid \/ ReadSlot \/ OpenLoaded \/ Prime \/ CountImages
      <4>1. index' \in {index, 1}
        BY <3>1 DEF Invalid, ReadSlot, OpenLoaded, Prime, CountImages, locals
      <4>2. pc' \notin Walking
        BY <3>1
        DEF Invalid, ReadSlot, OpenLoaded, Prime, CountImages, Go, Fail, End, Recover, Walking
      <4>3. QED
        BY <1>1, <4>1, <4>2
    <3>2. CASE FileName
      BY <1>1, <3>2 DEF FileName, Named, Go, Fail, End, Walking, locals
    <3>3. CASE FindGlobal \/ Owner \/ Retain \/ OwnerName
      BY <1>1, <3>3
      DEF FindGlobal, Owner, Retain, OwnerName, Found, Go, Fail, End, Walking, locals
    <3>4. QED
      BY <1>4, <3>1, <3>2, <3>3
  <2>2. QED
    BY <1>4, <2>1, AheadOn DEF Step
<1>5. CASE NameAt \/ Probe \/ Close
  <2>1. pc' \notin Walking /\ index' \in {index, index + 1}
    <3>1. CASE NameAt
      BY <3>1 DEF NameAt, Named, Go, Fail, End, Walking
    <3>2. CASE Probe
      BY <3>2 DEF Probe, Go, Walking
    <3>3. CASE Close
      BY <3>3 DEF Close, Named, Go, Fail, End, Walking
    <3>4. QED
      BY <1>5, <3>1, <3>2, <3>3
  <2>2. index' \in Nat
    BY <1>1, <2>1
  <2>3. QED
    BY <1>5, <2>1, <2>2, AheadOn DEF Step
<1>6. CASE Find
  <2>1. UNCHANGED <<base, build, steady>> /\ pc' \notin {"export", "walk_name"}
        /\ \/ index' = index /\ pc' \notin Walking
           \/ index' = Nowhere
    BY <1>6 DEF Find, Found, Go, Fail, End, Global, images, history, Walking
  <2>2. CASE index' = index /\ pc' \notin Walking
    BY <1>1, <2>2 DEF Ahead, Walking
  <2>3. CASE index' = Nowhere
    BY <1>1, <2>1, <2>3 DEF Ahead, Exporter, Nowhere
  <2>4. QED
    BY <2>1, <2>2, <2>3
<1>7. CASE Walk
  <2>1. UNCHANGED <<base, build, steady>> /\ pc = "walk"
    BY <1>7 DEF Walk, images, history
  <2> DEFINE above == {base[i] : i \in Mapped} \cap {b \in Base : b > index}
  <2>2. CASE above = {}
    BY <1>7, <2>1, <2>2 DEF Walk, Fail, End, Ahead
  <2>3. CASE above # {}
    <3>1. PICK b \in above : /\ \A c \in above : b <= c
                             /\ index' = b /\ handle' = b /\ pc' = "export"
      BY <1>7, <2>3 DEF Walk, Go
    <3>2. \A i \in steady \cap Exporter : base[i] \in above
      BY <1>1, <2>1 DEF Ahead, Steady
    <3>3. b \in Nat
      BY LoaderAssumption
    <3>4. \A i \in steady \cap Exporter : base[i] >= b
      BY <1>1, <3>1, <3>2, <3>3
    <3>5. QED
      BY <2>1, <3>1, <3>3, <3>4 DEF Ahead, Exporter
  <2>4. QED
    BY <2>2, <2>3
<1>8. CASE Export \/ WalkName
  <2>1. /\ UNCHANGED <<base, build, steady, index, handle>>
        /\ index = handle /\ \A i \in steady \cap Exporter : base[i] >= index
    BY <1>8 DEF Export, WalkName, images, history, locals, Ahead
  <2>2. CASE pc' = "walk"
    <3>1. At(handle) \cap Exporter = {}
      BY <1>8, <2>2 DEF Export, WalkName, Go, Fail, End, Found
    <3>2. \A i \in steady \cap Exporter : base[i] # handle
      BY <1>1, <3>1 DEF At, Steady, Mapped, Nowhere
    <3>3. \A i \in steady \cap Exporter : base[i] > index
      BY <1>1, <2>1, <3>2
    <3>4. QED
      BY <2>1, <2>2, <3>3 DEF Ahead, Exporter
  <2>3. CASE pc' # "walk"
    BY <1>8, <2>1, <2>3 DEF Export, WalkName, Go, Found, Ahead, Exporter
  <2>4. QED
    BY <2>2, <2>3
<1>9. CASE UNCHANGED vars
  BY <1>9 DEF vars, images, locals, history, Ahead, Exporter
<1>10. QED
  BY <1>2, <1>3, <1>4, <1>5, <1>6, <1>7, <1>8, <1>9 DEF Next, Step

\* While no image is unmapped, a symbol that dyld found has an owner.
Owned ==
  ~unmapped /\ request.want = "symbol" =>
    /\ pc = "owner" => At(addr) # {}
    /\ pc = "retain" => name \in Mapped

LEMMA OwnedOn ==
  ASSUME Apart, Kept, Listed, Steady, Owned,
         Step \/ \E i \in Image : Load(i) \/ Release(i),
         \/ UNCHANGED <<pc, addr, name>>
         \/ pc' \notin {"owner", "retain"}
         \/ pc' = "owner" /\ At(addr)' # {}
         \/ pc' = "retain" /\ name' \in Mapped'
  PROVE  Owned'
<1>1. Lasting
  BY LastingStep
<1>2. ~unmapped' => \/ ~unmapped /\ Mapped \subseteq Mapped' /\ At(addr) \subseteq At(addr)'
                    \/ addr' # addr
  <2> SUFFICES ASSUME ~unmapped', addr' = addr
               PROVE  ~unmapped /\ Mapped \subseteq Mapped' /\ At(addr) \subseteq At(addr)'
    BY <1>1 DEF Lasting, Mapped
  <2>1. ~unmapped /\ \A i \in Mapped : base'[i] = base[i]
    BY <1>1 DEF Lasting
  <2>2. QED
    BY <2>1 DEF Mapped, At
<1>3. ~unmapped' => ~unmapped /\ Mapped \subseteq Mapped'
  BY <1>1 DEF Lasting, Mapped
<1>4. request' = request
  BY <1>1 DEF Lasting
<1>5. QED
  BY <1>2, <1>3, <1>4 DEF Owned

LEMMA OwnedStep ==
  Apart /\ Kept /\ Listed /\ Steady /\ Routes /\ Owned /\ [Next]_vars => Owned'
<1> SUFFICES ASSUME Apart, Kept, Listed, Steady, Routes, Owned, [Next]_vars PROVE Owned'
  OBVIOUS
<1>1. CASE \E i \in Image : Load(i) \/ Release(i)
  <2>1. UNCHANGED <<pc, addr, name>>
    BY <1>1 DEF Load, Release, locals
  <2>2. QED
    BY <1>1, <2>1, OwnedOn
<1>2. CASE \E r \in Request : Begin(r)
  BY <1>2 DEF Begin, Owned, Global
<1>3. CASE \/ Invalid \/ OpenLoaded \/ Prime \/ CountImages \/ Probe
           \/ Retain \/ OwnerName \/ Walk \/ Export \/ WalkName
  <2>1. pc' \notin {"owner", "retain"}
    BY <1>3
    DEF Invalid, OpenLoaded, Prime, CountImages, Probe, Retain, OwnerName, Walk, Export,
        WalkName, Found, Go, Fail, End, Recover
  <2>2. QED
    BY <1>3, <2>1, OwnedOn DEF Step
<1>4. CASE NameAt \/ Close \/ FileName \/ Find
  <2>1. pc' \notin {"owner", "retain"}
    BY <1>4 DEF NameAt, Close, FileName, Find, Named, Found, Go, Fail, End, Global
  <2>2. QED
    BY <1>4, <2>1, OwnedOn DEF Step
<1>5. CASE ReadSlot
  BY <1>5, LastingStep DEF ReadSlot, Routes, Owned, Lasting, Step
<1>6. CASE FindGlobal
  <2>1. CASE pc' = "owner"
    <3>1. PICK k \in DOMAIN order : addr' = base[order[k]]
      BY <1>6, <2>1 DEF FindGlobal, Fail, End
    <3>2. order[k] \in Mapped
      BY <3>1 DEF Listed, Elements
    <3>3. order[k] \in At(addr') /\ UNCHANGED base
      BY <1>6, <3>1, <3>2 DEF FindGlobal, At, Mapped, images
    <3>4. At(addr)' # {}
      BY <3>3 DEF At
    <3>5. QED
      BY <1>6, <2>1, <3>4, OwnedOn DEF Step
  <2>2. CASE pc' # "owner"
    <3>1. pc' = "idle"
      BY <1>6, <2>2 DEF FindGlobal, Go, Fail, End
    <3>2. QED
      BY <1>6, <3>1, OwnedOn DEF Step
  <2>3. QED
    BY <2>1, <2>2
<1>7. CASE Owner
  <2>1. \/ pc' \notin {"owner", "retain"}
        \/ pc' = "retain" /\ name' \in Mapped'
    BY <1>7 DEF Owner, Go, Fail, End, At, Mapped, images
  <2>2. QED
    BY <1>7, <2>1, OwnedOn DEF Step
<1>8. CASE UNCHANGED vars
  BY <1>8 DEF vars, images, locals, history, Owned, Mapped, At
<1>9. QED
  BY <1>1, <1>2, <1>3, <1>4, <1>5, <1>6, <1>7, <1>8 DEF Next, Step

\* A step that reports absence has looked at every image that stays.
LEMMA AbsentStep ==
  ASSUME Apart, Kept, Listed, Steady, Scope, Running, Routes, Held, Ahead, Owned,
         Step, result' = "absent"
  PROVE  AbsenceIsReal'
<1> SUFFICES ASSUME request.want # "list"
             PROVE  \/ steady \cap Exporter \cap Reach = {}
                    \/ Mac /\ unmapped /\ request.want = "symbol"
  <2>1. Lasting /\ steady' \subseteq steady
    BY LastingStep, SteadyStep
  <2>2. /\ request' = request /\ Reach' = Reach /\ Exporter' = Exporter /\ Mac' = Mac
        /\ unmapped => unmapped'
    BY <2>1 DEF Lasting, Reach, Exporter, Mac
  <2>3. QED
    BY <2>1, <2>2 DEF AbsenceIsReal
<1>1. result = "none"
  BY DEF Running, Step, Invalid, ReadSlot, OpenLoaded, Prime, CountImages, NameAt, Probe,
         Close, FileName, Find, FindGlobal, Owner, Retain, OwnerName, Walk, Export, WalkName
<1>2. Scoped => request.want = "pair" /\ Asked = {One} /\ One \in Image /\ Reach = {One}
  BY OneAsked DEF Scoped, Routes, Reach, One
<1>3. CASE Invalid \/ ReadSlot \/ CountImages \/ Probe
  BY <1>1, <1>3 DEF Invalid, ReadSlot, CountImages, Probe, Go, Fail, End, IsAbsent
<1>4. CASE NameAt \/ Close \/ FileName
  BY <1>1, <1>4 DEF NameAt, Close, FileName, Named, Go, Fail, End, IsAbsent
<1>5. CASE Prime
  BY <1>1, <1>5 DEF Prime, Go, Fail, End, IsAbsent
<1>6. CASE OpenLoaded
  <2>1. Scoped /\ Convert
    BY <1>6 DEF OpenLoaded, Routes, Scope, Converting
  <2>2. Head(todo) = One
    BY <1>2, <2>1, RestElements, ZenonT(30) DEF Convert, Waiting
  <2>3. One \notin Mapped
    BY <1>1, <1>6, <2>2 DEF OpenLoaded, Go
  <2>4. QED
    BY <1>2, <2>1, <2>3 DEF Steady
<1>7. CASE Find
  <2>1. Scoped /\ Search
    BY <1>7 DEF Find, Routes, Scope
  <2>2. Head(modules).handle \in Handles
    BY <2>1, RestHandles DEF Search, Handles
  <2>3. Behind(Head(modules).handle) \cap Exporter = {}
    BY <1>1, <1>7 DEF Find, Found
  <2>4. ASSUME One \in steady PROVE One \notin Exporter
    <3>1. Stands(Head(modules).handle, One)
      BY <1>2, <2>1, <2>2, <2>4 DEF Held
    <3>2. Behind(Head(modules).handle) = {One}
      BY <1>2, <2>1, <3>1, Through
    <3>3. QED
      BY <2>3, <3>2
  <2>5. QED
    BY <1>2, <2>1, <2>4
<1>8. CASE FindGlobal
  <2>1. \A k \in DOMAIN order : order[k] \notin Exporter
    BY <1>1, <1>8 DEF FindGlobal, Go
  <2>2. \A i \in steady : \E k \in DOMAIN order : order[k] = i
    BY DEF Steady, Listed, Elements
  <2>3. QED
    BY <2>1, <2>2
<1>9. CASE Owner
  <2>1. At(addr) = {} /\ request.want = "symbol" /\ pc = "owner"
    BY <1>1, <1>9 DEF Owner, Unowned, Go, Fail, End, IsAbsent
  <2>2. QED
    BY <2>1 DEF Owned, Routes
<1>10. CASE Retain
  <2>1. name \notin Mapped /\ request.want = "symbol" /\ pc = "retain"
    BY <1>10 DEF Retain, Unowned, Found, Fail, End, IsAbsent
  <2>2. QED
    BY <2>1 DEF Owned, Routes, Scanning
<1>11. CASE OwnerName
  BY <1>11 DEF OwnerName, Found, Fail, End, IsAbsent
<1>12. CASE Walk
  <2>1. {base[i] : i \in Mapped} \cap {b \in Base : b > index} = {} /\ pc = "walk"
    BY <1>1, <1>12 DEF Walk, Go
  <2>2. \A i \in steady \cap Exporter : base[i] > index /\ i \in Mapped
    BY <2>1 DEF Ahead, Steady
  <2>3. QED
    BY <2>1, <2>2, BaseNat
<1>13. CASE Export \/ WalkName
  BY <1>1, <1>13 DEF Export, WalkName, Found, Go
<1>14. QED
  BY <1>3, <1>4, <1>5, <1>6, <1>7, <1>8, <1>9, <1>10, <1>11, <1>12, <1>13 DEF Step

LEMMA SteadyInvariant ==
  Apart /\ Kept /\ Listed /\ Steady /\ [Next]_vars => Listed' /\ Steady'
<1> SUFFICES ASSUME Apart, Kept, Listed, Steady, [Next]_vars PROVE Listed' /\ Steady'
  OBVIOUS
<1>1. CASE \E r \in Request : Begin(r)
  BY <1>1 DEF Begin, images, Listed, Steady, Mapped
<1>2. CASE UNCHANGED vars
  BY <1>2 DEF vars, images, history, Listed, Steady, Mapped
<1>3. QED
  BY <1>1, <1>2, SteadyStep DEF Next

LEMMA HeldInvariant ==
  Apart /\ Kept /\ Listed /\ Steady /\ Scope /\ Routes /\ Held /\ [Next]_vars => Held'
<1> SUFFICES ASSUME Apart, Kept, Listed, Steady, Scope, Routes, Held, [Next]_vars
             PROVE  Held'
  OBVIOUS
<1>1. CASE \E r \in Request : Begin(r)
  <2>1. /\ modules' = <<>>
        /\ request'.want = "pair" => pc' = "open"
    BY <1>1 DEF Begin
  <2>2. Handles' = {}
    BY <2>1 DEF Handles, HandlesOf
  <2>3. QED
    BY <2>1, <2>2 DEF Held, Naming, Converting
<1>2. CASE UNCHANGED vars
  BY <1>2 DEF vars, images, locals, history, Held, Handles, Stands, Mac, One
<1>3. CASE Step \/ \E i \in Image : Load(i) \/ Release(i)
  BY <1>3, LastingStep, HeldStep
<1>4. QED
  BY <1>1, <1>2, <1>3 DEF Next

LEMMA AbsenceStep ==
  /\ Apart /\ Kept /\ Listed /\ Steady /\ Scope /\ Running /\ Routes /\ Held /\ Ahead /\ Owned
  /\ AbsenceIsReal /\ [Next]_vars
  => AbsenceIsReal'
<1> SUFFICES ASSUME Apart, Kept, Listed, Steady, Scope, Running, Routes, Held, Ahead, Owned,
                    AbsenceIsReal, [Next]_vars
             PROVE  AbsenceIsReal'
  OBVIOUS
<1>1. CASE \E i \in Image : Load(i) \/ Release(i)
  <2>1. UNCHANGED result /\ Lasting /\ steady' \subseteq steady
    BY <1>1, LastingStep, SteadyStep DEF Load, Release
  <2>2. /\ request' = request /\ Reach' = Reach /\ Exporter' = Exporter /\ Mac' = Mac
        /\ unmapped => unmapped'
    BY <2>1 DEF Lasting, Reach, Exporter, Mac
  <2>3. QED
    BY <2>1, <2>2 DEF AbsenceIsReal
<1>2. CASE \E r \in Request : Begin(r)
  BY <1>2 DEF Begin, AbsenceIsReal
<1>3. CASE Step
  BY <1>3, AbsentStep DEF AbsenceIsReal
<1>4. CASE UNCHANGED vars
  BY <1>4 DEF vars, history, AbsenceIsReal, Reach, Mac, Exporter
<1>5. QED
  BY <1>1, <1>2, <1>3, <1>4 DEF Next

\* An image that is in the process all the time and has the symbol is never
\* reported absent, so that no optional hook is skipped for it (unix.rs
\* resolve_symbol_global, windows.rs resolve_symbol_global), for any images,
\* addresses and lists.
THEOREM AbsenceTheorem == Spec => []AbsenceIsReal
<1>1. Init => Listed /\ Steady /\ Scope /\ Running
  BY DEF Init, Listed, Steady, Mapped, Elements, Scope, Scoped, Running
<1>2. Init => Routes /\ Held /\ Ahead /\ Owned /\ AbsenceIsReal
  BY DEF Init, Routes, Request, Naming, Converting, Scanning, Walking, Held, Ahead, Owned,
         AbsenceIsReal
<1>3. QED
  BY <1>1, <1>2, KeptInit, KeptStep, SteadyInvariant, ScopeStep, RunningStep, RoutesStep,
     HeldInvariant, AheadStep, OwnedStep, AbsenceStep, PTL DEF Spec

------------------------------------------------------------------------------
(* A module has the name of the image that its handle stands for.            *)

\* A handle that the scan of the images is to find: it was opened for a name,
\* or passed in while its image was mapped.
Sought == request.want = "handle" => handle \in steady

\* While no image is unmapped, the scan has its image before it.
Scan ==
  /\ count \in Nat
  /\ pc \in {"name_at", "probe", "close"} => index >= 1
  /\ pc = "close" => probe = name
  /\ ~unmapped /\ pc \in {"name_at", "probe", "close"} /\ Sought =>
       /\ count <= Len(order)
       /\ \E k \in index .. count : k \in DOMAIN order /\ order[k] = handle
       /\ pc # "name_at" => index \in DOMAIN order /\ name = order[index]

\* The names so far are those of the handles.
NamesStand ==
  unmapped \/ \A m \in Elements(modules) : Behind(m.handle) = {m.name}

\* Only a handle whose image was not there all the time is refused.
RefusedRightly ==
  unmapped \/ (result = "error" /\ request.want = "handle" => Behind(handle) \cap steady = {})

\* An image that is sought is mapped, when its handle is a reference.
LEMMA SoughtMapped ==
  ASSUME Kept, Steady, Scope, Routes, pc \in Scanning, Sought
  PROVE  handle \in Mapped
<1>1. Mac
  BY DEF Routes
<1>2. CASE Scoped
  <2>1. Stands(handle, Head(todo))
    BY <1>1, <1>2 DEF Scope, Convert, Naming, Converting, Scanning, Stale
  <2>2. QED
    BY <1>1, <2>1 DEF Stands, Kept
<1>3. CASE ~Scoped
  BY <1>3 DEF Routes, Naming, Converting, Scanning, Sought, Steady
<1>4. QED
  BY <1>2, <1>3

\* What the scan relies on lasts while no image goes.
LEMMA ScanLasts ==
  ASSUME Apart, Kept, Listed, Steady, Step \/ \E i \in Image : Load(i) \/ Release(i),
         ~unmapped'
  PROVE  /\ ~unmapped /\ request' = request /\ steady' = steady
         /\ order \in Seq(Image) /\ order' \in Seq(Image)
         /\ \A k \in DOMAIN order : k \in DOMAIN order' /\ order'[k] = order[k]
         /\ Len(order) \in Nat /\ Len(order') \in Nat /\ Len(order) <= Len(order')
<1>1. Listed' /\ Lasting
  BY SteadyStep, LastingStep
<1>2. order \in Seq(Image) /\ order' \in Seq(Image)
  BY <1>1 DEF Listed
<1>3. Len(order) \in Nat /\ Len(order') \in Nat
  BY <1>2
<1>4. QED
  BY <1>1, <1>2, <1>3, SteadyStep DEF Lasting

LEMMA LeqTransitive == \A a, b, c \in Nat : a <= b /\ b <= c => a <= c
OBVIOUS

LEMMA NextPositive == \A n \in Nat : n + 1 >= 1
OBVIOUS

LEMMA ScanOn ==
  ASSUME Apart, Kept, Listed, Steady, Scan,
         Step \/ \E i \in Image : Load(i) \/ Release(i),
         \/ UNCHANGED <<pc, handle, name, count, index, probe>>
         \/ pc' \notin {"name_at", "probe", "close"} /\ count' = count
         \/ pc' \notin {"name_at", "probe", "close"} /\ count' \in Nat
  PROVE  Scan'
<1>1. ASSUME ~unmapped', pc' \in {"name_at", "probe", "close"}, Sought'
      PROVE  /\ count' <= Len(order')
             /\ \E k \in index' .. count' : k \in DOMAIN order' /\ order'[k] = handle'
             /\ pc' # "name_at" => index' \in DOMAIN order' /\ name' = order'[index']
  <2>1. UNCHANGED <<pc, handle, name, count, index>>
    BY <1>1
  <2>2. ~unmapped /\ Sought
    BY <1>1, <2>1, ScanLasts DEF Sought
  <2>3. /\ count <= Len(order) /\ count \in Nat
        /\ \E k \in index .. count : k \in DOMAIN order /\ order[k] = handle
        /\ pc # "name_at" => index \in DOMAIN order /\ name = order[index]
    BY <1>1, <2>1, <2>2 DEF Scan
  <2>4. count <= Len(order')
    <3>1. Len(order) \in Nat /\ Len(order') \in Nat /\ Len(order) <= Len(order')
      BY <1>1, ScanLasts
    <3>2. count \in Nat /\ count <= Len(order)
      BY <2>3
    <3>3. QED
      BY <3>1, <3>2, LeqTransitive, Zenon
  <2>5. QED
    BY <1>1, <2>1, <2>3, <2>4, ScanLasts
<1>2. /\ count' \in Nat
      /\ pc' \in {"name_at", "probe", "close"} => index' >= 1
      /\ pc' = "close" => probe' = name'
  BY DEF Scan
<1>3. QED
  BY <1>1, <1>2 DEF Scan

LEMMA ScanStep ==
  Apart /\ Kept /\ Listed /\ Steady /\ Scope /\ Routes /\ Ahead /\ Scan /\ [Next]_vars => Scan'
<1> SUFFICES ASSUME Apart, Kept, Listed, Steady, Scope, Routes, Ahead, Scan, [Next]_vars
             PROVE  Scan'
  OBVIOUS
<1>1. count \in Nat /\ index \in Nat
  BY DEF Scan, Ahead
<1>2. CASE \E i \in Image : Load(i) \/ Release(i)
  <2>1. UNCHANGED <<pc, handle, name, count, index, probe>>
    BY <1>2 DEF Load, Release, locals
  <2>2. QED
    BY <1>2, <2>1, ScanOn
<1>3. CASE \E r \in Request : Begin(r)
  <2>1. PICK r \in Request : Begin(r)
    BY <1>3
  <2>2. count' = 0 /\ r.want \in {"symbol", "pair", "list", "address", "slot", "handle"}
    BY <2>1 DEF Begin, Request
  <2>3. pc' = CASE r.want = "symbol"          -> IF r.text THEN Global ELSE "invalid"
                [] r.want \in {"pair", "list"} -> "open"
                [] r.want = "address"         -> IF r.addr = Nowhere THEN "invalid" ELSE "owner"
                [] r.want = "slot"            -> "slot"
                [] r.want = "handle"          -> Recover
    BY <2>1 DEF Begin
  <2>4. pc' \notin {"name_at", "probe", "close"}
    BY <2>2, <2>3 DEF Global, Recover
  <2>5. QED
    BY <2>2, <2>4 DEF Scan
<1>4. CASE Invalid \/ ReadSlot \/ OpenLoaded \/ Prime
  <2>1. pc' \notin {"name_at", "probe", "close"} /\ count' = count
    BY <1>4 DEF Invalid, ReadSlot, OpenLoaded, Prime, Go, Fail, End, Recover, locals
  <2>2. QED
    BY <1>4, <2>1, ScanOn DEF Step
<1>5. CASE FileName \/ Find
  <2>1. pc' \notin {"name_at", "probe", "close"} /\ count' = count
    BY <1>5 DEF FileName, Find, Named, Found, Go, Fail, End, Global, locals
  <2>2. QED
    BY <1>5, <2>1, ScanOn DEF Step
<1>6. CASE FindGlobal \/ Owner \/ Retain \/ OwnerName \/ Walk \/ Export \/ WalkName
  <2>1. pc' \notin {"name_at", "probe", "close"} /\ count' = count
    BY <1>6
    DEF FindGlobal, Owner, Retain, OwnerName, Walk, Export, WalkName, Found, Go, Fail, End,
        locals
  <2>2. QED
    BY <1>6, <2>1, ScanOn DEF Step
<1>7. CASE CountImages
  <2>1. /\ pc = "count" /\ pc' = "name_at" /\ count' = Len(order) /\ index' = 1
        /\ UNCHANGED <<order, unmapped, steady, handle, request>>
    BY <1>7 DEF CountImages, Go, images, history
  <2>2. Sought' => handle \in Mapped
    BY <2>1, SoughtMapped DEF Sought, Scanning
  <2>3. order \in Seq(Image)
    BY DEF Listed
  <2>4. Len(order) \in Nat /\ DOMAIN order = 1 .. Len(order) /\ Len(order) <= Len(order)
    BY <2>3
  <2>5. handle \in Mapped => \E k \in 1 .. Len(order) : k \in DOMAIN order /\ order[k] = handle
    BY <2>4 DEF Listed, Elements
  <2>6. index' >= 1
    <3>1. index' = 1
      BY <2>1
    <3>2. QED
      BY <3>1
  <2>7. QED
    BY <2>1, <2>2, <2>4, <2>5, <2>6 DEF Scan
<1>8. CASE NameAt
  <2>1. pc = "name_at" /\ index >= 1
    BY <1>8 DEF NameAt, Scan
  <2>2. CASE index > count
    <3>1. pc' \notin {"name_at", "probe", "close"} /\ count' = count
      BY <1>8, <2>2 DEF NameAt, Named, Go, Fail, End
    <3>2. QED
      BY <1>8, <3>1, ScanOn DEF Step
  <2>3. CASE ~(index > count)
    <3>1. UNCHANGED <<count, order, unmapped, steady, handle, request>>
      BY <1>8, <2>3 DEF NameAt, images, history
    <3>2. order \in Seq(Image)
      BY DEF Listed
    <3>3. Len(order) \in Nat /\ DOMAIN order = 1 .. Len(order)
      BY <3>2
    <3>4. CASE index > Len(order)
      <4>1. pc' = "name_at" /\ index' = index + 1
        BY <1>8, <2>3, <3>4 DEF NameAt, Go
      <4>2. ~(count <= Len(order))
        BY <1>1, <2>3, <3>3, <3>4
      <4>3. (unmapped \/ ~Sought) /\ Sought' = Sought
        BY <2>1, <3>1, <4>2 DEF Scan, Sought
      <4>4. index' >= 1
        BY <1>1, <4>1, NextPositive, Zenon
      <4>5. QED
        BY <1>1, <3>1, <4>1, <4>3, <4>4 DEF Scan
    <3>5. CASE ~(index > Len(order))
      <4>1. pc' = "probe" /\ name' = order[index] /\ index' = index
        BY <1>8, <2>3, <3>5 DEF NameAt, Go
      <4>2. index \in DOMAIN order
        <5>1. index \in Nat /\ index >= 1 /\ Len(order) \in Nat /\ ~(index > Len(order))
          BY <1>1, <2>1, <3>3, <3>5
        <5>2. index \in 1 .. Len(order)
          BY <5>1
        <5>3. QED
          BY <3>3, <5>2
      <4>3. QED
        BY <1>1, <2>1, <3>1, <4>1, <4>2 DEF Scan, Sought
    <3>6. QED
      BY <3>4, <3>5
  <2>4. QED
    BY <2>2, <2>3
<1>9. CASE Probe
  <2>1. pc = "probe" /\ index >= 1 /\ UNCHANGED <<count, order, unmapped, steady, handle, request>>
    BY <1>9 DEF Probe, images, history, Scan
  <2>2. CASE name \in Mapped
    <3>1. pc' = "close" /\ probe' = name /\ UNCHANGED <<index, name>>
      BY <1>9, <2>2 DEF Probe, Go
    <3>2. QED
      BY <2>1, <3>1 DEF Scan, Sought
  <2>3. CASE name \notin Mapped
    <3>1. pc' = "name_at" /\ index' = index + 1
      BY <1>9, <2>3 DEF Probe, Go
    <3>2. unmapped \/ ~Sought
      <4>1. \A k \in DOMAIN order : order[k] \in Mapped
        BY DEF Listed, Elements
      <4>2. QED
        BY <2>1, <2>3, <4>1 DEF Scan
    <3>3. index' >= 1 /\ Sought' = Sought
      BY <1>1, <2>1, <3>1, NextPositive, Zenon DEF Sought
    <3>4. QED
      BY <2>1, <3>1, <3>2, <3>3 DEF Scan
  <2>4. QED
    BY <2>2, <2>3
<1>10. CASE Close
  <2>1. /\ pc = "close" /\ index >= 1 /\ probe = name
        /\ UNCHANGED <<count, handle, request>>
    BY <1>10 DEF Close, Scan
  <2>2. CASE probe = handle
    <3>1. pc' \notin {"name_at", "probe", "close"}
      BY <1>10, <2>2 DEF Close, Named, Go, Fail, End
    <3>2. QED
      BY <1>10, <2>1, <3>1, ScanOn DEF Step
  <2>3. CASE probe # handle
    <3>1. pc' = "name_at" /\ index' = index + 1
      BY <1>10, <2>3 DEF Close, Go
    <3>2. ASSUME ~unmapped', Sought'
          PROVE  /\ count <= Len(order)
                 /\ \E k \in (index + 1) .. count : k \in DOMAIN order /\ order[k] = handle
                 /\ UNCHANGED order
      <4>1. UNCHANGED <<order, unmapped, steady>>
        BY <1>10, <3>2 DEF Close, Unmap, history
      <4>2. Sought /\ ~unmapped
        BY <2>1, <3>2, <4>1 DEF Sought
      <4>3. PICK k \in index .. count : k \in DOMAIN order /\ order[k] = handle
        BY <2>1, <4>2 DEF Scan
      <4>4. k # index
        BY <2>1, <2>3, <4>2, <4>3 DEF Scan
      <4>5. k \in (index + 1) .. count
        BY <1>1, <4>3, <4>4
      <4>6. QED
        BY <2>1, <4>1, <4>2, <4>3, <4>5 DEF Scan
    <3>3. index' >= 1
      BY <1>1, <3>1, NextPositive, Zenon
    <3>4. QED
      BY <1>1, <2>1, <3>1, <3>2, <3>3 DEF Scan
  <2>4. QED
    BY <2>2, <2>3
<1>11. CASE UNCHANGED vars
  BY <1>11 DEF vars, images, locals, history, Scan, Sought
<1>12. QED
  BY <1>2, <1>3, <1>4, <1>5, <1>6, <1>7, <1>8, <1>9, <1>10, <1>11 DEF Next, Step

LEMMA BehindLasts ==
  ASSUME Apart, Apart', Lasting, ~unmapped',
         NEW h, NEW n, Behind(h) = {n}
  PROVE  Behind(h)' = {n}
<1>1. /\ Mac' = Mac
      /\ \A i \in Mapped : base'[i] = base[i] /\ i \in Mapped'
  BY DEF Lasting, Mac, Mapped
<1>2. CASE Mac
  BY <1>1, <1>2 DEF Behind
<1>3. CASE ~Mac
  <2>1. n \in Mapped /\ base[n] = h /\ h # Nowhere /\ At(h) = {n}
    BY <1>3 DEF Behind, At, Mapped
  <2>2. n \in Image /\ base'[n] = h
    BY <1>1, <2>1 DEF Mapped
  <2>3. At(h)' = {n}
    BY <2>1, <2>2 DEF At, Apart
  <2>4. QED
    BY <1>1, <1>3, <2>3 DEF Behind
<1>4. QED
  BY <1>2, <1>3

LEMMA NamesOn ==
  ASSUME Apart, Apart', Lasting, NamesStand,
         \A m \in Elements(modules') :
           m \in Elements(modules) \/ unmapped' \/ Behind(m.handle)' = {m.name}
  PROVE  NamesStand'
<1> SUFFICES ASSUME ~unmapped', NEW m \in Elements(modules'), m \in Elements(modules)
             PROVE  Behind(m.handle)' = {m.name}
  BY DEF NamesStand, Elements
<1>1. Behind(m.handle) = {m.name}
  BY DEF NamesStand, Lasting
<1>2. QED
  BY <1>1, BehindLasts

\* A handle gets its name, or is one that was passed in and has none.
LEMMA NamedStands ==
  ASSUME Apart, Apart', Lasting, NamesStand, Scope, Routes, pc \in Naming, UNCHANGED handle,
         NEW n \in Image \cup {None}, Named(n),
         unmapped' \/ Behind(handle)' = {n} \/ (n = None /\ request.want = "handle")
  PROVE  NamesStand'
<1>1. PICK h : h = handle
  OBVIOUS
<1> DEFINE m == [handle |-> h, name |-> n]
<1>2. unmapped' \/ Behind(h)' = {n} \/ (n = None /\ request.want = "handle")
  BY <1>1
<1>3. m.handle = h /\ m.name = n
  OBVIOUS
<1>4. CASE request.want = "handle"
  <2>1. modules' = IF n = None THEN <<>> ELSE <<m>>
    BY <1>1, <1>4 DEF Named
  <2>2. \A x \in Elements(modules') : x = m /\ n # None
    BY <2>1 DEF Elements
  <2>3. QED
    BY <1>2, <1>3, <2>2, NamesOn
<1>5. CASE request.want # "handle"
  <2>1. Convert /\ handle \in Handle
    BY <1>5 DEF Routes, Scope, Naming, Convert
  <2>2. modules' = Append(modules, m) /\ m \in Module /\ modules \in Seq(Module)
    BY <1>1, <1>5, <2>1 DEF Named, Module, Convert
  <2>3. \A x \in Elements(modules') : x \in Elements(modules) \/ x = m
    BY <2>2, AppendedElements
  <2>4. QED
    BY <1>2, <1>3, <1>5, <2>3, NamesOn
<1>6. QED
  BY <1>4, <1>5

LEMMA NamesStep ==
  ASSUME Apart, Apart', Kept, Listed, Steady, Scope, Routes, Ahead, Scan, NamesStand,
         Step \/ \E i \in Image : Load(i) \/ Release(i)
  PROVE  NamesStand'
<1>1. Lasting
  BY LastingStep
<1>2. CASE \E i \in Image : Load(i) \/ Release(i)
  <2>1. UNCHANGED modules
    BY <1>2 DEF Load, Release
  <2>2. QED
    BY <1>1, <2>1, NamesOn
<1>3. CASE \/ Invalid \/ ReadSlot \/ OpenLoaded \/ Prime \/ CountImages \/ Probe
           \/ FindGlobal \/ Owner \/ Retain \/ OwnerName \/ Walk \/ Export \/ WalkName
  <2>1. UNCHANGED modules
    BY <1>3
    DEF Invalid, ReadSlot, OpenLoaded, Prime, CountImages, Probe, FindGlobal, Owner, Retain,
        OwnerName, Walk, Export, WalkName
  <2>2. QED
    BY <1>1, <2>1, NamesOn
<1>4. CASE Find
  <2>1. Search
    BY <1>4 DEF Find, Routes, Scope
  <2>2. modules' = modules \/ modules' = Tail(modules)
    BY <1>4 DEF Find
  <2>3. Elements(modules') \subseteq Elements(modules)
    BY <2>1, <2>2, RestElements DEF Search
  <2>4. QED
    BY <1>1, <2>3, NamesOn
<1>5. CASE NameAt
  <2>1. pc = "name_at" /\ pc \in Naming /\ UNCHANGED <<handle, unmapped>>
    BY <1>5 DEF NameAt, Naming, Converting, history
  <2>2. CASE index > count
    <3>1. Named(None)
      BY <1>5, <2>2 DEF NameAt
    <3>2. unmapped \/ ~Sought
      <4>1. count \in Nat /\ index \in Nat
        BY DEF Scan, Ahead
      <4>2. index .. count = {}
        BY <2>2, <4>1
      <4>3. QED
        BY <2>1, <4>2 DEF Scan
    <3>3. QED
      BY <1>1, <2>1, <3>1, <3>2, NamedStands DEF Sought
  <2>3. CASE ~(index > count)
    <3>1. UNCHANGED modules
      BY <1>5, <2>3 DEF NameAt
    <3>2. QED
      BY <1>1, <3>1, NamesOn
  <2>4. QED
    BY <2>2, <2>3
<1>6. CASE Close
  <2>1. /\ pc = "close" /\ pc \in Naming /\ probe = name /\ probe \in Mapped
        /\ Mac /\ UNCHANGED <<build, handle>>
    BY <1>6 DEF Close, Naming, Converting, Scan, Kept, Routes, Scanning
  <2>2. CASE probe = handle
    <3>1. Named(name) /\ name \in Image
      BY <1>6, <2>1, <2>2 DEF Close, Mapped
    <3>2. unmapped' \/ UNCHANGED base
      BY <1>6 DEF Close, Unmap
    <3>3. unmapped' \/ Behind(handle)' = {name}
      BY <1>6, <2>1, <2>2, <3>2 DEF Close, Behind, Mac, Mapped
    <3>4. QED
      BY <1>1, <2>1, <3>1, <3>3, NamedStands
  <2>3. CASE probe # handle
    <3>1. UNCHANGED modules
      BY <1>6, <2>3 DEF Close
    <3>2. QED
      BY <1>1, <3>1, NamesOn
  <2>4. QED
    BY <2>2, <2>3
<1>7. CASE FileName
  <2>1. /\ pc = "file_name" /\ pc \in Naming /\ ~Mac
        /\ UNCHANGED <<build, base, handle, unmapped>>
    BY <1>7 DEF FileName, Naming, Converting, Routes, images, history, locals
  <2>2. ASSUME NEW i \in At(handle), Named(i) PROVE NamesStand'
    <3>1. i \in Image /\ At(handle) = {i}
      BY <2>2 DEF At, Apart
    <3>2. Behind(handle)' = {i}
      BY <2>1, <3>1 DEF Behind, At, Mac
    <3>3. QED
      BY <1>1, <2>1, <2>2, <3>1, <3>2, NamedStands
  <2>3. ASSUME At(handle) = {}, Named(None) PROVE NamesStand'
    <3>1. Scoped => unmapped
      <4>1. Scoped => Convert /\ (Stale \/ Stands(handle, Head(todo)))
        BY <2>1 DEF Scope, Convert, Naming, Converting
      <4>2. Scoped => Head(todo) \in Image
        BY <4>1, Rest DEF Convert
      <4>3. QED
        BY <2>1, <2>3, <4>1, <4>2 DEF Stands, Stale, At
    <3>2. unmapped' \/ request.want = "handle"
      BY <2>1, <3>1 DEF Routes
    <3>3. QED
      BY <1>1, <2>1, <2>3, <3>2, NamedStands
  <2>4. QED
    BY <1>7, <2>2, <2>3 DEF FileName
<1>8. QED
  BY <1>2, <1>3, <1>4, <1>5, <1>6, <1>7 DEF Step

LEMMA RefusedLasts ==
  ASSUME Apart, Kept, Listed, Steady, Step \/ \E i \in Image : Load(i) \/ Release(i),
         ~unmapped', UNCHANGED handle, Behind(handle) \cap steady = {}
  PROVE  (Behind(handle) \cap steady)' = {}
<1>1. Lasting
  BY LastingStep
<1>2. /\ Mac' = Mac /\ steady' = steady /\ steady \subseteq Mapped /\ steady \subseteq Image
      /\ \A i \in steady : base'[i] = base[i]
  BY <1>1, ScanLasts DEF Lasting, Mac, Steady, Mapped
<1>3. CASE Mac
  BY <1>2, <1>3 DEF Behind
<1>4. CASE ~Mac
  <2>1. \A i \in steady : i \notin At(handle)
    BY <1>4 DEF Behind
  <2>2. \A i \in steady : i \notin At(handle)'
    BY <1>2, <2>1 DEF At
  <2>3. QED
    BY <1>2, <1>4, <2>2 DEF Behind
<1>5. QED
  BY <1>3, <1>4

LEMMA RefusedStep ==
  ASSUME Apart, Kept, Listed, Steady, Scope, Running, Routes, Ahead, Scan, RefusedRightly,
         Step \/ \E i \in Image : Load(i) \/ Release(i)
  PROVE  RefusedRightly'
<1> SUFFICES ASSUME ~unmapped', result' = "error", request.want = "handle"
             PROVE  (Behind(handle) \cap steady)' = {}
  BY LastingStep DEF RefusedRightly, Lasting
<1>1. CASE \E i \in Image : Load(i) \/ Release(i)
  <2>1. UNCHANGED <<handle, result>>
    BY <1>1 DEF Load, Release, locals
  <2>2. Behind(handle) \cap steady = {}
    BY <1>1, <2>1, ScanLasts DEF RefusedRightly
  <2>3. QED
    BY <1>1, <2>1, <2>2, RefusedLasts
<1>2. CASE Step
  <2>1. result = "none"
    BY <1>2
    DEF Running, Step, Invalid, ReadSlot, OpenLoaded, Prime, CountImages, NameAt, Probe,
        Close, FileName, Find, FindGlobal, Owner, Retain, OwnerName, Walk, Export, WalkName
  <2>2. pc \notin {"invalid", "slot", "open", "prime", "find", "dlsym", "walk", "export",
                   "walk_name", "owner", "retain", "owner_name"}
    BY DEF Routes, Walking, Scoped
  <2>3. CASE NameAt
    <3>1. index > count /\ pc = "name_at" /\ UNCHANGED <<handle, unmapped>>
      BY <2>1, <2>3 DEF NameAt, Go, history
    <3>2. index .. count = {}
      <4>1. count \in Nat /\ index \in Nat
        BY DEF Scan, Ahead
      <4>2. index > count
        BY <3>1
      <4>3. QED
        BY <4>1, <4>2
    <3>3. handle \notin steady /\ Mac
      BY <3>1, <3>2 DEF Scan, Sought, Routes, Scanning
    <3>4. Behind(handle) \cap steady = {}
      BY <3>3 DEF Behind
    <3>5. QED
      BY <1>2, <3>1, <3>4, RefusedLasts
  <2>4. CASE FileName
    <3>1. At(handle) = {} /\ ~Mac /\ UNCHANGED handle
      <4>1. \A i \in Image : i # None
        BY LoaderAssumption
      <4>2. QED
        BY <2>1, <2>4, <4>1 DEF FileName, Named, End, At, Routes, locals
    <3>2. Behind(handle) \cap steady = {}
      BY <3>1 DEF Behind
    <3>3. QED
      BY <1>2, <3>1, <3>2, RefusedLasts
  <2>5. CASE CountImages \/ Probe
    BY <2>1, <2>5 DEF CountImages, Probe, Go
  <2>6. CASE Close
    <3>1. name \in Mapped
      BY <2>6 DEF Close, Scan, Kept
    <3>2. name # None
      BY <3>1, LoaderAssumption DEF Mapped
    <3>3. QED
      BY <2>1, <2>6, <3>2 DEF Close, Named, Go, End
  <2>7. QED
    BY <1>2, <2>2, <2>3, <2>4, <2>5, <2>6
    DEF Step, Invalid, ReadSlot, OpenLoaded, Prime, Find, FindGlobal, Owner, Retain,
        OwnerName, Walk, Export, WalkName
<1>3. QED
  BY <1>1, <1>2

LEMMA NameInvariant ==
  /\ Apart /\ Kept /\ Listed /\ Steady /\ Scope /\ Running /\ Routes /\ Ahead /\ Scan
  /\ NamesStand /\ RefusedRightly /\ [Next]_vars /\ Apart'
  => NamesStand' /\ RefusedRightly'
<1> SUFFICES ASSUME Apart, Kept, Listed, Steady, Scope, Running, Routes, Ahead, Scan,
                    NamesStand, RefusedRightly, [Next]_vars, Apart'
             PROVE  NamesStand' /\ RefusedRightly'
  OBVIOUS
<1>1. CASE \E r \in Request : Begin(r)
  BY <1>1 DEF Begin, NamesStand, RefusedRightly, Elements
<1>2. CASE UNCHANGED vars
  BY <1>2 DEF vars, images, locals, history, NamesStand, RefusedRightly, Behind, At, Mapped, Mac
<1>3. CASE Step \/ \E i \in Image : Load(i) \/ Release(i)
  BY <1>3, NamesStep, RefusedStep
<1>4. QED
  BY <1>1, <1>2, <1>3 DEF Next

\* A handle that is not one of the crate's own, on macOS.
Foreign ==
  Mac /\ request.want = "handle" /\ request.image = None => handle = None /\ result # "found"

\* The scan of the images never finds such a handle.
LEMMA ForeignStep ==
  Kept /\ Running /\ Routes /\ Scan /\ Foreign /\ [Next]_vars => Foreign'
<1> SUFFICES ASSUME Kept, Running, Routes, Scan, Foreign, [Next]_vars,
                    Mac', request'.want = "handle", request'.image = None
             PROVE  handle' = None /\ result' # "found"
  BY DEF Foreign
<1>1. CASE \E r \in Request : Begin(r)
  BY <1>1 DEF Begin, Mac
<1>2. CASE UNCHANGED vars \/ \E i \in Image : Load(i) \/ Release(i)
  <2>1. UNCHANGED <<build, request, handle, result>>
    BY <1>2 DEF vars, Load, Release, locals
  <2>2. QED
    BY <2>1 DEF Foreign, Mac
<1>3. CASE Step
  <2>1. result = "none" /\ UNCHANGED <<build, request>>
    BY <1>3
    DEF Running, Step, Invalid, ReadSlot, OpenLoaded, Prime, CountImages, NameAt, Probe,
        Close, FileName, Find, FindGlobal, Owner, Retain, OwnerName, Walk, Export, WalkName
  <2>2. Mac /\ request.want = "handle" /\ handle = None
    BY <2>1 DEF Foreign, Mac
  <2>3. pc \notin {"invalid", "slot", "open", "prime", "find", "dlsym", "walk", "export",
                   "walk_name", "owner", "retain", "owner_name", "file_name"}
    BY <2>2 DEF Routes, Walking, Scoped
  <2>4. CASE CountImages \/ Probe
    BY <2>1, <2>2, <2>4 DEF CountImages, Probe, Go
  <2>5. CASE NameAt
    <3>1. handle' = None
      BY <2>2, <2>5 DEF NameAt
    <3>2. result' # "found"
      BY <2>1, <2>2, <2>5 DEF NameAt, Named, Go, Fail, End
    <3>3. QED
      BY <3>1, <3>2
  <2>6. CASE Close
    <3>1. probe \in Image /\ probe # None
      BY <2>6, LoaderAssumption DEF Close, Scan, Kept, Mapped
    <3>2. QED
      BY <2>1, <2>2, <2>6, <3>1 DEF Close, Go
  <2>7. QED
    BY <1>3, <2>3, <2>4, <2>5, <2>6
    DEF Step, Invalid, ReadSlot, OpenLoaded, Prime, FileName, Find, FindGlobal, Owner, Retain,
        OwnerName, Walk, Export, WalkName
<1>4. QED
  BY <1>1, <1>2, <1>3 DEF Next

\* A module has the name of the image that its handle stands for, and a handle
\* of an image that stays is not refused if it is one of the crate's own, and
\* refused if it is not (unix.rs loaded_macos_module_name_by_handle), for any
\* images, addresses and lists.
THEOREM NameTheorem == Spec => []NameRecovered
<1>1. Init => Listed /\ Steady /\ Scope /\ Running
  BY DEF Init, Listed, Steady, Mapped, Elements, Scope, Scoped, Running
<1>2. Init => Routes /\ Ahead /\ Scan /\ NamesStand /\ RefusedRightly /\ Foreign
  BY DEF Init, Routes, Request, Naming, Converting, Scanning, Walking, Ahead, Scan,
         NamesStand, RefusedRightly, Foreign, Elements
<1>3. NamesStand /\ RefusedRightly /\ Foreign => NameRecovered
  BY DEF NamesStand, RefusedRightly, Foreign, NameRecovered, Elements
<1>4. QED
  BY <1>1, <1>2, <1>3, KeptInit, KeptStep, SteadyInvariant, ScopeStep, RunningStep, RoutesStep,
     AheadStep, ScanStep, NameInvariant, ForeignStep, PTL DEF Spec

------------------------------------------------------------------------------
(* The types of a lookup's locals.                                           *)

Label == {"idle", "invalid", "slot", "find"} \cup Converting \cup Everywhere

\* A local handle or name is None until it is set.
Typed ==
  /\ pc \in Label
  /\ todo \in Seq(Image)
  /\ modules \in Seq([handle : Handle \cup {None}, name : Image \cup {None}])
  /\ handle \in Handle \cup {None}
  /\ addr \in Base \cup {Nowhere}
  /\ name \in Image \cup {None}
  /\ count \in Nat /\ index \in Nat
  /\ result \in {"none", "found", "absent", "error"}

LEMMA BeginTyped ==
  ASSUME NEW r \in Request, Begin(r)
  PROVE  Typed'
<1>1. pc' \in Label
  BY DEF Begin, Request, Global, Recover, Label, Converting, Everywhere
<1>2. todo' \in Seq(Image)
  <2>1. CASE r.want \in {"pair", "list"}
    <3>1. r.names \in Lists
      BY <2>1 DEF Request
    <3>2. QED
      BY <2>1, <3>1, LoaderAssumption DEF Begin
  <2>2. CASE r.want \notin {"pair", "list"}
    BY <2>2 DEF Begin
  <2>3. QED
    BY <2>1, <2>2
<1>3. handle' \in Handle \cup {None}
  BY DEF Begin, Request, Handle
<1>4. addr' \in Base \cup {Nowhere}
  BY DEF Begin, Request
<1>5. /\ modules' = <<>> /\ name' = None /\ count' = 0 /\ index' = 0 /\ result' = "none"
  BY DEF Begin
<1>6. <<>> \in Seq([handle : Handle \cup {None}, name : Image \cup {None}])
  OBVIOUS
<1>7. QED
  BY <1>1, <1>2, <1>3, <1>4, <1>5, <1>6 DEF Typed

LEMMA NamedTyped ==
  ASSUME Typed, Scope, Routes, pc \in Naming, NEW n \in Image \cup {None}, Named(n)
  PROVE  /\ pc' \in Label /\ todo' \in Seq(Image)
         /\ modules' \in Seq([handle : Handle \cup {None}, name : Image \cup {None}])
         /\ result' \in {"none", "found", "absent", "error"}
<1> DEFINE M == [handle : Handle \cup {None}, name : Image \cup {None}]
           m == [handle |-> handle, name |-> n]
<1>1. m \in M
  BY DEF Typed
<1>2. CASE request.want = "handle"
  <2>1. modules' = <<>> \/ modules' = <<m>>
    BY <1>2 DEF Named
  <2> HIDE DEF m, M
  <2>2. <<>> \in Seq(M) /\ <<m>> \in Seq(M)
    BY <1>1
  <2>3. QED
    BY <1>2, <2>1, <2>2 DEF M, Named, Fail, End, Typed, Label
<1>3. CASE request.want # "handle"
  <2>1. todo # <<>>
    BY <1>3 DEF Routes, Scope, Convert, Naming
  <2>2. modules' = Append(modules, m) /\ todo' = Tail(todo)
    BY <1>3 DEF Named
  <2>3. modules' \in Seq(M)
    BY <1>1, <2>2 DEF Typed
  <2>4. todo' \in Seq(Image)
    BY <2>1, <2>2, Rest DEF Typed
  <2>5. QED
    BY <1>3, <2>3, <2>4 DEF Named, Go, Typed, Label, Converting
<1>4. QED
  BY <1>2, <1>3

LEMMA StepTyped ==
  ASSUME Typed, Apart, Listed, Scope, Routes, Scan, Step
  PROVE  Typed'
<1> DEFINE M == [handle : Handle \cup {None}, name : Image \cup {None}]
<1>1. CASE Invalid \/ ReadSlot
  BY <1>1 DEF Invalid, ReadSlot, Go, Fail, End, locals, Label, Everywhere, Typed
<1>2. CASE OpenLoaded \/ Prime
  <2>1. pc \in {"open", "prime"}
    BY <1>2 DEF OpenLoaded, Prime
  <2>2. todo \in Seq(Image) /\ todo # <<>>
    BY <2>1 DEF Routes, Scope, Convert, Converting
  <2>3. Head(todo) \in Image
    BY <2>2, Rest
  <2>4. HandleOf(Head(todo)) \in Handle /\ \A b \in Free : b \in Handle
    BY <2>3 DEF HandleOf, Apart, Handle, Free
  <2>5. /\ UNCHANGED <<todo, modules, addr, name, count, index>>
        /\ pc' \in Label /\ result' \in {"none", "found", "absent", "error"}
    BY <1>2 DEF OpenLoaded, Prime, Go, Fail, End, Recover, Label, Converting, Typed
  <2>6. handle' \in Handle \cup {None}
    <3>1. CASE OpenLoaded
      BY <2>4, <3>1 DEF OpenLoaded, Typed
    <3>2. CASE Prime
      BY <2>3, <2>4, <3>2 DEF Prime, Typed, Handle
    <3>3. QED
      BY <1>2, <3>1, <3>2
  <2>7. QED
    BY <2>5, <2>6 DEF Typed
<1>3. CASE CountImages
  <2>1. Len(order) \in Nat
    BY DEF Listed
  <2>2. QED
    BY <1>3, <2>1 DEF CountImages, Go, Label, Converting, Typed
<1>4. CASE NameAt
  <2>1. CASE index > count
    BY <1>4, <2>1, NamedTyped DEF NameAt, Naming, Converting, Typed
  <2>2. CASE ~(index > count)
    <3>1. index > Len(order) \/ order[index] \in Image
      <4>1. index >= 1 /\ index \in Nat /\ order \in Seq(Image)
        BY <1>4 DEF NameAt, Scan, Typed, Listed
      <4>2. QED
        BY <4>1
    <3>2. QED
      BY <1>4, <2>2, <3>1 DEF NameAt, Go, Label, Converting, Typed
  <2>3. QED
    BY <2>1, <2>2
<1>5. CASE Probe
  BY <1>5 DEF Probe, Go, Label, Converting, Typed
<1>6. CASE Close
  <2>1. CASE probe = handle
    <3>1. pc = "close" /\ Named(name) /\ UNCHANGED <<handle, addr, name, count, index>>
      BY <1>6, <2>1 DEF Close
    <3>2. QED
      BY <3>1, NamedTyped DEF Naming, Converting, Typed
  <2>2. CASE probe # handle
    BY <1>6, <2>2 DEF Close, Go, Label, Converting, Typed
  <2>3. QED
    BY <2>1, <2>2
<1>7. CASE FileName
  <2>1. PICK n \in Image \cup {None} : Named(n)
    BY <1>7 DEF FileName, At
  <2>2. QED
    BY <1>7, <2>1, NamedTyped DEF FileName, Naming, Converting, locals, Typed
<1>8. CASE Find
  <2>1. modules # <<>> /\ modules \in Seq(M)
    BY <1>8 DEF Find, Routes, Scope, Search, Typed
  <2>2. Tail(modules) \in Seq(M)
    BY <2>1, Rest
  <2>3. /\ UNCHANGED <<todo, handle, addr, name, count>>
        /\ modules' \in {modules, Tail(modules)} /\ index' \in {index, Nowhere}
    BY <1>8 DEF Find, Found
  <2>4. pc' \in Label
    BY <1>8 DEF Find, Found, Go, Fail, End, Global, Label, Everywhere, Typed
  <2>5. result' \in {"none", "found", "absent", "error"}
    BY <1>8 DEF Find, Found, Go, Fail, End, Typed
  <2>6. modules' \in Seq(M)
    BY <2>1, <2>2, <2>3
  <2>7. handle' \in Handle \cup {None} /\ todo' \in Seq(Image) /\ index' \in Nat
    BY <2>3 DEF Typed, Nowhere
  <2>8. addr' \in Base \cup {Nowhere} /\ name' \in Image \cup {None} /\ count' \in Nat
    BY <2>3 DEF Typed
  <2>9. QED
    BY <2>4, <2>5, <2>6, <2>7, <2>8 DEF Typed
<1>9. CASE FindGlobal
  <2>1. \A k \in DOMAIN order : base[order[k]] \in Base \cup {Nowhere}
    BY DEF Listed, Apart
  <2>2. QED
    BY <1>9, <2>1 DEF FindGlobal, Go, Fail, End, Label, Everywhere, Typed
<1>10. CASE Owner
  BY <1>10 DEF Owner, At, Handle, Go, Fail, End, Label, Everywhere, Typed
<1>11. CASE Retain \/ OwnerName
  BY <1>11 DEF Retain, OwnerName, Found, Fail, End, locals, Label, Typed
<1>12. CASE Walk
  <2>1. \A b \in Base : b \in Nat /\ b \in Handle
    BY LoaderAssumption DEF Handle
  <2>2. QED
    BY <1>12, <2>1 DEF Walk, Go, Fail, End, Label, Everywhere, Typed
<1>13. CASE Export
  <2>1. At(handle) \cap Exporter # {} => handle \in Base \cup {Nowhere}
    <3>1. ASSUME NEW i \in At(handle) PROVE handle \in Base \cup {Nowhere}
      BY <3>1 DEF At, Apart
    <3>2. QED
      BY <3>1
  <2>2. QED
    BY <1>13, <2>1 DEF Export, Go, Label, Everywhere, Typed
<1>14. CASE WalkName
  BY <1>14 DEF WalkName, Found, Go, locals, Label, Everywhere, Typed
<1>15. QED
  BY <1>1, <1>2, <1>3, <1>4, <1>5, <1>6, <1>7, <1>8, <1>9, <1>10, <1>11, <1>12, <1>13,
     <1>14 DEF Step

\* The types hold of every lookup.
LEMMA TypedStep ==
  Typed /\ Apart /\ Listed /\ Scope /\ Routes /\ Scan /\ [Next]_vars => Typed'
<1> SUFFICES ASSUME Typed, Apart, Listed, Scope, Routes, Scan, [Next]_vars PROVE Typed'
  OBVIOUS
<1>1. CASE \E r \in Request : Begin(r)
  BY <1>1, BeginTyped
<1>2. CASE Step
  BY <1>2, StepTyped
<1>3. CASE UNCHANGED vars \/ \E i \in Image : Load(i) \/ Release(i)
  BY <1>3 DEF vars, Load, Release, locals, Typed
<1>4. QED
  BY <1>1, <1>2, <1>3 DEF Next

------------------------------------------------------------------------------
(* Every lookup ends, as far as that can be said without fairness: three     *)
(* numbers, of which each step of the lookup makes one smaller without       *)
(* making those before it greater.                                           *)

\* The scan's index stays within the count, but for the last; the walk's is a base.
Bounded ==
  /\ pc = "name_at" => index <= count + 1
  /\ pc \in {"probe", "close"} => index <= count
  /\ pc \in Walking => index \in Base \cup {Nowhere}

\* Where a step can lead a scan or a walk.
LEMMA ScanMoves ==
  ASSUME Typed, Bounded, Listed, Step, pc' \in {"name_at", "probe", "close"}
  PROVE  \/ pc = "count" /\ pc' = "name_at" /\ index' = 1 /\ count' \in Nat
         \/ /\ count' = count /\ index <= count
            /\ \/ pc = "name_at" /\ pc' = "probe" /\ index' = index
               \/ pc = "probe" /\ pc' = "close" /\ index' = index
               \/ pc \in {"name_at", "probe", "close"} /\ pc' = "name_at" /\ index' = index + 1
<1>1. CASE CountImages
  <2>1. Len(order) \in Nat
    BY DEF Listed
  <2>2. QED
    BY <1>1, <2>1 DEF CountImages, Go
<1>2. CASE NameAt
  <2>1. ~(index > count)
    BY <1>2 DEF NameAt, Named, Go, Fail, End
  <2>2. index \in Nat /\ count \in Nat
    BY DEF Typed
  <2>3. index <= count
    BY <2>1, <2>2
  <2>4. QED
    BY <1>2, <2>1, <2>3 DEF NameAt, Go
<1>3. CASE Probe
  BY <1>3 DEF Probe, Go, Bounded
<1>4. CASE Close
  BY <1>4 DEF Close, Named, Go, Fail, End, Bounded
<1>5. CASE ~CountImages /\ ~NameAt /\ ~Probe /\ ~Close
  <2>1. pc' \notin {"name_at", "probe", "close"}
    BY <1>5 DEF Step, Invalid, ReadSlot, OpenLoaded, Prime, FileName, Find, FindGlobal, Owner,
                Retain, OwnerName, Walk, Export, WalkName, Named, Found, Go, Fail, End, Recover,
                Global
  <2>2. QED
    BY <2>1
<1>6. QED
  BY <1>1, <1>2, <1>3, <1>4, <1>5

LEMMA WalkMoves ==
  ASSUME Typed, Bounded, Step, pc' \in Walking
  PROVE  \/ pc = "find" /\ pc' = "walk" /\ index' = Nowhere
         \/ pc = "walk" /\ pc' = "export" /\ index' \in Base /\ index' > index
         \/ pc = "export" /\ pc' \in {"walk", "walk_name"} /\ index' = index
         \/ pc = "walk_name" /\ pc' = "walk" /\ index' = index
<1> USE DEF Walking
<1>1. CASE Find
  BY <1>1 DEF Find, Found, Go, Fail, End, Global
<1>2. CASE Walk
  BY <1>2 DEF Walk, Go, Fail, End
<1>3. CASE Export
  BY <1>3 DEF Export, Go
<1>4. CASE WalkName
  BY <1>4 DEF WalkName, Found, Go, locals
<1>5. CASE ~Find /\ ~Walk /\ ~Export /\ ~WalkName
  <2>1. pc' \notin Walking
    BY <1>5 DEF Step, Invalid, ReadSlot, OpenLoaded, Prime, CountImages, NameAt, Probe, Close,
                FileName, FindGlobal, Owner, Retain, OwnerName, Named, Found, Go, Fail, End,
                Recover
  <2>2. QED
    BY <2>1
<1>6. QED
  BY <1>1, <1>2, <1>3, <1>4, <1>5

LEMMA BoundedStep == Typed /\ Bounded /\ Listed /\ [Next]_vars => Bounded'
<1> SUFFICES ASSUME Typed, Bounded, Listed, [Next]_vars PROVE Bounded'
  OBVIOUS
<1>1. index \in Nat /\ count \in Nat
  BY DEF Typed
<1>2. CASE UNCHANGED vars \/ \E i \in Image : Load(i) \/ Release(i)
  BY <1>2 DEF vars, Load, Release, locals, Bounded
<1>3. CASE \E r \in Request : Begin(r)
  <2>1. PICK r \in Request : Begin(r)
    BY <1>3
  <2>2. index' = Nowhere /\ pc' \notin {"name_at", "probe", "close"}
    BY <2>1 DEF Begin, Request, Global, Recover, Nowhere
  <2>3. QED
    BY <2>2 DEF Bounded
<1>4. CASE Step
  <2>1. pc' = "name_at" => index' <= count' + 1
    BY <1>1, <1>4, ScanMoves
  <2>2. pc' \in {"probe", "close"} => index' <= count'
    BY <1>1, <1>4, ScanMoves
  <2>3. pc' \in Walking => index' \in Base \cup {Nowhere}
    BY <1>4, WalkMoves DEF Bounded, Walking
  <2>4. QED
    BY <2>1, <2>2, <2>3 DEF Bounded
<1>5. QED
  BY <1>2, <1>3, <1>4 DEF Next

\* What is left to convert or to search, which call comes next, and how far the
\* scan or the walk has got, when no base is beyond limit.
PhaseOf(label) == CASE label = "open" -> 7
                    [] label \in {"slot", "prime"} -> 6
                    [] label \in {"count", "file_name", "dlsym"} -> 5
                    [] label \in {"name_at", "probe", "close"} \cup Walking -> 4
                    [] label = "owner" -> 3
                    [] label \in {"retain", "owner_name"} -> 2
                    [] label \in {"invalid", "find"} -> 1

ListsLeft == 1 + 2 * Len(todo) + Len(modules)

TurnsLeft(limit) ==
  CASE pc = "name_at"   -> 3 * (count + 1 - index) + 2
    [] pc = "probe"     -> 3 * (count + 1 - index) + 1
    [] pc = "close"     -> 3 * (count + 1 - index)
    [] pc = "export"    -> 3 * (limit - index) + 2
    [] pc = "walk_name" -> 3 * (limit - index) + 1
    [] pc = "walk"      -> 3 * (limit - index)
    [] OTHER            -> 0

LookupLeft(limit) ==
  IF pc = "idle" THEN <<0, <<0, 0>>>> ELSE <<ListsLeft, <<PhaseOf(pc), TurnsLeft(limit)>>>>

NatOrder    == {ss \in Nat \X Nat : ss[1] < ss[2]}
PairOrder   == LexPairOrdering(NatOrder, NatOrder, Nat, Nat)
LookupOrder == LexPairOrdering(NatOrder, PairOrder, Nat, Nat \X Nat)

LEMMA LookupOrderEnds == IsWellFoundedOn(LookupOrder, Nat \X (Nat \X Nat))
<1>1. IsWellFoundedOn(NatOrder, Nat)
  BY NatLessThanWellFounded DEF NatOrder, OpToRel
<1>2. IsWellFoundedOn(PairOrder, Nat \X Nat)
  BY <1>1, WFLexPairOrdering DEF PairOrder
<1>3. QED
  BY <1>1, <1>2, WFLexPairOrdering DEF LookupOrder

LEMMA LookupOrderMeans ==
  ASSUME NEW p \in Nat \X (Nat \X Nat), NEW q \in Nat \X (Nat \X Nat),
         \/ p[1] < q[1]
         \/ p[1] = q[1] /\ p[2][1] < q[2][1]
         \/ p[1] = q[1] /\ p[2][1] = q[2][1] /\ p[2][2] < q[2][2]
  PROVE  <<p, q>> \in LookupOrder
<1>1. CASE p[1] < q[1]
  <2>1. <<p[1], q[1]>> \in NatOrder
    BY <1>1 DEF NatOrder
  <2>2. QED
    BY <2>1 DEF LookupOrder, LexPairOrdering
<1>2. CASE p[1] = q[1] /\ ~(p[1] < q[1])
  <2>1. <<p[2][1], q[2][1]>> \in NatOrder \/ (p[2][1] = q[2][1] /\ <<p[2][2], q[2][2]>> \in NatOrder)
    BY <1>2 DEF NatOrder
  <2>2. <<p[2], q[2]>> \in PairOrder
    BY <2>1 DEF PairOrder, LexPairOrdering
  <2>3. QED
    BY <1>2, <2>2 DEF LookupOrder, LexPairOrdering
<1>3. QED
  BY <1>1, <1>2

\* The numbers are natural ones.
Measured(limit) ==
  /\ LookupLeft(limit) \in Nat \X (Nat \X Nat)
  /\ pc # "idle" => /\ ListsLeft \in Nat \ {0} /\ PhaseOf(pc) \in Nat /\ TurnsLeft(limit) \in Nat
                    /\ LookupLeft(limit) = <<ListsLeft, <<PhaseOf(pc), TurnsLeft(limit)>>>>

LEMMA MeasuredAlways ==
  ASSUME NEW limit \in Nat, \A b \in Base : b <= limit
  PROVE  Typed /\ Bounded => Measured(limit)
<1> SUFFICES ASSUME Typed, Bounded PROVE Measured(limit)
  OBVIOUS
<1>1. Len(todo) \in Nat /\ Len(modules) \in Nat /\ index \in Nat /\ count \in Nat
  BY DEF Typed
<1>2. ListsLeft \in Nat \ {0}
  BY <1>1 DEF ListsLeft
<1>3. pc # "idle" => PhaseOf(pc) \in Nat
  BY DEF Typed, Label, Converting, Everywhere, Walking, PhaseOf
<1>4. TurnsLeft(limit) \in Nat
  <2>1. CASE pc \in {"name_at", "probe", "close"}
    <3>1. index <= count + 1
      BY <1>1, <2>1 DEF Bounded
    <3>2. count + 1 - index \in Nat
      BY <1>1, <3>1
    <3>3. QED
      BY <2>1, <3>2 DEF TurnsLeft
  <2>2. CASE pc \in Walking
    <3>1. index <= limit
      BY <1>1, <2>2 DEF Bounded, Nowhere
    <3>2. limit - index \in Nat
      BY <1>1, <3>1
    <3>3. QED
      BY <2>2, <3>2 DEF TurnsLeft, Walking
  <2>3. CASE pc \notin {"name_at", "probe", "close"} \cup Walking
    BY <2>3 DEF TurnsLeft, Walking
  <2>4. QED
    BY <2>1, <2>2, <2>3
<1>5. QED
  BY <1>2, <1>3, <1>4 DEF Measured, LookupLeft

\* A lookup that ends, that has fewer names or modules before it, that goes on to a
\* later call, or that takes another turn, is closer to its end.
LEMMA LookupFalls ==
  ASSUME NEW limit, Measured(limit), Measured(limit)', pc # "idle",
         \/ pc' = "idle"
         \/ ListsLeft' < ListsLeft
         \/ ListsLeft' = ListsLeft /\ PhaseOf(pc') < PhaseOf(pc)
         \/ ListsLeft' = ListsLeft /\ PhaseOf(pc') = PhaseOf(pc) /\ TurnsLeft(limit)' < TurnsLeft(limit)
  PROVE  <<LookupLeft(limit)', LookupLeft(limit)>> \in LookupOrder
<1>1. /\ ListsLeft \in Nat \ {0} /\ PhaseOf(pc) \in Nat /\ TurnsLeft(limit) \in Nat
      /\ LookupLeft(limit) = <<ListsLeft, <<PhaseOf(pc), TurnsLeft(limit)>>>>
      /\ LookupLeft(limit) \in Nat \X (Nat \X Nat) /\ LookupLeft(limit)' \in Nat \X (Nat \X Nat)
  BY DEF Measured
<1>2. CASE pc' = "idle"
  <2>1. LookupLeft(limit)' = <<0, <<0, 0>>>>
    BY <1>2 DEF LookupLeft
  <2>2. LookupLeft(limit)'[1] = 0 /\ LookupLeft(limit)[1] = ListsLeft
    BY <1>1, <2>1
  <2>3. LookupLeft(limit)'[1] < LookupLeft(limit)[1]
    BY <1>1, <2>2
  <2>4. QED
    BY <1>1, <2>3, LookupOrderMeans
<1>3. CASE pc' # "idle"
  <2>1. LookupLeft(limit)' = <<ListsLeft', <<PhaseOf(pc'), TurnsLeft(limit)'>>>>
    BY <1>3 DEF Measured
  <2>2. QED
    BY <1>1, <1>3, <2>1, LookupOrderMeans
<1>4. QED
  BY <1>2, <1>3

\* A name that is converted becomes a module, and a module that is passed over goes.
LEMMA NamedFalls ==
  ASSUME Typed, Scope, Routes, pc \in Naming, NEW n, Named(n)
  PROVE  pc' = "idle" \/ ListsLeft' < ListsLeft
<1>1. CASE request.want = "handle"
  BY <1>1 DEF Named, Fail, End
<1>2. CASE request.want # "handle"
  <2>1. todo \in Seq(Image) /\ todo # <<>>
    BY <1>2 DEF Routes, Scope, Convert, Naming, Typed
  <2>2. modules' = Append(modules, [handle |-> handle, name |-> n]) /\ todo' = Tail(todo)
    BY <1>2 DEF Named
  <2>3. Len(todo') = Len(todo) - 1 /\ Len(todo) \in Nat
    BY <2>1, <2>2, Rest
  <2>4. Len(modules') = Len(modules) + 1 /\ Len(modules) \in Nat
    BY <2>2 DEF Typed
  <2>5. QED
    BY <2>3, <2>4 DEF ListsLeft
<1>3. QED
  BY <1>1, <1>2

LEMMA FindFalls ==
  ASSUME Typed, Scope, Routes, Find
  PROVE  pc' = "idle" \/ ListsLeft' < ListsLeft
<1>1. pc' = "idle" \/ (modules' = Tail(modules) /\ todo' = todo)
  BY DEF Find, Found
<1>2. modules # <<>> /\ modules \in Seq([handle : Handle \cup {None}, name : Image \cup {None}])
  BY DEF Find, Routes, Scope, Search, Typed
<1>3. Len(Tail(modules)) = Len(modules) - 1 /\ Len(modules) \in Nat
  BY <1>2, Rest
<1>4. Len(todo) \in Nat
  BY DEF Typed
<1>5. QED
  BY <1>1, <1>3, <1>4 DEF ListsLeft

\* What a scan or a walk does next.
LEMMA TurnFalls ==
  ASSUME NEW limit \in Nat, \A b \in Base : b <= limit, Typed, Bounded,
         \/ /\ pc' \in {"name_at", "probe", "close"}
            /\ count' = count /\ index <= count
            /\ \/ pc = "name_at" /\ pc' = "probe" /\ index' = index
               \/ pc = "probe" /\ pc' = "close" /\ index' = index
               \/ pc \in {"name_at", "probe", "close"} /\ pc' = "name_at" /\ index' = index + 1
         \/ pc = "walk" /\ pc' = "export" /\ index' \in Base /\ index' > index
         \/ pc = "export" /\ pc' \in {"walk", "walk_name"} /\ index' = index
         \/ pc = "walk_name" /\ pc' = "walk" /\ index' = index
  PROVE  PhaseOf(pc') = PhaseOf(pc) /\ TurnsLeft(limit)' < TurnsLeft(limit)
<1>1. index \in Nat /\ count \in Nat
  BY DEF Typed
<1>2. PhaseOf(pc') = PhaseOf(pc)
  BY DEF PhaseOf, Walking
<1>3. CASE count' = count /\ pc \in {"name_at", "probe", "close"}
  <2>1. \/ index' = index /\ pc = "name_at" /\ pc' = "probe"
        \/ index' = index /\ pc = "probe" /\ pc' = "close"
        \/ index' = index + 1 /\ pc' = "name_at"
    BY <1>3
  <2>2. CASE index' = index /\ pc = "name_at" /\ pc' = "probe"
    <3>1. /\ TurnsLeft(limit) = 3 * (count + 1 - index) + 2
          /\ TurnsLeft(limit)' = 3 * (count + 1 - index) + 1
      BY <1>3, <2>2 DEF TurnsLeft
    <3>2. QED
      BY <1>1, <1>2, <3>1
  <2>3. CASE index' = index /\ pc = "probe" /\ pc' = "close"
    <3>1. /\ TurnsLeft(limit) = 3 * (count + 1 - index) + 1
          /\ TurnsLeft(limit)' = 3 * (count + 1 - index)
      BY <1>3, <2>3 DEF TurnsLeft
    <3>2. QED
      BY <1>1, <1>2, <3>1
  <2>4. CASE index' = index + 1 /\ pc' = "name_at"
    <3>1. TurnsLeft(limit)' = 3 * (count + 1 - (index + 1)) + 2
      BY <1>3, <2>4 DEF TurnsLeft
    <3>2. TurnsLeft(limit) \in {3 * (count + 1 - index) + 2, 3 * (count + 1 - index) + 1,
                                3 * (count + 1 - index)}
      BY <1>3 DEF TurnsLeft
    <3>3. QED
      BY <1>1, <1>2, <3>1, <3>2
  <2>5. QED
    BY <2>1, <2>2, <2>3, <2>4
<1>4. CASE pc = "walk" /\ pc' = "export" /\ index' \in Base /\ index' > index
  <2>1. TurnsLeft(limit) = 3 * (limit - index) /\ TurnsLeft(limit)' = 3 * (limit - index') + 2
    BY <1>4 DEF TurnsLeft
  <2>2. index' \in Nat
    BY <1>4, LoaderAssumption
  <2>3. 3 * (limit - index') + 2 < 3 * (limit - index)
    <3>1. \A i, j \in Nat : j > i => 3 * (limit - j) + 2 < 3 * (limit - i)
      OBVIOUS
    <3>2. index' > index
      BY <1>4
    <3>3. QED
      BY <1>1, <2>2, <3>1, <3>2
  <2>4. QED
    BY <1>2, <2>1, <2>3
<1>5. CASE pc = "export" /\ pc' \in {"walk", "walk_name"} /\ index' = index
  <2>1. /\ TurnsLeft(limit) = 3 * (limit - index) + 2
        /\ TurnsLeft(limit)' \in {3 * (limit - index), 3 * (limit - index) + 1}
    BY <1>5 DEF TurnsLeft
  <2>2. QED
    BY <1>1, <1>2, <2>1
<1>6. CASE pc = "walk_name" /\ pc' = "walk" /\ index' = index
  <2>1. /\ TurnsLeft(limit) = 3 * (limit - index) + 1
        /\ TurnsLeft(limit)' = 3 * (limit - index)
    BY <1>6 DEF TurnsLeft
  <2>2. QED
    BY <1>1, <1>2, <2>1
<1>7. QED
  BY <1>3, <1>4, <1>5, <1>6

\* Each call of the loader brings a lookup closer to its end.
LEMMA StepFalls ==
  ASSUME NEW limit \in Nat, \A b \in Base : b <= limit,
         Typed, Bounded, Listed, Scope, Routes, Measured(limit), Measured(limit)', Step
  PROVE  pc # "idle" /\ <<LookupLeft(limit)', LookupLeft(limit)>> \in LookupOrder
<1>1. pc # "idle"
  BY DEF Step, Invalid, ReadSlot, OpenLoaded, Prime, CountImages, NameAt, Probe, Close, FileName,
         Find, FindGlobal, Owner, Retain, OwnerName, Walk, Export, WalkName
<1>2. CASE Find
  BY <1>1, <1>2, FindFalls, LookupFalls
<1>3. CASE \E n : pc \in Naming /\ Named(n)
  BY <1>1, <1>3, NamedFalls, LookupFalls
<1>4. CASE pc' = "idle"
  BY <1>1, <1>4, LookupFalls
<1>5. ASSUME ~Find, ~ \E n : pc \in Naming /\ Named(n), pc' # "idle"
      PROVE  /\ UNCHANGED <<todo, modules>>
             /\ \/ PhaseOf(pc') < PhaseOf(pc)
                \/ PhaseOf(pc') = PhaseOf(pc) /\ TurnsLeft(limit)' < TurnsLeft(limit)
  <2> USE DEF Naming, Converting
  <2>1. UNCHANGED <<todo, modules>>
    BY <1>5 DEF Step, Invalid, ReadSlot, OpenLoaded, Prime, CountImages, NameAt, Probe, Close,
                FileName, FindGlobal, Owner, Retain, OwnerName, Walk, Export, WalkName, locals
  <2>2. CASE pc' \in {"name_at", "probe", "close"} /\ pc # "count"
    BY <2>1, <2>2, ScanMoves, TurnFalls
  <2>3. CASE pc' \in Walking
    <3>1. pc # "find"
      BY <1>5 DEF Step, Invalid, ReadSlot, OpenLoaded, Prime, CountImages, NameAt, Probe, Close,
                  FileName, FindGlobal, Owner, Retain, OwnerName, Walk, Export, WalkName
    <3>2. QED
      BY <2>1, <2>3, <3>1, WalkMoves, TurnFalls
  <2>4. CASE pc' \notin {"name_at", "probe", "close"} \cup Walking \/ pc = "count"
    <3>1. \/ pc = "slot" /\ pc' = "owner"
          \/ pc = "open" /\ pc' \in {"prime", "count", "file_name"}
          \/ pc = "prime" /\ pc' \in {"count", "file_name"}
          \/ pc = "count" /\ pc' = "name_at"
          \/ pc = "dlsym" /\ pc' = "owner"
          \/ pc = "owner" /\ pc' \in {"retain", "owner_name"}
      <4>1. CASE Invalid \/ ReadSlot \/ OpenLoaded \/ Prime \/ CountImages
        BY <1>5, <4>1 DEF Invalid, ReadSlot, OpenLoaded, Prime, CountImages, Go, Fail, End, Recover
      <4>2. CASE NameAt \/ Probe \/ Close \/ FileName
        BY <1>5, <2>4, <4>2 DEF NameAt, Probe, Close, FileName, Go
      <4>3. CASE FindGlobal \/ Owner \/ Retain \/ OwnerName
        BY <1>5, <4>3 DEF FindGlobal, Owner, Retain, OwnerName, Found, Go, Fail, End
      <4>4. CASE Walk \/ Export \/ WalkName
        BY <1>5, <2>4, <4>4 DEF Walk, Export, WalkName, Found, Go, Fail, End, Walking
      <4>5. QED
        BY <1>5, <4>1, <4>2, <4>3, <4>4 DEF Step
    <3>2. QED
      BY <2>1, <3>1 DEF PhaseOf, Walking
  <2>5. QED
    BY <2>2, <2>3, <2>4
<1>6. QED
  <2>1. CASE ~Find /\ (~ \E n : pc \in Naming /\ Named(n)) /\ pc' # "idle"
    <3>1. ListsLeft' = ListsLeft
      BY <1>5, <2>1 DEF ListsLeft
    <3>2. QED
      BY <1>1, <1>5, <2>1, <3>1, LookupFalls
  <2>2. QED
    BY <1>2, <1>3, <1>4, <2>1

\* A lookup takes finitely many calls of the loader, whatever is mapped and released
\* between any two: the scan does not follow the list of images as it grows, and the
\* walk only goes up.
THEOREM LookupEndsTheorem ==
  ASSUME NEW limit \in Nat, \A b \in Base : b <= limit
  PROVE  /\ IsWellFoundedOn(LookupOrder, Nat \X (Nat \X Nat))
         /\ Spec => /\ [](LookupLeft(limit) \in Nat \X (Nat \X Nat))
                    /\ [][pc # "idle" =>
                            IF Step THEN <<LookupLeft(limit)', LookupLeft(limit)>> \in LookupOrder
                            ELSE LookupLeft(limit)' = LookupLeft(limit)]_vars
<1>1. Init => /\ Listed /\ Steady /\ Scope /\ Routes /\ Ahead /\ Scan /\ Typed /\ Bounded
  BY DEF Init, Listed, Steady, Mapped, Elements, Scope, Scoped, Routes, Request, Naming, Converting,
         Scanning, Walking, Ahead, Scan, Typed, Label, Bounded
<1>2. Measured(limit) => LookupLeft(limit) \in Nat \X (Nat \X Nat)
  BY DEF Measured
<1>3. Typed /\ Bounded => Measured(limit)
  BY MeasuredAlways
<1>4. /\ Typed /\ Bounded /\ Listed /\ Scope /\ Routes /\ Measured(limit) /\ Measured(limit)'
      /\ [Next]_vars
      => (pc # "idle" =>
            IF Step THEN <<LookupLeft(limit)', LookupLeft(limit)>> \in LookupOrder
            ELSE LookupLeft(limit)' = LookupLeft(limit))
  <2> SUFFICES ASSUME Typed, Bounded, Listed, Scope, Routes, Measured(limit), Measured(limit)',
                      [Next]_vars, pc # "idle"
               PROVE  IF Step THEN <<LookupLeft(limit)', LookupLeft(limit)>> \in LookupOrder
                      ELSE LookupLeft(limit)' = LookupLeft(limit)
    OBVIOUS
  <2>1. CASE Step
    BY <2>1, StepFalls
  <2>2. CASE ~Step
    <3>1. UNCHANGED <<pc, todo, modules, count, index>>
      BY <2>2 DEF Next, vars, Begin, Load, Release, locals
    <3>2. QED
      BY <2>2, <3>1 DEF LookupLeft, ListsLeft, TurnsLeft
  <2>3. QED
    BY <2>1, <2>2
<1>5. Spec => /\ [](LookupLeft(limit) \in Nat \X (Nat \X Nat))
              /\ [][pc # "idle" =>
                      IF Step THEN <<LookupLeft(limit)', LookupLeft(limit)>> \in LookupOrder
                      ELSE LookupLeft(limit)' = LookupLeft(limit)]_vars
  BY <1>1, <1>2, <1>3, <1>4, KeptInit, KeptStep, SteadyInvariant, ScopeStep, RoutesStep, AheadStep,
     ScanStep, TypedStep, BoundedStep, PTL DEF Spec
<1>6. QED
  BY <1>5, LookupOrderEnds
=============================================================================
