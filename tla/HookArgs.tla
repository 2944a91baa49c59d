------------------------------ MODULE HookArgs ------------------------------
(***************************************************************************)
(* The arguments of the hook attributes: how a list of them becomes the    *)
(* slots that expansion reads (macros/src/args.rs).                        *)
(*                                                                         *)
(* A value is a record: `is` says what kind of expression it is, as far as *)
(* the parsers look, `id` which one (of a path, its last segment), and     *)
(* `parts` are the values in a tuple or an array. An entry of an argument  *)
(* list has a name, or is positional.                                      *)
(***************************************************************************)
EXTENDS Naturals, Sequences

Expr       == {"str", "ident", "path", "tuple", "array", "other"}
Positional == ""

ModeName == {"Off", "FirstHit", "EveryHit"}

\* What a parsing step has so far: the slots that are filled, and whether a
\* named argument has been seen.
NoSlots     == [name \in {} |-> name]
Empty       == [ok |-> TRUE, named |-> FALSE, slots |-> NoSlots]
Refuse(acc) == [ok |-> FALSE, named |-> acc.named, slots |-> acc.slots]
Named(acc)  == [ok |-> acc.ok, named |-> TRUE, slots |-> acc.slots]
Given(acc)  == DOMAIN acc.slots

With(slots, name, value) ==
  [other \in DOMAIN slots \cup {name} |-> IF other = name THEN value ELSE slots[other]]

Fill(acc, name, value) ==
  [ok |-> acc.ok, named |-> acc.named, slots |-> With(acc.slots, name, value)]

\* Mutant: a later argument overwrites an earlier one of its name.
PutOver(acc, name, value) == Fill(acc, name, value)

\* The `set_*_slot` functions and `parse_slot`: a slot is filled once.
Put(acc, name, value) ==
  IF name \in Given(acc) THEN Refuse(acc) ELSE Fill(acc, name, value)

------------------------------------------------------------------------------
(* `#[hook::c(..)]`: one positional target, then named arguments.            *)

HookSlot == {"original", "name", "function", "image", "symbol", "optional", "fallback"}

TakeNamedHookArg(acc, e) ==
  IF e.name \in HookSlot /\ (e.name = "original" => e.value.is = "ident")
  THEN Put(Named(acc), e.name, e.value)
  ELSE Refuse(acc)

TakeHookArg(acc, e) ==
  IF e.name # Positional THEN TakeNamedHookArg(acc, e)
  ELSE IF acc.named THEN Refuse(acc)
  ELSE Put(acc, "function", e.value)

------------------------------------------------------------------------------
(* The attributes whose arguments are all named. Each has a table that says  *)
(* what a slot may hold.                                                     *)

AnIdent == {"ident"}
APath   == {"ident", "path"}
AType   == {"ident", "path", "tuple", "array"}
AnArray == {"array"}

HookObjcArgs == [original |-> AnIdent, name |-> Expr, class |-> Expr, selector |-> Expr,
                 kind |-> Expr, image |-> Expr, optional |-> Expr, fallback |-> Expr]

HookObjcImplArgs == [class |-> Expr, image |-> Expr]

HookComArgs == [original |-> AnIdent, name |-> Expr, field |-> AnIdent, symbol |-> Expr,
                resolve |-> Expr, image |-> Expr, optional |-> Expr, fallback |-> Expr,
                imports |-> AnArray, resolve_images |-> AnArray]

HookComImplArgs == [interface |-> AType, instance |-> Expr]

HookObserverArgs == [default |-> APath]

\* `parse_expr_array_slot` refuses a second list only after one with elements.
TakeArray(acc, e) ==
  IF e.name \in Given(acc) /\ acc.slots[e.name].parts # <<>> THEN Refuse(acc)
  ELSE Fill(acc, e.name, e.value)

TakeNestedArg(table, acc, e) ==
  IF e.name \notin DOMAIN table \/ e.value.is \notin table[e.name] THEN Refuse(acc)
  ELSE IF table[e.name] = AnArray THEN TakeArray(acc, e)
  ELSE Put(acc, e.name, e.value)

------------------------------------------------------------------------------
(* `#[hook::observe(..)]`: a payload and a mode, by position or by name.     *)

\* `interception_mode_path`: the last segment alone decides.
IsMode(value) == value.is \in APath /\ value.id \in ModeName

TakeNamedObserveArg(acc, e) ==
  IF e.name = "value" \/ (e.name = "mode" /\ IsMode(e.value))
  THEN Put(Named(acc), e.name, e.value)
  ELSE Refuse(acc)

TakeObserveArg(acc, e) ==
  IF e.name # Positional THEN TakeNamedObserveArg(acc, e)
  ELSE IF acc.named THEN Refuse(acc)
  ELSE Put(acc, IF IsMode(e.value) THEN "mode" ELSE "value", e.value)

\* What is written back of the slot `name`.
Kept(slots, name) ==
  IF name \in DOMAIN slots THEN <<[name |-> name, value |-> slots[name]]>> ELSE <<>>

\* Mutant: the mode is left out.
MarkerWithoutMode(slots) == Kept(slots, "value")

\* `observe_marker_tokens`: both are written back by name.
ObserveMarker(slots) == Kept(slots, "value") \o Kept(slots, "mode")

------------------------------------------------------------------------------
(* A parser goes through its list, and stops at the first refusal.           *)

Grammar == {"c", "objc", "com", "objc_impl", "com_impl", "observer", "observe"}

TableOf(grammar) ==
  CASE grammar = "objc"      -> HookObjcArgs
    [] grammar = "com"       -> HookComArgs
    [] grammar = "objc_impl" -> HookObjcImplArgs
    [] grammar = "com_impl"  -> HookComImplArgs
    [] grammar = "observer"  -> HookObserverArgs

Take(grammar, acc, e) ==
  CASE grammar = "c"       -> TakeHookArg(acc, e)
    [] grammar = "observe" -> TakeObserveArg(acc, e)
    [] OTHER               -> TakeNestedArg(TableOf(grammar), acc, e)

Parse(grammar, entries) ==
  LET read[n \in 0 .. Len(entries)] ==
        IF n = 0 THEN Empty
        ELSE LET acc == read[n - 1]
             IN  IF acc.ok THEN Take(grammar, acc, entries[n]) ELSE acc
  IN  read[Len(entries)]

------------------------------------------------------------------------------
(* What a declaration means, read at once and without an order of reading.   *)

\* The slot an entry is for, or "refused".
ReadsHook(e) ==
  IF e.name = Positional THEN "function"
  ELSE IF e.name \in HookSlot /\ (e.name = "original" => e.value.is = "ident") THEN e.name
  ELSE "refused"

ReadsObserve(e) ==
  IF e.name = Positional THEN IF IsMode(e.value) THEN "mode" ELSE "value"
  ELSE IF e.name = "value" \/ (e.name = "mode" /\ IsMode(e.value)) THEN e.name
  ELSE "refused"

ReadsNested(table, e) ==
  IF e.name \in DOMAIN table /\ e.value.is \in table[e.name] THEN e.name ELSE "refused"

Reads(grammar, e) ==
  CASE grammar = "c"       -> ReadsHook(e)
    [] grammar = "observe" -> ReadsObserve(e)
    [] OTHER               -> ReadsNested(TableOf(grammar), e)

\* A positional entry stands before every named one.
PositionalFirst(entries) ==
  \A i, j \in DOMAIN entries :
    entries[i].name # Positional /\ entries[j].name = Positional => j < i

\* No two entries are for one slot, lists without elements apart.
Distinct(grammar, entries) ==
  \A i, j \in DOMAIN entries :
    i < j /\ Reads(grammar, entries[i]) = Reads(grammar, entries[j])
      => /\ grammar = "com"
         /\ entries[i].name \in {"imports", "resolve_images"}
         /\ entries[i].value.parts = <<>>

Readable(grammar, entries) ==
  /\ \A i \in DOMAIN entries : Reads(grammar, entries[i]) # "refused"
  /\ PositionalFirst(entries)
  /\ Distinct(grammar, entries)

\* What such a list says: the entries that count, each in its slot.
Says(grammar, entries) ==
  LET named == {Reads(grammar, entries[i]) : i \in DOMAIN entries}
      last(name) == CHOOSE i \in DOMAIN entries :
                      /\ Reads(grammar, entries[i]) = name
                      /\ \A j \in DOMAIN entries : Reads(grammar, entries[j]) = name => j <= i
  IN  [name \in named |-> entries[last(name)].value]
=============================================================================
