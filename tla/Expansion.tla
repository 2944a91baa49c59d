----------------------------- MODULE Expansion -----------------------------
(***************************************************************************)
(* The expansion of one item with hook attributes: a function, or an impl  *)
(* block and its methods (macros/src/lib.rs, expand.rs, observe.rs,        *)
(* callable.rs, support.rs).                                               *)
(*                                                                         *)
(* The compiler expands the attributes of a function one at a time, the    *)
(* first one first. Each sees the function as the ones before it left it:  *)
(* their attributes are gone, a doc comment may be there in their place,   *)
(* and the body may begin with what they put there. An impl block has one  *)
(* attribute, whose expansion goes through the methods.                    *)
(*                                                                         *)
(* An attribute keeps the position at which it is written. The doc comment *)
(* is really put before the others, but no expansion looks at where it is. *)
(***************************************************************************)
EXTENDS HookArgs, TLC

CONSTANT Items        \* the declarations: see Declaration below

\* An attribute, by the last segment of its path. `form` is "list" for
\* `path(..)` and for a path alone, and "value" for `path = ..`; `comma` says
\* that a comma follows the last argument.
HookPath == {"c", "instance", "class", "com"}
Macro    == HookPath \cup {"observe", "observer"}

\* What hook bodies may not be, and what an observer may not be.
Defect == {"no abi", "safe", "generic", "variadic", "self", "pattern", "arity"}

IsList(s) == s \in Seq({s[k] : k \in DOMAIN s})

\* No value of an argument is one of its own parts.
Finite(entries) ==
  \A n \in DOMAIN entries : \A j \in DOMAIN entries[n].value.parts :
    entries[n].value.parts[j] # entries[n].value

\* A function is its attributes and what is wrong with its signature. An item
\* is one function, or an impl block: its attribute and its methods. Nobody
\* writes a marker, and no expression is a part of itself.
Attribute(a) == /\ IsList(a.args)
                /\ a.comma \in BOOLEAN
                /\ a.comma => a.form = "list" /\ a.args # <<>>

Declaration(item) ==
  /\ IsList(item.group) /\ Len(item.group) <= 1
  /\ IsList(item.fns) /\ (item.group = <<>> => Len(item.fns) = 1)
  /\ \A g \in DOMAIN item.group :
       item.group[g].path \in {"com_impl", "objc_impl"} /\ Attribute(item.group[g])
  /\ \A i \in DOMAIN item.fns :
       /\ item.fns[i].sig \subseteq Defect
       /\ IsList(item.fns[i].attrs)
       /\ \A k \in DOMAIN item.fns[i].attrs : /\ item.fns[i].attrs[k].path # "marker"
                                              /\ Attribute(item.fns[i].attrs[k])
                                              /\ Finite(item.fns[i].attrs[k].args)

ASSUME ItemsAssumption == \A item \in Items : Declaration(item)

VARIABLES
  decl,      \* the item as it is written
  attrs,     \* attrs[i]: the attributes of function i that are still there,
             \* by position
  body,      \* body[i]: what expansion has put before its statements
  hooks,     \* the hooks that are generated, in order
  observers, \* the observers that are defined
  at,        \* the method an impl block's expansion has come to
  status     \* "expanding", "done" or "error"

vars == <<decl, attrs, body, hooks, observers, at, status>>

Fns == DOMAIN decl.fns

Init == /\ decl \in Items
        /\ attrs = [i \in Fns |-> decl.fns[i].attrs]
        /\ body = [i \in Fns |-> <<>>]
        /\ hooks = <<>>
        /\ observers = <<>>
        /\ at = 0
        /\ status = "expanding"

\* `to_compile_error`: the item is replaced by the message.
Fail == /\ status' = "error"
        /\ UNCHANGED <<decl, attrs, body, hooks, observers, at>>

------------------------------------------------------------------------------
(* The pieces of a generated hook.                                           *)

First(positions) == CHOOSE k \in positions : \A l \in positions : k <= l

\* The positions in `list` of the attributes of these paths, and what is left
\* without some positions.
Among(list, paths)  == {k \in DOMAIN list : list[k].path \in paths}
Without(list, gone) == [k \in DOMAIN list \ gone |-> list[k]]

Value(is, id)   == [is |-> is, id |-> id, parts |-> <<>>]
Many(is, parts) == [is |-> is, id |-> "", parts |-> parts]

False    == Value("other", "false")
Default  == Value("other", "Default::default()")
Nothing  == Value("other", "")
Instance == Value("path", "Instance")
Class    == Value("path", "Class")

\* The name of function i as a string: `stringify!`, or its default target.
ItemName(i) == Value("str", "fn" \o ToString(i))

\* `derive_com_field_ident`: the same name in PascalCase.
ComField(i) == Value("ident", "Fn" \o ToString(i))

SlotOr(slots, name, default) == IF name \in DOMAIN slots THEN slots[name] ELSE default

\* `slots`, and what `defaults` has besides.
Over(slots, defaults) ==
  [name \in DOMAIN slots \cup DOMAIN defaults |-> SlotOr(slots, name, defaults[name])]

\* An argument list that lacks something is refused: the result is {}, and
\* otherwise holds the one thing that is asked for.
Scope(slots) == DOMAIN slots \cap {"function", "image", "symbol"}

\* Mutant: `image` and `symbol` are looked at first.
NormalizeTargetLax(slots, i) ==
  IF {"image", "symbol"} \subseteq Scope(slots)
    THEN {Many("tuple", <<slots["image"], slots["symbol"]>>)}
  ELSE IF "symbol" \in Scope(slots) THEN {slots["symbol"]}
  ELSE {SlotOr(slots, "function", ItemName(i))}

NormalizeTarget(slots, i) ==
  CASE Scope(slots) = {"function"}        -> {slots["function"]}
    [] Scope(slots) = {"image", "symbol"} -> {Many("tuple", <<slots["image"], slots["symbol"]>>)}
    [] Scope(slots) = {"symbol"}          -> {slots["symbol"]}
    [] Scope(slots) = {}                  -> {ItemName(i)}
    [] OTHER                              -> {}

\* A literal names the hook, or else the item does.
NameOf(value, i) == IF value.is = "str" THEN value ELSE ItemName(i)

FunctionHookName(target, i) ==
  IF target.is = "tuple" /\ Len(target.parts) = 2 THEN NameOf(target.parts[2], i)
  ELSE NameOf(target, i)

ObjcHookName(class, selector, i) ==
  IF class.is = "str" /\ selector.is = "str" THEN Many("path", <<class, selector>>)
  ELSE ItemName(i)

\* A hook of function i on `target`.
Hook(kind, slots, i, observe, target, name) ==
  [fn |-> i, kind |-> kind, target |-> target, name |-> SlotOr(slots, "name", name),
   optional |-> SlotOr(slots, "optional", False),
   fallback |-> SlotOr(slots, "fallback", Default),
   accessor |-> SlotOr(slots, "original", Nothing), observe |-> observe]

HookC(slots, i, observe) ==
  {Hook("c", slots, i, observe, target, FunctionHookName(target, i)) :
   target \in NormalizeTarget(slots, i)}

\* `required_objc_method_expr` of a class, a selector and a kind.
HookObjc(slots, i, observe) ==
  IF {"class", "selector", "kind"} \subseteq DOMAIN slots
  THEN {Hook("objc", slots, i, observe,
             <<slots["kind"], slots["class"], slots["selector"]>>,
             ObjcHookName(slots["class"], slots["selector"], i))}
  ELSE {}

\* A slot that holds a list, as the list.
ListOf(slots, name) == IF name \in DOMAIN slots THEN slots[name].parts ELSE <<>>

ModuleSlice(slots, name) ==
  IF ListOf(slots, name) # <<>> THEN ListOf(slots, name)
  ELSE IF "image" \in DOMAIN slots THEN <<slots["image"]>>
  ELSE <<>>

\* `type_last_ident` finds a name in paths only.
ComHookName(slots, i, context, field) ==
  IF "name" \in DOMAIN slots THEN {slots["name"]}
  ELSE IF "symbol" \in DOMAIN slots THEN {NameOf(slots["symbol"], i)}
  ELSE IF "interface" \in DOMAIN context /\ context["interface"].is \in APath
    THEN {Many("path", <<context["interface"], field>>)}
  ELSE {}

ComRoute(slots, context, field) ==
  IF "resolve" \in DOMAIN slots THEN <<slots["resolve"]>>
  ELSE IF {"interface", "instance"} \subseteq DOMAIN context
    THEN <<context["interface"], context["instance"], field>>
  ELSE <<>>

\* `context` holds the arguments of the impl block, and none for a function.
HookCom(slots, i, context, observe) ==
  LET field == SlotOr(slots, "field", ComField(i))
  IN  {Hook("com", slots, i, observe,
            [symbol |-> SlotOr(slots, "symbol", name),
             route |-> ComRoute(slots, context, field),
             install |-> ModuleSlice(slots, "imports"),
             resolve |-> ModuleSlice(slots, "resolve_images")],
            name) :
       name \in ComHookName(slots, i, context, field)}

------------------------------------------------------------------------------
(* Observation, and what goes into the body.                                 *)

Observing(list) == Among(list, {"observe", "marker"})

\* `take_observe_args`: at most one, and each is parsed.
Taken(list) ==
  LET parsed == [k \in Observing(list) |-> Parse("observe", list[k].args)]
  IN  [ok |-> /\ \A k, l \in Observing(list) : k = l
              /\ \A k \in Observing(list) : list[k].form = "list" /\ parsed[k].ok,
       of |-> {parsed[k].slots : k \in Observing(list)}]

\* `HookCallableMeta::parse`, over functions and methods alike.
Hookable(fn) == fn.sig \subseteq {"arity"}

ForwardLayer(hook) == [does |-> "forward", kind |-> hook.kind]
GateLayer(hook)    == [does |-> "gate", kind |-> hook.kind]

\* Mutant: the gate goes after what is in the body.
RewriteLate(i, hook) ==
  body' = [body EXCEPT ![i] = <<ForwardLayer(hook)>> \o @
                              \o IF hook.observe = {} THEN <<>> ELSE <<GateLayer(hook)>>]

\* `inject_forward_helper` then `inject_observe_dispatch`, each at the head.
Rewrite(i, hook) ==
  body' = [body EXCEPT ![i] = (IF hook.observe = {} THEN <<>> ELSE <<GateLayer(hook)>>)
                              \o <<ForwardLayer(hook)>> \o @]

\* Emits the one hook in `made`, of function i whose other attributes are
\* `others`, or fails.
Emit(i, made, others) ==
  IF made = {} \/ ~Hookable(decl.fns[i]) \/ ~Taken(others).ok THEN Fail
  ELSE \E hook \in made :
         /\ hooks' = Append(hooks, hook)
         /\ Rewrite(i, hook)
         /\ attrs' = [attrs EXCEPT ![i] = Without(others, Observing(others))]
         /\ at' = IF at = 0 THEN 0 ELSE at + 1
         /\ UNCHANGED <<decl, observers, status>>

------------------------------------------------------------------------------
(* The attributes of a function.                                             *)

\* The attributes that are macros. The first one is expanded next.
Pending == Among(attrs[1], Macro)
Turn    == First(Pending)

Free(path) == /\ status = "expanding"
              /\ decl.group = <<>>
              /\ Pending # {}
              /\ attrs[1][Turn].path = path

Arguments == attrs[1][Turn].args
Others    == Without(attrs[1], {Turn})

\* `append_named_arg`: the attribute's own argument comes last, after a comma
\* of its own or the one that is there.
WithKind(entries, kind) == Append(entries, [name |-> "kind", value |-> kind])

Parsed(acc) == acc.ok /\ attrs[1][Turn].form = "list"

Marker(slots) ==
  [path |-> "marker", form |-> "list", comma |-> FALSE, args |-> ObserveMarker(slots)]

ExpandObserve ==
  /\ Free("observe")
  /\ LET parsed == Parse("observe", Arguments)
     IN  IF ~Parsed(parsed) THEN Fail
         ELSE /\ attrs' = [attrs EXCEPT ![1][Turn] = Marker(parsed.slots)]
              /\ UNCHANGED <<decl, body, hooks, observers, at, status>>

ExpandC ==
  /\ Free("c")
  /\ LET parsed == Parse("c", Arguments)
     IN  IF ~Parsed(parsed) THEN Fail
         ELSE Emit(1, HookC(parsed.slots, 1, Taken(Others).of), Others)

ExpandObjc(path, kind) ==
  /\ Free(path)
  /\ LET parsed == Parse("objc", WithKind(Arguments, kind))
     IN  IF ~Parsed(parsed) THEN Fail
         ELSE Emit(1, HookObjc(parsed.slots, 1, Taken(Others).of), Others)

ExpandInstance == ExpandObjc("instance", Instance)
ExpandClass    == ExpandObjc("class", Class)

ExpandCom ==
  /\ Free("com")
  /\ LET parsed == Parse("com", Arguments)
     IN  IF ~Parsed(parsed) THEN Fail
         ELSE Emit(1, HookCom(parsed.slots, 1, NoSlots, Taken(Others).of), Others)

ExpandObserver ==
  /\ Free("observer")
  /\ LET parsed == Parse("observer", Arguments)
     IN  IF \/ ~Parsed(parsed)
            \/ ~IsMode(SlotOr(parsed.slots, "default", Nothing))
            \/ decl.fns[1].sig \cap {"arity", "self"} # {}
         THEN Fail
         ELSE /\ observers' = Append(observers, parsed.slots["default"])
              /\ attrs' = [attrs EXCEPT ![1] = Others]
              /\ UNCHANGED <<decl, body, hooks, at, status>>

------------------------------------------------------------------------------
(* The methods of an impl block.                                             *)

Group == decl.group[1]
Context ==
  IF Group.path = "com_impl" THEN Parse("com_impl", Group.args)
  ELSE Parse("objc_impl", Group.args)

OpenImpl ==
  /\ status = "expanding"
  /\ decl.group # <<>>
  /\ at = 0
  /\ IF ~Context.ok \/ Group.form # "list" \/ decl.trait THEN Fail
     ELSE /\ at' = 1
          /\ UNCHANGED <<decl, attrs, body, hooks, observers, status>>

AtMethod(path) == /\ status = "expanding"
                  /\ at \in Fns
                  /\ Group.path = path

\* The hook attributes of the method, the first of them, and the attributes
\* that are left when all of them are taken off.
Own(paths)     == Among(attrs[at], paths)
Leading(paths) == attrs[at][First(Own(paths))]
Left(paths)    == Without(attrs[at], Own(paths))

\* The first `com` attribute counts; without one, the defaults do.
ExpandComMethod ==
  /\ AtMethod("com_impl")
  /\ LET own == Own({"com"})
         parsed == Parse("com", IF own = {} THEN <<>> ELSE Leading({"com"}).args)
     IN  IF ~parsed.ok \/ (own # {} /\ Leading({"com"}).form # "list") THEN Fail
         ELSE Emit(at, HookCom(parsed.slots, at, Context.slots, Taken(attrs[at]).of), Left({"com"}))

\* The class may come from the impl block, the selector from the method.
MethodSlots(slots, context, i) ==
  Over(slots, Over([selector |-> ItemName(i)], Without(context, {"image"})))

\* `parse_objc_method_hook_attr` takes a list, and puts a comma before the kind
\* that it adds, after one that is there as well.
Combinable(a) == a.form = "list" /\ ~a.comma

ExpandObjcMethod ==
  /\ AtMethod("objc_impl")
  /\ Own({"instance", "class"}) # {}
  /\ LET leading == Leading({"instance", "class"})
         kind == IF leading.path = "instance" THEN Instance ELSE Class
         parsed == Parse("objc", WithKind(leading.args, kind))
     IN  IF ~parsed.ok \/ ~Combinable(leading) THEN Fail
         ELSE Emit(at, HookObjc(MethodSlots(parsed.slots, Context.slots, at), at, Taken(attrs[at]).of),
                   Left({"instance", "class"}))

SkipMethod ==
  /\ AtMethod("objc_impl")
  /\ Own({"instance", "class"}) = {}
  /\ at' = at + 1
  /\ UNCHANGED <<decl, attrs, body, hooks, observers, status>>

------------------------------------------------------------------------------

\* The compiler goes on with what the macros emit. Two hooks of one kind on
\* one function have the same names, as two observers do; an observer is an
\* ordinary safe function. In a method, a hook attribute that is left emits
\* statics into the impl block, and `observe` a comment.
Compiles ==
  /\ \A j, k \in DOMAIN hooks :
       decl.group = <<>> /\ hooks[j].kind = hooks[k].kind => j = k
  /\ Len(observers) <= 1
  /\ observers # <<>> => decl.fns[1].sig = {"no abi", "safe"}
  /\ decl.group # <<>> =>
       /\ hooks # <<>>
       /\ \A i \in Fns : \A k \in DOMAIN attrs[i] :
            /\ attrs[i][k].path \notin HookPath \cup {"observer"}
            /\ attrs[i][k].path = "observe" =>
                 attrs[i][k].form = "list" /\ Parse("observe", attrs[i][k].args).ok

Compile ==
  /\ status = "expanding"
  /\ IF decl.group = <<>> THEN Pending = {} ELSE at = Len(decl.fns) + 1
  /\ IF Compiles THEN /\ status' = "done"
                      /\ UNCHANGED <<decl, attrs, body, hooks, observers, at>>
     ELSE Fail

Next == \/ ExpandObserve \/ ExpandC \/ ExpandInstance \/ ExpandClass \/ ExpandCom
        \/ ExpandObserver
        \/ OpenImpl \/ ExpandComMethod \/ ExpandObjcMethod \/ SkipMethod
        \/ Compile

Spec == Init /\ [][Next]_vars

------------------------------------------------------------------------------
(* What a declaration means, without an order of expansion.                  *)

GrammarOf(path) == IF path \in {"instance", "class"} THEN "objc" ELSE path

\* The two Objective-C attributes say themselves which kind is meant.
WellFormed(a) ==
  /\ a.form = "list"
  /\ Readable(GrammarOf(a.path), a.args)
  /\ a.path \in {"instance", "class"} => \A k \in DOMAIN a.args : a.args[k].name # "kind"

Meaning(a) == Says(GrammarOf(a.path), a.args)

\* The attributes of function i that declare a hook: on a function all, on a
\* method the first of its block's own; a COM method needs none.
ComMethod(item) == item.group # <<>> /\ item.group[1].path = "com_impl"
OwnPaths(item)  == IF ComMethod(item) THEN {"com"} ELSE {"instance", "class"}

Declaring(item, i) ==
  LET list == item.fns[i].attrs
      own  == Among(list, OwnPaths(item))
  IN  IF item.group = <<>> THEN Among(list, HookPath)
      ELSE {k \in own : \A l \in own : k <= l}

Hooked(item, i)   == Declaring(item, i) # {} \/ ComMethod(item)
Watching(item, i) == Among(item.fns[i].attrs, {"observe"})

ContextOf(item) == IF item.group = <<>> THEN NoSlots ELSE Meaning(item.group[1])

\* What a hook attribute of function i makes, where the impl block says
\* `context`: at most one hook.
MadeIn(item, context, i, path, slots, observe) ==
  CASE path = "c"   -> HookC(slots, i, observe)
    [] path = "com" -> HookCom(slots, i, context, observe)
    [] OTHER ->
         LET kinded == Over(slots, [kind |-> IF path = "instance" THEN Instance ELSE Class])
         IN  HookObjc(IF item.group = <<>> THEN kinded ELSE MethodSlots(kinded, context, i),
                      i, observe)

Made(item, i, path, slots, observe) == MadeIn(item, ContextOf(item), i, path, slots, observe)

\* What the attribute at position k makes. The first is observed as `observe` says.
Observed(item, i) == {Meaning(item.fns[i].attrs[k]) : k \in Watching(item, i)}

MadeAt(item, i, k) ==
  LET a == item.fns[i].attrs[k]
  IN  Made(item, i, a.path, Meaning(a),
           IF \A l \in Declaring(item, i) : k <= l THEN Observed(item, i) ELSE {})

HooksOf(item, i) ==
  IF ComMethod(item) /\ Declaring(item, i) = {}
  THEN Made(item, i, "com", NoSlots, Observed(item, i))
  ELSE UNION {MadeAt(item, i, k) : k \in Declaring(item, i)}

\* Every attribute that is read can be read, and a hook lacks nothing and is
\* observed once. On an Objective-C method the list ends without a comma.
FnAcceptable(item, i) ==
  LET list == item.fns[i].attrs
  IN  /\ \A k \in Declaring(item, i) \cup Watching(item, i) : WellFormed(list[k])
      /\ item.group # <<>> /\ ~ComMethod(item) => \A k \in Declaring(item, i) : ~list[k].comma
      /\ Hooked(item, i) => /\ Hookable(item.fns[i])
                            /\ \A k, l \in Watching(item, i) : k = l
                            /\ \A k \in Declaring(item, i) : MadeAt(item, i, k) # {}
                            /\ HooksOf(item, i) # {}

ObserverAcceptable(fn) ==
  LET defined == Among(fn.attrs, {"observer"})
  IN  \A k \in defined :
        /\ defined = {k}
        /\ WellFormed(fn.attrs[k])
        /\ IsMode(SlotOr(Meaning(fn.attrs[k]), "default", Nothing))
        /\ fn.sig = {"no abi", "safe"}

Acceptable(item) ==
  IF item.group = <<>>
  THEN LET list == item.fns[1].attrs
       IN  /\ FnAcceptable(item, 1)
           /\ ObserverAcceptable(item.fns[1])
           /\ \A k, l \in Declaring(item, 1) :
                GrammarOf(list[k].path) = GrammarOf(list[l].path) => k = l
  ELSE /\ WellFormed(item.group[1]) /\ ~item.trait
       /\ \E i \in DOMAIN item.fns : Hooked(item, i)
       /\ \A i \in DOMAIN item.fns :
            /\ FnAcceptable(item, i)
            /\ Among(item.fns[i].attrs, (HookPath \cup {"observer"}) \ OwnPaths(item)) = {}

------------------------------------------------------------------------------
(* Properties.                                                               *)

\* An item is refused if and only if an attribute that counts cannot be read, a
\* hook lacks something, has an argument or an observation twice, or is on a
\* function that cannot be one, wherever the attributes stand and whichever is
\* expanded first. The own attributes of a method after the first do not count.
AcceptsExactly ==
  /\ status = "done" => Acceptable(decl)
  /\ status = "error" => ~Acceptable(decl)

\* The hooks are those the attributes declare, each once, with their arguments
\* and defaults; the observation is the first one's, whether `observe` was
\* expanded before it, left a marker, or was found in place (observe.rs 203-205:
\* "so the hook macro sees the same `HookObserveArgs`").
GeneratesWhatIsDeclared ==
  status = "done" =>
    /\ \A i \in Fns : {hooks[k] : k \in {k \in DOMAIN hooks : hooks[k].fn = i}} = HooksOf(decl, i)
    /\ \A j, k \in DOMAIN hooks : hooks[j] = hooks[k] => j = k

\* The arguments of a hook attribute that nothing reads: an image of an
\* Objective-C hook, a field of a COM hook that goes by another route and name,
\* an image that both lists replace, an empty list.
Ignored(path, slots, name) ==
  \/ path \in {"instance", "class"} /\ name = "image"
  \/ path = "com" /\ name \in {"imports", "resolve_images"} /\ slots[name].parts = <<>>
  \/ path = "com" /\ name = "image"
       /\ ListOf(slots, "imports") # <<>> /\ ListOf(slots, "resolve_images") # <<>>
  \/ path = "com" /\ name = "field"
       /\ Len(ComRoute(slots, ContextOf(decl), Nothing)) # 3
       /\ ({"name", "symbol"} \cap DOMAIN slots = {} => "interface" \notin DOMAIN ContextOf(decl))

\* The argument `name` says what the hook, made without it, has in its place.
SpellsOut(slots, i, name, hook) ==
  LET value == slots[name]
  IN  \/ name \in {"name", "optional", "fallback"} /\ hook[name] = value
      \/ hook.kind = "c" /\ name \in {"function", "symbol"} /\ hook.target = value
      \/ hook.kind = "objc" /\ name = "class" /\ hook.target[2] = value
      \/ hook.kind = "objc" /\ name = "selector" /\ hook.target[3] = value
      \/ hook.kind = "com" /\ name = "symbol" /\ hook.target.symbol = value
      \/ hook.kind = "com" /\ name = "field" /\ ComField(i) = value
      \/ hook.kind = "com" /\ name = "imports" /\ hook.target.install = value.parts
      \/ hook.kind = "com" /\ name = "resolve_images" /\ hook.target.resolve = value.parts

ArgumentsCount(i, k) ==
  LET path == decl.fns[i].attrs[k].path
      slots == Meaning(decl.fns[i].attrs[k])
      without(name) == Made(decl, i, path, Without(slots, {name}), {})
  IN  \A name \in DOMAIN slots :
        \/ Ignored(path, slots, name)
        \/ \E hook \in without(name) : SpellsOut(slots, i, name, hook)
        \/ without(name) # Made(decl, i, path, slots, {})

\* What a hooked method says itself, if anything.
LeadPath(i) ==
  IF Declaring(decl, i) = {} THEN "com" ELSE decl.fns[i].attrs[First(Declaring(decl, i))].path
LeadSlots(i) ==
  IF Declaring(decl, i) = {} THEN NoSlots ELSE Meaning(decl.fns[i].attrs[First(Declaring(decl, i))])

\* The arguments of an impl block that method i makes no use of: an image, a
\* class if it has its own, and what leads to a method of an interface if it is
\* found and named otherwise.
Unused(i, name) ==
  LET slots == LeadSlots(i)
  IN  \/ name = "image"
      \/ name = "class" /\ "class" \in DOMAIN slots
      \/ name = "instance" /\ ("resolve" \in DOMAIN slots \/ "interface" \notin DOMAIN ContextOf(decl))
      \/ name = "interface" /\ {"name", "symbol"} \cap DOMAIN slots # {}
           /\ ("resolve" \in DOMAIN slots \/ "instance" \notin DOMAIN ContextOf(decl))

BlockCounts ==
  \A name \in DOMAIN ContextOf(decl) : \A i \in {i \in Fns : Hooked(decl, i)} :
    \/ Unused(i, name)
    \/ MadeIn(decl, Without(ContextOf(decl), {name}), i, LeadPath(i), LeadSlots(i), {})
         # Made(decl, i, LeadPath(i), LeadSlots(i), {})

\* The attributes that are taken off unread: those of a method's own paths after
\* the first, and `observe` without a hook.
Dropped(i, k) ==
  \/ decl.group # <<>> /\ decl.fns[i].attrs[k].path \in OwnPaths(decl)
       /\ \E l \in Declaring(decl, i) : l < k
  \/ decl.fns[i].attrs[k].path = "observe" /\ ~Hooked(decl, i)

\* Apart from `Dropped`, every macro attribute of an accepted item counts: as
\* the observation of a hook, as the observer's mode, or as a hook, of which
\* then every argument that is not `Ignored` makes a difference, or spells out
\* what would be taken without it. Every argument of an impl block makes a
\* difference to each of its hooks that has a use for it.
EveryArgumentCounts ==
  status = "done" =>
    /\ BlockCounts
    /\ \A i \in Fns : \A k \in Among(decl.fns[i].attrs, Macro) :
         LET a == decl.fns[i].attrs[k]
         IN  \/ Dropped(i, k)
             \/ k \in Declaring(decl, i) /\ ArgumentsCount(i, k)
             \/ a.path = "observe"
                  /\ \E j \in DOMAIN hooks : hooks[j].fn = i /\ hooks[j].observe = {Meaning(a)}
             \/ a.path = "observer" /\ observers = <<Meaning(a)["default"]>>

\* The statements of a function run behind the gate, and their `forward!()` is
\* the first hook's: the layer next to them is its (observe.rs: "Run observation
\* at the function head"; callable.rs: the last `forward` in scope wins).
FirstHookOwnsBody ==
  status = "done" =>
    \A i \in Fns : \A k \in DOMAIN hooks :
      hooks[k].fn = i /\ (\A l \in 1 .. (k - 1) : hooks[l].fn # i)
        => LET n == Len(body[i])
           IN  /\ body[i][n] = ForwardLayer(hooks[k])
               /\ hooks[k].observe # {} <=> (n > 1 /\ body[i][n - 1] = GateLayer(hooks[k]))
               /\ \A l \in DOMAIN body[i] :
                    body[i][l].does = "gate" => body[i][l].kind = hooks[k].kind
=============================================================================
