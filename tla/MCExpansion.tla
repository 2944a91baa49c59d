---------------------------- MODULE MCExpansion ----------------------------
(***************************************************************************)
(* Declarations for TLC: each kind of attribute with all short lists of    *)
(* its arguments, and functions and methods with all short stacks of       *)
(* attributes.                                                             *)
(***************************************************************************)
EXTENDS Expansion

Lists(n, set) == UNION {[1 .. m -> set] : m \in 0 .. n}
Entry(name, value) == [name |-> name, value |-> value]

\* Values that tell which entry they come from.
Text(name) == Entry(name, Value("str", name))
Word(name) == Entry(name, Value("ident", name))

pair  == Many("tuple", <<Value("ident", "there"), Value("str", "that")>>)
none  == Many("array", <<>>)
some  == Many("array", <<Value("str", "there")>>)
mode  == Value("path", "EveryHit")
event == Value("path", "Event")
off   == Value("path", "Off")

Attr(path, args) == [path |-> path, form |-> "list", comma |-> FALSE, args |-> args]
Keyed(path)      == [path |-> path, form |-> "value", comma |-> FALSE, args |-> <<>>]
Trailing(a)      == [a EXCEPT !.comma = TRUE]

Fn(attributes, defects)    == [attrs |-> attributes, sig |-> defects]
Function(attributes, sig)  == [group |-> <<>>, trait |-> FALSE, fns |-> <<Fn(attributes, sig)>>]
Impl(group, methods)       == [group |-> <<group>>, trait |-> FALSE, fns |-> methods]

CEntries == {Entry(Positional, v) : v \in {Value("str", "this"), pair}}
            \cup {Word(name) : name \in {"original", "name", "image"}}
            \cup {Text(name) : name \in HookSlot}
ComEntries == {Word(name) : name \in {"original", "field", "resolve", "image", "symbol"}}
              \cup {Text(name) : name \in {"name", "symbol", "original", "optional", "fallback"}}
              \cup {Entry(name, v) : name \in {"imports", "resolve_images"}, v \in {none, some}}
ObjcEntries == {Word(name) : name \in DOMAIN HookObjcArgs}
               \cup {Text("class"), Text("selector"), Entry(Positional, event)}
ObserveEntries == {Entry(Positional, v) : v \in {event, off, pair}}
                  \cup {Entry("value", v) : v \in {event, off}}
                  \cup {Entry("mode", v) : v \in {event, mode}} \cup {Text("kind")}

\* One attribute with all its lists.
Single ==
  {Function(<<Attr("c", args)>>, {}) : args \in Lists(3, CEntries)}
  \cup {Function(<<Attr("com", args)>>, {}) : args \in Lists(3, ComEntries)}
  \cup {Function(<<Attr("instance", args)>>, {}) : args \in Lists(3, ObjcEntries)}
  \cup {Function(<<Attr("observer", <<Entry("default", v)>>)>>, sig) :
        v \in {mode, event, pair}, sig \in SUBSET {"no abi", "safe", "arity", "self"}}
  \cup {Function(<<Attr("c", <<>>), Attr("observe", args)>>, {}) : args \in Lists(3, ObserveEntries)}
  \cup {Function(<<Attr("observe", args), Attr("c", <<>>)>>, {}) : args \in Lists(3, ObserveEntries)}

\* Arguments that say what holds without them, and what does not.
Idle == {Entry("optional", False), Entry("fallback", Default),
         Entry("name", Value("str", "symbol")), Entry("symbol", Value("str", "name")),
         Entry("field", ComField(1)), Entry("function", ItemName(1)), Entry("name", ItemName(1)),
         Entry("imports", Many("array", <<Value("str", "image")>>)), Text("image"), Text("symbol")}
Spelled ==
  {Function(<<Attr(path, args)>>, {}) : path \in {"c", "com"}, args \in Lists(3, Idle)}
  \cup {Impl(Attr("objc_impl", <<Entry("class", Value("str", "class"))>>),
              <<Fn(<<Attr("instance", args)>>, {})>>) :
           args \in Lists(2, {Text("class"), Entry("selector", ItemName(1)), Entry("fallback", Default)})}

\* Stacks of attributes on one function.
Objc(path) == Attr(path, <<Text("class"), Text("selector")>>)
Stackable == {Attr("c", <<>>), Attr("c", <<Word("image")>>), Objc("instance"), Objc("class"),
              Attr("com", <<Text("name")>>), Keyed("com"), Keyed("observe"),
              Attr("observe", <<>>), Attr("observe", <<Entry("value", off)>>),
              Attr("observe", <<Entry("mode", mode)>>), Attr("inline", <<>>),
              Attr("observer", <<Entry("default", mode)>>)}
Stacked == {Function(attributes, sig) :
              attributes \in Lists(3, Stackable), sig \in {{}, {"arity"}, {"no abi", "safe"}, {"self"}}}

\* Methods: one with all short lists, two with stacks.
outer == Entry("class", Value("str", "outer"))

Groups == {Attr("com_impl", <<>>), Attr("com_impl", <<Word("interface")>>),
           Attr("com_impl", <<Entry("interface", pair), Word("instance")>>),
           Attr("com_impl", <<Text("instance"), Entry("interface", event)>>),
           Attr("com_impl", <<Text("class")>>),
           Attr("objc_impl", <<>>), Attr("objc_impl", <<outer>>),
           Attr("objc_impl", <<Text("image"), outer>>)}
OnMethods == {Attr("com", <<Text("symbol")>>), Attr("com", <<>>), Keyed("com"),
              Attr("instance", <<>>), Objc("class"), Attr("observe", <<>>), Attr("c", <<>>)}
Methods ==
  {Impl(group, <<Fn(<<Attr(path, args)>>, {})>>) :
     group \in Groups, path \in {"com", "class"}, args \in Lists(2, ComEntries \cup ObjcEntries)}
  \cup {Impl(group, <<Fn(one, {}), Fn(two, {})>>) :
          group \in {Attr("com_impl", <<Word("interface")>>),
                     Attr("objc_impl", <<outer>>)},
          one, two \in Lists(2, OnMethods)}
  \cup {[Impl(group, <<Fn(<<Objc("class")>>, {"self"})>>) EXCEPT !.trait = trait] :
          group \in Groups, trait \in BOOLEAN}
  \cup {Impl(group, <<>>) : group \in Groups}

\* Attributes that end with a comma, where they count and where they do not.
Ended == {Trailing(a) : a \in {Objc("instance"), Objc("class"), Attr("com", <<Text("symbol")>>),
                               Attr("c", <<Text("symbol")>>), Attr("observe", <<Entry("mode", mode)>>),
                               Attr("observer", <<Entry("default", mode)>>)}}
Commas ==
  {Function(attributes, sig) : attributes \in Lists(2, Ended), sig \in {{}, {"no abi", "safe"}}}
  \cup {Impl(group, <<Fn(attributes, {})>>) :
          group \in {Attr("com_impl", <<Word("interface")>>), Trailing(Attr("com_impl", <<Word("interface")>>)),
                     Attr("objc_impl", <<outer>>), Trailing(Attr("objc_impl", <<outer>>))},
          attributes \in Lists(2, Ended \cup {Objc("class")})}

Declarations == {item \in Single \cup Spelled \cup Stacked \cup Methods \cup Commas : Declaration(item)}
=============================================================================
