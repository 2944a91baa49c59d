----------------------------- MODULE ObjcRuntime -----------------------------
(***************************************************************************)
(* The installation of Objective-C hooks for one selector by several       *)
(* threads: from the names of a class and a selector to a method, and      *)
(* `resolve_method` and `replace_method` (src/objc.rs, src/imp/objc).      *)
(*                                                                         *)
(* A method that a class inherits is copied onto the class before it is    *)
(* replaced, so that ancestors and siblings keep theirs. Looking a class   *)
(* or a method up, listing a class's own methods, reading an               *)
(* implementation, adding a method and exchanging an implementation are    *)
(* separate runtime calls, so each is a step. A Method handle is the class *)
(* object whose method list it points into. Class methods are the methods  *)
(* of metaclasses, which have no names; the root's metaclass inherits from *)
(* the root class.                                                         *)
(***************************************************************************)

CONSTANTS
  Class,    \* class objects: classes and metaclasses
  Above,    \* Class -> the class object and its ancestors
  Named,    \* the class objects with a name, which are no metaclasses
  MetaOf,   \* Named -> the metaclass
  Hook,     \* replacements
  OnClass,  \* Hook -> Named
  KindOf,   \* Hook -> {"Instance", "Class"}
  BadName,  \* Hook -> which of its names have a NUL in them
  Late,     \* classes that may get a method of their own while hooks go in
  None

\* The implementation a class came with goes by the name of the class.
Imp == Class \cup Hook

ASSUME ClassAssumption ==
  /\ Above \in [Class -> SUBSET Class]
  /\ \A c \in Class : c \in Above[c]
  /\ \A c \in Class : \A a \in Above[c] : Above[a] \subseteq Above[c]
  /\ \A c, a \in Class : a \in Above[c] /\ c \in Above[a] => a = c
  /\ \A c \in Class : \A a, b \in Above[c] : a \in Above[b] \/ b \in Above[a]
ASSUME NameAssumption ==
  /\ Named \subseteq Class
  /\ MetaOf \in [Named -> Class]
  /\ OnClass \in [Hook -> Named]
  /\ KindOf \in [Hook -> {"Instance", "Class"}]
  /\ BadName \in [Hook -> SUBSET {"class", "selector"}]
ASSUME HookAssumption == /\ Hook \cap Class = {}
                         /\ None \notin Imp
                         /\ Late \subseteq Class

\* The class object that a hook's method is to be on.
HookOn == [h \in Hook |-> IF KindOf[h] = "Instance" THEN OnClass[h] ELSE MetaOf[OnClass[h]]]

VARIABLES
  registered, \* the classes that the runtime knows by name
  method,     \* the implementation in each class object's own list
  pc,         \* where the installation of each hook is
  slot,       \* its Method handle
  copied,     \* the implementation it read from the inherited method
  original    \* what replace_with returned to it

vars == <<registered, method, pc, slot, copied, original>>

\* Every handle points to a method that exists, and every copy was read.
Handles == \A h \in Hook :
  /\ pc[h] \in {"check", "copy", "add", "swap"} => /\ slot[h] \in Class
                                                   /\ method[slot[h]] # None
  /\ pc[h] = "add" => copied[h] # None

ObjcTypeOK ==
  /\ registered \subseteq Named
  /\ method \in [Class -> Imp \cup {None}]
  /\ pc \in [Hook -> {"class", "selector", "lookup", "check", "copy", "add",
                      "again", "swap", "done", "absent", "refused"}]
  /\ slot \in [Hook -> Class \cup {None}]
  /\ copied \in [Hook -> Imp \cup {None}]
  /\ original \in [Hook -> Imp \cup {None}]
  /\ Handles

Init == /\ registered = {}
        /\ \E own \in SUBSET (Class \ Late) :
             method = [c \in Class |-> IF c \in own THEN c ELSE None]
        /\ pc = [h \in Hook |-> "class"]
        /\ slot = [h \in Hook |-> None]
        /\ copied = [h \in Hook |-> None]
        /\ original = [h \in Hook |-> None]

\* Looking the selector up in c finds the method of a, its nearest ancestor
\* that has one.
Finds(c, a) == /\ a \in Above[c]
               /\ method[a] # None
               /\ \A b \in Above[c] : method[b] # None => b \in Above[a]

Goto(h, label) == pc' = [pc EXCEPT ![h] = label]

\* `IntoObjcClass`: a name with a NUL is refused, an unknown one is absent.
FindClass(h) ==
  /\ pc[h] = "class"
  /\ Goto(h, IF "class" \in BadName[h] THEN "refused"
             ELSE IF OnClass[h] \in registered THEN "selector" ELSE "absent")
  /\ UNCHANGED <<registered, method, slot, copied, original>>

\* `IntoObjcSelector`
TakeSelector(h) ==
  /\ pc[h] = "selector"
  /\ Goto(h, IF "selector" \in BadName[h] THEN "refused" ELSE "lookup")
  /\ UNCHANGED <<registered, method, slot, copied, original>>

\* The installer runs again, after a class or a method was absent.
Retry(h) == /\ pc[h] = "absent"
            /\ Goto(h, "class")
            /\ UNCHANGED <<registered, method, slot, copied, original>>

\* Mutant: the result of the lookup is not looked at.
LookupUnchecked(h) ==
  /\ pc[h] = "lookup"
  /\ slot' = [slot EXCEPT ![h] =
                IF \E a \in Class : Finds(HookOn[h], a)
                THEN CHOOSE a \in Class : Finds(HookOn[h], a) ELSE None]
  /\ Goto(h, "check")
  /\ UNCHANGED <<registered, method, copied, original>>

\* `instance_method(selector)?`: a method that does not exist ends the call.
Lookup(h) ==
  /\ pc[h] = "lookup"
  /\ \/ \E a \in Class : /\ Finds(HookOn[h], a)
                         /\ slot' = [slot EXCEPT ![h] = a]
                         /\ Goto(h, "check")
     \/ /\ \A a \in Above[HookOn[h]] : method[a] = None
        /\ Goto(h, "absent")
        /\ UNCHANGED slot
  /\ UNCHANGED <<registered, method, copied, original>>

\* Mutant: a method that is found counts as the class's own.
CheckNothing(h) == /\ pc[h] = "check"
                   /\ Goto(h, "swap")
                   /\ UNCHANGED <<registered, method, slot, copied, original>>

\* has_direct_method. The handle of the lookup before it is the result.
Check(h) == /\ pc[h] = "check"
            /\ \/ method[HookOn[h]] # None /\ Goto(h, "swap")
               \/ method[HookOn[h]] = None /\ Goto(h, "copy")
            /\ UNCHANGED <<registered, method, slot, copied, original>>

\* localize_inherited_method: the implementation is read, then added. The
\* runtime has a type encoding for every method it hands out.
Copy(h) == /\ pc[h] = "copy"
           /\ copied' = [copied EXCEPT ![h] = method[slot[h]]]
           /\ Goto(h, "add")
           /\ UNCHANGED <<registered, method, slot, original>>

\* class_addMethod does nothing if the class has the method by now.
Add(h) == /\ pc[h] = "add"
          /\ method' = IF method[HookOn[h]] = None
                       THEN [method EXCEPT ![HookOn[h]] = copied[h]]
                       ELSE method
          /\ Goto(h, "again")
          /\ UNCHANGED <<registered, slot, copied, original>>

\* Mutant: the inherited method is returned although there is a copy.
AgainInherited(h) == /\ pc[h] = "again"
                     /\ Goto(h, "swap")
                     /\ UNCHANGED <<registered, method, slot, copied, original>>

\* The second lookup.
Again(h) == /\ pc[h] = "again"
            /\ \E a \in Class : /\ Finds(HookOn[h], a)
                                /\ slot' = [slot EXCEPT ![h] = a]
            /\ Goto(h, "swap")
            /\ UNCHANGED <<registered, method, copied, original>>

\* Mutant: the implementation is read after it has been set.
SwapLate(h) == /\ pc[h] = "swap"
               /\ method' = [method EXCEPT ![slot[h]] = h]
               /\ original' = [original EXCEPT ![h] = method'[slot[h]]]
               /\ Goto(h, "done")
               /\ UNCHANGED <<registered, slot, copied>>

\* replace_method: method_setImplementation exchanges atomically.
Swap(h) == /\ pc[h] = "swap"
           /\ original' = [original EXCEPT ![h] = method[slot[h]]]
           /\ method' = [method EXCEPT ![slot[h]] = h]
           /\ Goto(h, "done")
           /\ UNCHANGED <<registered, slot, copied>>

\* The program gives a class a method of its own.
Define(c) == /\ c \in Late
             /\ method[c] = None
             /\ method' = [method EXCEPT ![c] = c]
             /\ UNCHANGED <<registered, pc, slot, copied, original>>

\* The program loads a class. Its superclass is there, and its metaclass comes
\* with it.
Register(c) == /\ c \notin registered
               /\ Above[c] \cap Named \subseteq registered \cup {c}
               /\ registered' = registered \cup {c}
               /\ UNCHANGED <<method, pc, slot, copied, original>>

Next == \/ \E h \in Hook : \/ FindClass(h) \/ TakeSelector(h) \/ Retry(h)
                           \/ Lookup(h) \/ Check(h) \/ Copy(h)
                           \/ Add(h) \/ Again(h) \/ Swap(h)
        \/ \E c \in Class : Define(c)
        \/ \E c \in Named : Register(c)

Spec == Init /\ [][Next]_vars

------------------------------------------------------------------------------
(* Properties.                                                               *)

\* imp/objc/mod.rs 75-76: "later replacement stays scoped to that class instead
\* of mutating the shared ancestor slot": a class runs a hook only if the hook
\* is on the class or on an ancestor it inherits from.
Scoped == \A c \in Class : method[c] \in Hook => HookOn[method[c]] \in Above[c]

\* A hook that is installed is what its class runs, whatever is installed on
\* its ancestors and descendants at the same time.
HookInFront == \A h \in Hook : pc[h] = "done" => Finds(HookOn[h], HookOn[h])
                                                 /\ method[HookOn[h]] = h

\* What a hook forwards to belongs to its class's line: an implementation of
\* the class or an ancestor, or the hook of a proper ancestor. Forwards climb
\* the hierarchy, so that they end, and never reach a sibling.
OriginalInLine ==
  \A h \in Hook :
    LET o == original[h]
    IN  /\ o \in Class => o \in Above[HookOn[h]]
        /\ o \in Hook => /\ HookOn[o] \in Above[HookOn[h]]
                         /\ HookOn[o] # HookOn[h]
=============================================================================
