-------------------------- MODULE ObjcRuntime_proofs --------------------------
(***************************************************************************)
(* Proofs about ObjcRuntime, for every class hierarchy: as long as no two  *)
(* hooks share a class and the program adds no method to a hooked class,   *)
(* concurrent installations stay in the slot of their class.               *)
(***************************************************************************)
EXTENDS ObjcRuntime, TLAPS

\* The only one to touch the slot of a hooked class is the hook's installer.
Apart == /\ \A g, h \in Hook : HookOn[g] = HookOn[h] => g = h
         /\ \A h \in Hook : HookOn[h] \notin Late

LEMMA Names == /\ None \notin Class /\ None \notin Hook
               /\ \A h \in Hook : HookOn[h] \in Class
               /\ Hook \cap Class = {}
               /\ Named \subseteq Class
BY HookAssumption, NameAssumption DEF Imp, HookOn

\* The types of the runtime's and the installers' state.
THEOREM ObjcTypes == Spec => []ObjcTypeOK
<1>1. Init => ObjcTypeOK
  BY DEF Init, ObjcTypeOK, Handles, Imp
<1>2. ObjcTypeOK /\ [Next]_vars => ObjcTypeOK'
  <2> SUFFICES ASSUME ObjcTypeOK, [Next]_vars
               PROVE  ObjcTypeOK'
    OBVIOUS
  <2> USE Names DEF ObjcTypeOK, Handles, Goto
  <2>1. ASSUME NEW h \in Hook, Lookup(h) PROVE ObjcTypeOK'
    BY <2>1 DEF Lookup, Finds
  <2>2. ASSUME NEW h \in Hook, Check(h) PROVE ObjcTypeOK'
    BY <2>2 DEF Check
  <2>3. ASSUME NEW h \in Hook, Copy(h) PROVE ObjcTypeOK'
    BY <2>3 DEF Copy
  <2>4. ASSUME NEW h \in Hook, Add(h) PROVE ObjcTypeOK'
    BY <2>4 DEF Add
  <2>5. ASSUME NEW h \in Hook, Again(h) PROVE ObjcTypeOK'
    BY <2>5 DEF Again, Finds
  <2>6. ASSUME NEW h \in Hook, Swap(h) PROVE ObjcTypeOK'
    BY <2>6 DEF Swap, Imp
  <2>7. ASSUME NEW c \in Class, Define(c) PROVE ObjcTypeOK'
    BY <2>7 DEF Define, Imp
  <2>8. ASSUME NEW h \in Hook, FindClass(h) \/ TakeSelector(h) \/ Retry(h)
        PROVE  ObjcTypeOK'
    BY <2>8 DEF FindClass, TakeSelector, Retry
  <2>9. ASSUME NEW c \in Named, Register(c) PROVE ObjcTypeOK'
    BY <2>9 DEF Register
  <2>10. CASE UNCHANGED vars
    BY <2>10 DEF vars
  <2>11. QED
    BY <2>1, <2>2, <2>3, <2>4, <2>5, <2>6, <2>7, <2>8, <2>9, <2>10 DEF Next
<1>3. QED
  BY <1>1, <1>2, PTL DEF Spec

\* What belongs to the line of a class: its implementation, its ancestors',
\* and hooks on either.
InLine(imp, c) == /\ imp \in Class => imp \in Above[c]
                  /\ imp \in Hook => HookOn[imp] \in Above[c]

LEMMA LineGrows ==
  ASSUME NEW c \in Class, NEW a \in Above[c], NEW imp, InLine(imp, a)
  PROVE  InLine(imp, c)
BY ClassAssumption DEF InLine

\* A class that has the method finds its own.
LEMMA OwnFound ==
  ASSUME NEW c \in Class, NEW a \in Class, Finds(c, a), method[c] # None
  PROVE  a = c
BY ClassAssumption DEF Finds

\* The handle is in the line, and is the class's own slot once it matters.
Aimed == \A h \in Hook :
  /\ pc[h] \in {"check", "copy"} => slot[h] \in Above[HookOn[h]]
  /\ pc[h] = "check" /\ method[HookOn[h]] # None => slot[h] = HookOn[h]
  /\ pc[h] = "again" => method[HookOn[h]] # None
  /\ pc[h] = "swap" => slot[h] = HookOn[h]

\* A hook that is not installed is nowhere yet.
Fresh == \A h \in Hook : pc[h] # "done" =>
  /\ \A c \in Class : method[c] # h
  /\ \A g \in Hook : pc[g] = "add" => copied[g] # h

\* Copies and lists keep to the line.
Line == /\ \A c \in Class : method[c] # None => InLine(method[c], c)
        /\ \A h \in Hook : pc[h] = "add" => InLine(copied[h], HookOn[h])

Front == \A h \in Hook : pc[h] = "done" => method[HookOn[h]] = h

Inv == Aimed /\ Fresh /\ Line /\ Front /\ OriginalInLine

LEMMA InvInit == Init => Inv
BY Names, ClassAssumption
   DEF Init, Inv, Aimed, Fresh, Line, Front, OriginalInLine, InLine

\* Lookups and the listing change no method.
LEMMA LookStep ==
  ASSUME ObjcTypeOK, Inv, NEW h \in Hook, Lookup(h) \/ Check(h) \/ Again(h)
  PROVE  Inv'
<1>1. UNCHANGED <<method, copied, original>>
  BY DEF Lookup, Check, Again
<1>2. pc' = [pc EXCEPT ![h] = pc'[h]] /\ pc[h] \notin {"add", "done"}
                                     /\ pc'[h] \notin {"add", "done"}
  BY DEF Lookup, Check, Again, Goto, ObjcTypeOK
<1>3. Aimed'
  <2>1. CASE Lookup(h)
    BY <1>1, <2>1, OwnFound, Names DEF Lookup, Goto, Finds, ObjcTypeOK, Inv, Aimed
  <2>2. CASE Check(h)
    BY <1>1, <2>2 DEF Check, Goto, ObjcTypeOK, Inv, Aimed
  <2>3. CASE Again(h)
    BY <1>1, <2>3, OwnFound, Names DEF Again, Goto, ObjcTypeOK, Inv, Aimed
  <2>4. QED
    BY <2>1, <2>2, <2>3
<1>4. Fresh' /\ Line' /\ Front' /\ OriginalInLine'
  BY <1>1, <1>2 DEF ObjcTypeOK, Inv, Fresh, Line, Front, OriginalInLine, InLine
<1>5. QED
  BY <1>3, <1>4 DEF Inv

\* Names of classes and selectors are looked up before anything is read.
LEMMA NameStep ==
  ASSUME ObjcTypeOK, Inv, NEW h \in Hook, FindClass(h) \/ TakeSelector(h) \/ Retry(h)
  PROVE  Inv'
<1>1. UNCHANGED <<method, slot, copied, original>>
  BY DEF FindClass, TakeSelector, Retry
<1>2. /\ pc' = [pc EXCEPT ![h] = pc'[h]]
      /\ pc[h] # "done"
      /\ pc'[h] \in {"class", "selector", "lookup", "absent", "refused"}
  BY DEF FindClass, TakeSelector, Retry, Goto, ObjcTypeOK
<1>3. QED
  BY <1>1, <1>2
  DEF ObjcTypeOK, Inv, Aimed, Fresh, Line, Front, OriginalInLine, InLine

LEMMA CopyStep ==
  ASSUME ObjcTypeOK, Inv, NEW h \in Hook, Copy(h)
  PROVE  Inv'
<1>1. InLine(method[slot[h]], HookOn[h])
  BY Names, LineGrows DEF Copy, ObjcTypeOK, Handles, Inv, Aimed, Line
<1>2. \A g \in Hook : pc[g] # "done" => method[slot[h]] # g
  BY DEF Copy, ObjcTypeOK, Handles, Inv, Fresh
<1>3. QED
  BY <1>1, <1>2
  DEF Copy, Goto, ObjcTypeOK, Inv, Aimed, Fresh, Line, Front, OriginalInLine, InLine

LEMMA AddStep ==
  ASSUME Apart, ObjcTypeOK, Inv, NEW h \in Hook, Add(h)
  PROVE  Inv'
<1>1. \A g \in Hook \ {h} : HookOn[g] # HookOn[h]
  BY DEF Apart
<1>2. copied[h] # None /\ InLine(copied[h], HookOn[h])
  BY DEF Add, ObjcTypeOK, Handles, Inv, Line
<1>3. Aimed' /\ Front'
  BY <1>1, <1>2, Names DEF Add, Goto, ObjcTypeOK, Inv, Aimed, Front
<1>4. Fresh'
  BY Names DEF Add, Goto, ObjcTypeOK, Inv, Fresh
<1>5. Line' /\ OriginalInLine'
  BY <1>2, Names DEF Add, Goto, ObjcTypeOK, Inv, Line, OriginalInLine, InLine
<1>6. QED
  BY <1>3, <1>4, <1>5 DEF Inv

LEMMA SwapStep ==
  ASSUME Apart, ObjcTypeOK, Inv, NEW h \in Hook, Swap(h)
  PROVE  Inv'
<1>1. \A g \in Hook \ {h} : HookOn[g] # HookOn[h]
  BY DEF Apart
<1>2. slot[h] = HookOn[h] /\ InLine(method[HookOn[h]], HookOn[h])
                         /\ method[HookOn[h]] # h
  BY Names DEF Swap, ObjcTypeOK, Handles, Inv, Aimed, Line, Fresh
<1>3. InLine(h, HookOn[h])
  BY Names, ClassAssumption DEF InLine
<1>4. Aimed' /\ Front'
  BY <1>1, <1>2, Names DEF Swap, Goto, ObjcTypeOK, Inv, Aimed, Front
<1>5. Fresh'
  BY <1>2, Names DEF Swap, Goto, ObjcTypeOK, Inv, Fresh
<1>6. Line'
  BY <1>2, <1>3, Names DEF Swap, Goto, ObjcTypeOK, Inv, Line, InLine
<1>7. OriginalInLine'
  BY <1>1, <1>2, Names DEF Swap, ObjcTypeOK, Inv, OriginalInLine, InLine
<1>8. QED
  BY <1>4, <1>5, <1>6, <1>7 DEF Inv

LEMMA DefineStep ==
  ASSUME Apart, ObjcTypeOK, Inv, NEW c \in Class, Define(c)
  PROVE  Inv'
<1>1. \A h \in Hook : HookOn[h] # c
  BY DEF Apart, Define
<1>2. InLine(c, c)
  BY Names, ClassAssumption DEF InLine
<1>3. QED
  BY <1>1, <1>2, Names
  DEF Define, ObjcTypeOK, Inv, Aimed, Fresh, Line, Front, OriginalInLine, InLine

LEMMA ObjcInvariant == ASSUME Apart PROVE Spec => []Inv
<1>1. ObjcTypeOK /\ Inv /\ [Next]_vars => Inv'
  <2> SUFFICES ASSUME ObjcTypeOK, Inv, [Next]_vars PROVE Inv'
    OBVIOUS
  <2>1. CASE UNCHANGED vars
    BY <2>1 DEF vars, Inv, Aimed, Fresh, Line, Front, OriginalInLine, InLine
  <2>2. ASSUME NEW c \in Named, Register(c) PROVE Inv'
    BY <2>2 DEF Register, Inv, Aimed, Fresh, Line, Front, OriginalInLine, InLine
  <2>3. QED
    BY <2>1, <2>2, NameStep, LookStep, CopyStep, AddStep, SwapStep, DefineStep DEF Next
<1>2. QED
  BY <1>1, InvInit, ObjcTypes, PTL DEF Spec

\* Whatever is installed at the same time, a class runs a hook only if it is
\* the class's or an ancestor's (imp/objc/mod.rs resolve_method).
THEOREM ScopedTheorem == ASSUME Apart PROVE Spec => []Scoped
<1>1. Inv => Scoped
  BY Names DEF Inv, Line, InLine, Scoped
<1>2. QED
  BY <1>1, ObjcInvariant, PTL

\* A hook that is installed is what its class runs, now and later.
THEOREM HookInFrontTheorem == ASSUME Apart PROVE Spec => []HookInFront
<1>1. Inv => HookInFront
  BY Names, ClassAssumption DEF Inv, Front, HookInFront, Finds
<1>2. QED
  BY <1>1, ObjcInvariant, PTL

\* Forwards climb the hierarchy and end in the class's own line.
THEOREM OriginalInLineTheorem == ASSUME Apart PROVE Spec => []OriginalInLine
<1>1. Inv => OriginalInLine
  BY DEF Inv
<1>2. QED
  BY <1>1, ObjcInvariant, PTL
=============================================================================
