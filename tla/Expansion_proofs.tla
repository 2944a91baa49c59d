-------------------------- MODULE Expansion_proofs --------------------------
(***************************************************************************)
(* Proofs about HookArgs and Expansion, for any items: the parsers accept  *)
(* the lists that can be read and fill in what those say, a marker says    *)
(* what the attribute it replaces said, exactly the acceptable items are   *)
(* expanded, what is generated is what is declared, and no argument of it  *)
(* is lost.                                                                *)
(***************************************************************************)
EXTENDS Expansion, TLAPS, WellFoundedInduction

------------------------------------------------------------------------------
(* Numbers, and the parsers of HookArgs.                                     *)

\* A set of numbers that is not empty has a least one.
LEMMA LeastNumber ==
  ASSUME NEW S \in SUBSET Nat, S # {}
  PROVE  \E m \in S : \A k \in S : m <= k
<1> DEFINE R == {ss \in Nat \X Nat : ss[1] < ss[2]}
<1>1. IsWellFoundedOn(R, Nat)
  BY NatLessThanWellFounded DEF OpToRel
<1>2. PICK x \in S : \A y \in S : ~(<<y, x>> \in R)
  <2> HIDE DEF R
  <2> QED BY <1>1, WFMin
<1>3. \A y \in S : ~(y < x)
  BY <1>2
<1>4. QED
  BY <1>3

\* Two functions that start alike and go on alike are alike: induction over
\* numbers, from the least number at which they would differ.
LEMMA Counting ==
  ASSUME NEW N \in Nat, NEW f, NEW g, f[0] = g[0],
         \A n \in 1 .. N : f[n - 1] = g[n - 1] => f[n] = g[n]
  PROVE  f[N] = g[N]
<1> DEFINE S == {n \in 0 .. N : f[n] # g[n]}
<1>1. SUFFICES ASSUME S # {} PROVE FALSE
  OBVIOUS
<1>2. PICK m \in S : \A k \in S : m <= k
  <2>1. S \in SUBSET Nat
    OBVIOUS
  <2> HIDE DEF S
  <2>2. QED
    BY <1>1, <2>1, LeastNumber
<1>3. m \in 1 .. N /\ m - 1 \in 0 .. N /\ m - 1 \notin S
  BY <1>2
<1>4. QED
  BY <1>2, <1>3

\* Readable, Says and what a parser has, for the first n entries.
ReadableTo(grammar, entries, n) ==
  /\ \A i \in 1 .. n : Reads(grammar, entries[i]) # "refused"
  /\ \A i, j \in 1 .. n :
       entries[i].name # Positional /\ entries[j].name = Positional => j < i
  /\ \A i, j \in 1 .. n :
       i < j /\ Reads(grammar, entries[i]) = Reads(grammar, entries[j])
         => /\ grammar = "com"
            /\ entries[i].name \in {"imports", "resolve_images"}
            /\ entries[i].value.parts = <<>>

LastTo(grammar, entries, n, name) ==
  CHOOSE i \in 1 .. n : /\ Reads(grammar, entries[i]) = name
                        /\ \A j \in 1 .. n : Reads(grammar, entries[j]) = name => j <= i

NamesTo(grammar, entries, n) == {Reads(grammar, entries[i]) : i \in 1 .. n}

SaysTo(grammar, entries, n) ==
  [name \in NamesTo(grammar, entries, n) |-> entries[LastTo(grammar, entries, n, name)].value]

After(grammar, entries, n) ==
  [ok |-> TRUE,
   named |-> grammar \in {"c", "observe"} /\ \E i \in 1 .. n : entries[i].name # Positional,
   slots |-> SaysTo(grammar, entries, n)]

\* One entry more says one thing more, or something else in its slot.
LEMMA SaysNext ==
  ASSUME NEW grammar, NEW entries, NEW n \in Nat \ {0}
  PROVE  SaysTo(grammar, entries, n) =
           With(SaysTo(grammar, entries, n - 1), Reads(grammar, entries[n]), entries[n].value)
<1> DEFINE slot == Reads(grammar, entries[n])
           before == SaysTo(grammar, entries, n - 1)
<1>1. NamesTo(grammar, entries, n) = DOMAIN before \cup {slot}
  <2>1. 1 .. n = 1 .. (n - 1) \cup {n}
    OBVIOUS
  <2>2. QED
    BY <2>1 DEF NamesTo, SaysTo
<1>2. LastTo(grammar, entries, n, slot) = n
  <2>1. /\ n \in 1 .. n
        /\ \A j \in 1 .. n : j <= n
    OBVIOUS
  <2>2. \A i \in 1 .. n : n <= i => i = n
    OBVIOUS
  <2>3. QED
    BY <2>1, <2>2 DEF LastTo
<1>3. ASSUME NEW name \in DOMAIN before, name # slot
      PROVE  LastTo(grammar, entries, n, name) = LastTo(grammar, entries, n - 1, name)
  <2>1. \A i : i \in 1 .. n /\ Reads(grammar, entries[i]) = name
               <=> i \in 1 .. (n - 1) /\ Reads(grammar, entries[i]) = name
    BY <1>3
  <2>2. \A i : (/\ i \in 1 .. n
                /\ Reads(grammar, entries[i]) = name
                /\ \A j \in 1 .. n : Reads(grammar, entries[j]) = name => j <= i)
               <=> (/\ i \in 1 .. (n - 1)
                    /\ Reads(grammar, entries[i]) = name
                    /\ \A j \in 1 .. (n - 1) : Reads(grammar, entries[j]) = name => j <= i)
    BY <2>1
  <2>3. QED
    BY <2>2 DEF LastTo
<1>4. QED
  BY <1>1, <1>2, <1>3 DEF SaysTo, With

\* A slot that is named has a last entry that names it.
LEMMA LastProps ==
  ASSUME NEW grammar, NEW entries, NEW n \in Nat, NEW name \in NamesTo(grammar, entries, n)
  PROVE  LET m == LastTo(grammar, entries, n, name)
         IN  /\ m \in 1 .. n
             /\ Reads(grammar, entries[m]) = name
             /\ \A j \in 1 .. n : Reads(grammar, entries[j]) = name => j <= m
<1> DEFINE S == {n - i : i \in {j \in 1 .. n : Reads(grammar, entries[j]) = name}}
<1>1. S # {} /\ S \in SUBSET Nat
  BY DEF NamesTo
<1>2. PICK least \in S : \A k \in S : least <= k
  BY <1>1, LeastNumber
<1>3. PICK m \in 1 .. n : Reads(grammar, entries[m]) = name /\ least = n - m
  BY <1>2
<1>4. \A j \in 1 .. n : Reads(grammar, entries[j]) = name => j <= m
  <2> TAKE j \in 1 .. n
  <2> HAVE Reads(grammar, entries[j]) = name
  <2>1. n - m <= n - j
    BY <1>2, <1>3
  <2> QED
    BY <2>1
<1>5. QED
  BY <1>3, <1>4 DEF LastTo

\* When a list that is one entry longer can be read.
LEMMA ReadableNext ==
  ASSUME NEW grammar, NEW entries, NEW n \in Nat \ {0}
  PROVE  ReadableTo(grammar, entries, n) <=>
           /\ ReadableTo(grammar, entries, n - 1)
           /\ Reads(grammar, entries[n]) # "refused"
           /\ entries[n].name = Positional => \A i \in 1 .. (n - 1) : entries[i].name = Positional
           /\ \A i \in 1 .. (n - 1) :
                Reads(grammar, entries[i]) = Reads(grammar, entries[n])
                  => /\ grammar = "com"
                     /\ entries[i].name \in {"imports", "resolve_images"}
                     /\ entries[i].value.parts = <<>>
<1>1. 1 .. n = 1 .. (n - 1) \cup {n} /\ \A i \in 1 .. (n - 1) : i < n
  OBVIOUS
<1>2. QED
  BY <1>1 DEF ReadableTo

\* What the steps of a parser do, as records.
LEMMA PutOne ==
  ASSUME NEW acc, acc.ok = TRUE, NEW name, NEW value
  PROVE  /\ name \in DOMAIN acc.slots => Put(acc, name, value).ok = FALSE
         /\ name \notin DOMAIN acc.slots => Put(acc, name, value) = Fill(acc, name, value)
         /\ Fill(acc, name, value) =
              [ok |-> TRUE, named |-> acc.named, slots |-> With(acc.slots, name, value)]
         /\ Refuse(acc).ok = FALSE
         /\ Named(acc) = [ok |-> TRUE, named |-> TRUE, slots |-> acc.slots]
<1>1. Refuse(acc).ok = FALSE
  BY DEF Refuse
<1>2. Fill(acc, name, value) =
        [ok |-> TRUE, named |-> acc.named, slots |-> With(acc.slots, name, value)]
  BY DEF Fill
<1>3. Named(acc) = [ok |-> TRUE, named |-> TRUE, slots |-> acc.slots]
  BY DEF Named
<1>4. QED
  BY <1>1, <1>2, <1>3 DEF Put, Given

\* A parser that takes one more entry has what the longer list says, and it
\* refuses the entry if and only if that list cannot be read.
LEMMA TakeOne ==
  ASSUME NEW grammar \in Grammar, NEW entries, NEW n \in Nat \ {0},
         ReadableTo(grammar, entries, n - 1)
  PROVE  LET taken == Take(grammar, After(grammar, entries, n - 1), entries[n])
         IN  IF ReadableTo(grammar, entries, n) THEN taken = After(grammar, entries, n)
             ELSE taken.ok = FALSE
<1> DEFINE e == entries[n]
           slot == Reads(grammar, e)
           acc == After(grammar, entries, n - 1)
           slots == SaysTo(grammar, entries, n - 1)
           taken == Take(grammar, acc, e)
           filled == With(slots, slot, e.value)
           seen == grammar \in {"c", "observe"} /\ (acc.named \/ e.name # Positional)
           result == [ok |-> TRUE, named |-> seen, slots |-> filled]
<1>1. /\ acc.ok = TRUE /\ acc.named \in BOOLEAN
      /\ acc = [ok |-> TRUE, named |-> acc.named, slots |-> slots]
      /\ slots = acc.slots
  BY DEF After
<1>2. DOMAIN slots = NamesTo(grammar, entries, n - 1)
  BY <1>1 DEF SaysTo
<1>3. After(grammar, entries, n) = result
  <2>1. 1 .. n = 1 .. (n - 1) \cup {n}
    OBVIOUS
  <2>2. (grammar \in {"c", "observe"} /\ \E i \in 1 .. n : entries[i].name # Positional) = seen
    BY <2>1 DEF After
  <2>3. SaysTo(grammar, entries, n) = filled
    BY SaysNext
  <2>4. QED
    BY <1>1, <2>2, <2>3 DEF After
<1>4. acc.named <=> /\ grammar \in {"c", "observe"}
                    /\ \E i \in 1 .. (n - 1) : entries[i].name # Positional
  BY DEF After
\* The slot is taken by an entry that is not an empty list.
<1> DEFINE full == \E i \in 1 .. (n - 1) :
                     /\ Reads(grammar, entries[i]) = slot
                     /\ ~ (/\ grammar = "com"
                           /\ entries[i].name \in {"imports", "resolve_images"}
                           /\ entries[i].value.parts = <<>>)
           early == e.name = Positional /\ \E i \in 1 .. (n - 1) : entries[i].name # Positional
<1>5. ReadableTo(grammar, entries, n) <=> slot # "refused" /\ ~early /\ ~full
  <2>1. ~early <=> (e.name = Positional => \A i \in 1 .. (n - 1) : entries[i].name = Positional)
    OBVIOUS
  <2>2. ~full <=> \A i \in 1 .. (n - 1) :
                   Reads(grammar, entries[i]) = slot
                     => /\ grammar = "com"
                        /\ entries[i].name \in {"imports", "resolve_images"}
                        /\ entries[i].value.parts = <<>>
    OBVIOUS
  <2> HIDE DEF early, full
  <2>3. QED
    BY <2>1, <2>2, ReadableNext
<1>6. ASSUME grammar # "com" PROVE full <=> slot \in DOMAIN slots
  BY <1>2, <1>6 DEF NamesTo
<1>7. ASSUME grammar = "com", slot # "refused" PROVE
        full <=> /\ slot \in DOMAIN slots
                 /\ slot \in {"imports", "resolve_images"} => slots[slot].parts # <<>>
  <2> DEFINE last == LastTo(grammar, entries, n - 1, slot)
  <2>1. \A i \in 1 .. (n - 1) : Reads(grammar, entries[i]) = slot => entries[i].name = slot
    BY <1>7 DEF Reads, ReadsNested, TableOf
  <2>2. ASSUME slot \in DOMAIN slots
        PROVE  /\ last \in 1 .. (n - 1)
               /\ Reads(grammar, entries[last]) = slot
               /\ \A j \in 1 .. (n - 1) : Reads(grammar, entries[j]) = slot => j <= last
               /\ slots[slot] = entries[last].value
    <3>1. slot \in NamesTo(grammar, entries, n - 1) /\ n - 1 \in Nat
      BY <1>2, <2>2
    <3>2. slots[slot] = entries[last].value
      BY <1>1, <3>1 DEF SaysTo
    <3> HIDE DEF slot
    <3>3. QED
      BY <3>1, <3>2, LastProps
  <2>3. ASSUME full PROVE slot \in DOMAIN slots
    BY <1>2, <2>3 DEF NamesTo
  <2>4. ASSUME full, slot \in {"imports", "resolve_images"} PROVE slots[slot].parts # <<>>
    <3>1. PICK i \in 1 .. (n - 1) : /\ Reads(grammar, entries[i]) = slot
                                    /\ entries[i].value.parts # <<>>
      BY <1>7, <2>1, <2>4
    <3>2. i <= last
      BY <2>2, <2>3, <2>4, <3>1
    <3>3. i < last => entries[i].value.parts = <<>>
      BY <2>2, <2>3, <2>4, <3>1 DEF ReadableTo
    <3>4. i = last
      BY <2>2, <2>3, <2>4, <3>1, <3>2, <3>3
    <3>5. QED
      BY <2>2, <2>3, <2>4, <3>1, <3>4
  <2>5. ASSUME slot \in DOMAIN slots, slot \in {"imports", "resolve_images"} => slots[slot].parts # <<>>
        PROVE  full
    BY <2>1, <2>2, <2>5
  <2>6. QED
    BY <2>3, <2>4, <2>5
<1> HIDE DEF full
<1> SUFFICES IF slot # "refused" /\ ~early /\ ~full THEN taken = result ELSE taken.ok = FALSE
  BY <1>3, <1>5
<1>12. early <=> \/ e.name = Positional /\ acc.named
                 \/ e.name = Positional /\ grammar \notin {"c", "observe"} /\ early
  BY <1>4
<1> HIDE DEF acc, slots, slot, e, early, taken
<1>13. /\ \A name, value : /\ name \in DOMAIN slots => Put(acc, name, value).ok = FALSE
                           /\ name \notin DOMAIN slots => Put(acc, name, value) = Fill(acc, name, value)
       /\ Fill(acc, slot, e.value) = [ok |-> TRUE, named |-> acc.named, slots |-> filled]
       /\ Refuse(acc).ok = FALSE
  <2>1. acc.ok = TRUE /\ acc.slots = slots
    BY <1>1
  <2>2. ASSUME NEW name, NEW value
        PROVE  /\ name \in DOMAIN slots => Put(acc, name, value).ok = FALSE
               /\ name \notin DOMAIN slots => Put(acc, name, value) = Fill(acc, name, value)
    BY <2>1 DEF Put, Given, Refuse
  <2>3. Fill(acc, slot, e.value) = [ok |-> TRUE, named |-> acc.named, slots |-> filled]
    BY <2>1 DEF Fill
  <2>4. Refuse(acc).ok = FALSE
    BY DEF Refuse
  <2>5. QED
    BY <2>2, <2>3, <2>4
<1> DEFINE marked == Named(acc)
<1>14. /\ \A name, value : /\ name \in DOMAIN slots => Put(marked, name, value).ok = FALSE
                           /\ name \notin DOMAIN slots => Put(marked, name, value) = Fill(marked, name, value)
       /\ Fill(marked, slot, e.value) = [ok |-> TRUE, named |-> TRUE, slots |-> filled]
  <2>1. marked.ok = TRUE /\ marked.named = TRUE /\ marked.slots = slots
    BY <1>1 DEF Named
  <2> HIDE DEF marked
  <2>2. ASSUME NEW name, NEW value
        PROVE  /\ name \in DOMAIN slots => Put(marked, name, value).ok = FALSE
               /\ name \notin DOMAIN slots => Put(marked, name, value) = Fill(marked, name, value)
    BY <2>1 DEF Put, Given, Refuse
  <2>3. Fill(marked, slot, e.value) = [ok |-> TRUE, named |-> TRUE, slots |-> filled]
    BY <2>1 DEF Fill
  <2>4. QED
    BY <2>2, <2>3
<1> HIDE DEF filled
<1>8. CASE grammar = "c"
  <2>1. taken = TakeHookArg(acc, e)
    BY <1>8 DEF Take, taken
  <2>2. slot = ReadsHook(e)
    BY <1>8 DEF Reads, slot
  <2>3. CASE e.name # Positional
    <3>1. taken = TakeNamedHookArg(acc, e) /\ ~early /\ seen = TRUE
      BY <1>8, <1>12, <2>1, <2>3 DEF TakeHookArg
    <3>2. CASE slot # "refused"
      <4>1. taken = Put(marked, slot, e.value)
        BY <2>2, <2>3, <3>1, <3>2 DEF TakeNamedHookArg, ReadsHook
      <4>2. QED
        BY <1>6, <1>8, <1>14, <3>1, <3>2, <4>1
    <3>3. CASE slot = "refused"
      <4>1. taken = Refuse(acc)
        BY <2>2, <2>3, <3>1, <3>3 DEF TakeNamedHookArg, ReadsHook, HookSlot
      <4>2. QED
        BY <1>13, <3>3, <4>1
    <3>4. QED
      BY <3>2, <3>3
  <2>4. CASE e.name = Positional
    <3>1. slot = "function" /\ seen = acc.named /\ (early <=> acc.named)
      BY <1>1, <1>8, <1>12, <2>2, <2>4 DEF ReadsHook
    <3>2. taken = IF acc.named THEN Refuse(acc) ELSE Put(acc, slot, e.value)
      BY <2>1, <2>4, <3>1 DEF TakeHookArg
    <3>3. QED
      BY <1>6, <1>8, <1>13, <3>1, <3>2
  <2>5. QED
    BY <2>3, <2>4
<1>9. CASE grammar = "observe"
  <2>1. taken = TakeObserveArg(acc, e)
    BY <1>9 DEF Take, taken
  <2>2. slot = ReadsObserve(e)
    BY <1>9 DEF Reads, slot
  <2>3. CASE e.name # Positional
    <3>1. taken = TakeNamedObserveArg(acc, e) /\ ~early /\ seen = TRUE
      BY <1>9, <1>12, <2>1, <2>3 DEF TakeObserveArg
    <3>2. CASE slot # "refused"
      <4>1. taken = Put(marked, slot, e.value)
        BY <2>2, <2>3, <3>1, <3>2 DEF TakeNamedObserveArg, ReadsObserve
      <4>2. QED
        BY <1>6, <1>9, <1>14, <3>1, <3>2, <4>1
    <3>3. CASE slot = "refused"
      <4>1. taken = Refuse(acc)
        BY <2>2, <2>3, <3>1, <3>3 DEF TakeNamedObserveArg, ReadsObserve
      <4>2. QED
        BY <1>13, <3>3, <4>1
    <3>4. QED
      BY <3>2, <3>3
  <2>4. CASE e.name = Positional
    <3>1. /\ slot = IF IsMode(e.value) THEN "mode" ELSE "value"
          /\ seen = acc.named /\ (early <=> acc.named)
      BY <1>1, <1>9, <1>12, <2>2, <2>4 DEF ReadsObserve
    <3>2. slot # "refused"
      BY <3>1
    <3>3. taken = IF acc.named THEN Refuse(acc) ELSE Put(acc, slot, e.value)
      BY <2>1, <2>4, <3>1 DEF TakeObserveArg
    <3>4. QED
      BY <1>6, <1>9, <1>13, <3>1, <3>2, <3>3
  <2>5. QED
    BY <2>3, <2>4
<1>10. CASE grammar \notin {"c", "observe"}
  <2> DEFINE table == TableOf(grammar)
  <2>1. taken = TakeNestedArg(table, acc, e)
    BY <1>10 DEF Take, taken
  <2>2. slot = ReadsNested(table, e)
    BY <1>10 DEF Reads, slot
  <2>3. Positional \notin DOMAIN table /\ "refused" \notin DOMAIN table
    BY <1>10 DEF Grammar, TableOf, HookObjcArgs, HookComArgs, HookObjcImplArgs, HookComImplArgs,
                 HookObserverArgs, Positional
  <2>4. \A name \in DOMAIN table :
          table[name] = AnArray <=> grammar = "com" /\ name \in {"imports", "resolve_images"}
    BY <1>10 DEF Grammar, TableOf, HookObjcArgs, HookComArgs, HookObjcImplArgs, HookComImplArgs,
                 HookObserverArgs, AnArray, AnIdent, AType, APath, Expr
  <2>5. seen = FALSE /\ acc.named = FALSE
    BY <1>1, <1>4, <1>10
  <2> HIDE DEF table
  <2>6. CASE slot = "refused"
    <3>1. taken = Refuse(acc)
      BY <2>1, <2>2, <2>3, <2>6 DEF TakeNestedArg, ReadsNested
    <3>2. QED
      BY <1>13, <2>6, <3>1
  <2>7. CASE slot # "refused"
    <3>1. e.name = slot /\ slot \in DOMAIN table /\ e.value.is \in table[slot] /\ ~early
      BY <2>2, <2>3, <2>7 DEF ReadsNested, early
    <3>2. CASE table[slot] = AnArray
      <4>1. full <=> slot \in DOMAIN slots /\ slots[slot].parts # <<>>
        BY <1>7, <2>4, <2>7, <3>1, <3>2
      <4>2. taken = IF slot \in DOMAIN slots /\ slots[slot].parts # <<>> THEN Refuse(acc)
                    ELSE Fill(acc, slot, e.value)
        BY <1>1, <2>1, <3>1, <3>2 DEF TakeNestedArg, TakeArray, Given
      <4>3. QED
        BY <1>13, <2>5, <2>7, <3>1, <4>1, <4>2
    <3>3. CASE table[slot] # AnArray
      <4>1. full <=> slot \in DOMAIN slots
        BY <1>6, <1>7, <2>4, <2>7, <3>1, <3>3
      <4>2. taken = Put(acc, slot, e.value)
        BY <2>1, <3>1, <3>3 DEF TakeNestedArg
      <4>3. QED
        BY <1>13, <2>5, <2>7, <3>1, <4>1, <4>2
    <3>4. QED
      BY <3>2, <3>3
  <2>8. QED
    BY <2>6, <2>7
<1>11. QED
  BY <1>8, <1>9, <1>10

\* What a parser has after n entries, in closed form: after the first entry
\* it refuses, nothing changes.
Stop(grammar, entries) ==
  CHOOSE m \in 1 .. Len(entries) :
    /\ ~ReadableTo(grammar, entries, m)
    /\ \A k \in 1 .. Len(entries) : ~ReadableTo(grammar, entries, k) => m <= k

StateAt(grammar, entries, n) ==
  IF ReadableTo(grammar, entries, n) THEN After(grammar, entries, n)
  ELSE LET m == Stop(grammar, entries)
       IN  Take(grammar, After(grammar, entries, m - 1), entries[m])

\* A list that can be read can be read up to any of its entries.
LEMMA ReadablePrefix ==
  ASSUME NEW grammar, NEW entries, NEW n \in Nat, NEW m \in 0 .. n, ReadableTo(grammar, entries, n)
  PROVE  ReadableTo(grammar, entries, m)
<1>1. \A i \in 1 .. m : i \in 1 .. n
  OBVIOUS
<1>2. QED
  BY <1>1 DEF ReadableTo

\* A parser stops at the first entry up to which the list cannot be read.
LEMMA StopProps ==
  ASSUME NEW grammar, NEW entries, Len(entries) \in Nat,
         NEW n \in 0 .. Len(entries), ~ReadableTo(grammar, entries, n)
  PROVE  LET m == Stop(grammar, entries)
         IN  /\ m \in 1 .. n
             /\ ~ReadableTo(grammar, entries, m)
             /\ ReadableTo(grammar, entries, m - 1)
<1> DEFINE S == {k \in 1 .. Len(entries) : ~ReadableTo(grammar, entries, k)}
           m == Stop(grammar, entries)
<1>1. ReadableTo(grammar, entries, 0)
  BY DEF ReadableTo
<1>2. n \in S /\ S \in SUBSET Nat
  BY <1>1
<1>3. \E k \in S : \A l \in S : k <= l
  <2> HIDE DEF S
  <2>1. QED
    BY <1>2, LeastNumber
<1>4. m \in S /\ \A l \in S : m <= l
  BY <1>3 DEF Stop
<1>5. m - 1 \in S \/ m - 1 = 0 \/ ReadableTo(grammar, entries, m - 1)
  BY <1>4
<1>6. QED
  BY <1>1, <1>2, <1>4, <1>5

\* The closed form obeys the parser's recursion.
LEMMA StateNext ==
  ASSUME NEW grammar \in Grammar, NEW entries, Len(entries) \in Nat, NEW n \in 1 .. Len(entries)
  PROVE  StateAt(grammar, entries, n) =
           IF StateAt(grammar, entries, n - 1).ok
           THEN Take(grammar, StateAt(grammar, entries, n - 1), entries[n])
           ELSE StateAt(grammar, entries, n - 1)
<1> DEFINE m == Stop(grammar, entries)
<1>1. CASE ReadableTo(grammar, entries, n - 1)
  <2>1. StateAt(grammar, entries, n - 1) = After(grammar, entries, n - 1)
    BY <1>1 DEF StateAt
  <2>2. StateAt(grammar, entries, n - 1).ok = TRUE
    BY <2>1 DEF After
  <2>3. n \in Nat \ {0}
    OBVIOUS
  <2>4. CASE ReadableTo(grammar, entries, n)
    <3>1. Take(grammar, After(grammar, entries, n - 1), entries[n]) = After(grammar, entries, n)
      BY <1>1, <2>3, <2>4, TakeOne
    <3>2. QED
      BY <2>1, <2>2, <2>4, <3>1 DEF StateAt
  <2>5. CASE ~ReadableTo(grammar, entries, n)
    <3>1. m \in 1 .. n /\ ~ReadableTo(grammar, entries, m)
      BY <2>5, StopProps
    <3>2. m = n
      <4>1. m \in 0 .. (n - 1) => ReadableTo(grammar, entries, m)
        BY <1>1, ReadablePrefix
      <4>2. QED
        BY <3>1, <4>1
    <3>3. QED
      BY <2>1, <2>2, <2>5, <3>2 DEF StateAt
  <2>6. QED
    BY <2>4, <2>5
<1>2. CASE ~ReadableTo(grammar, entries, n - 1)
  <2>1. ~ReadableTo(grammar, entries, n)
    BY <1>2, ReadablePrefix
  <2>2. StateAt(grammar, entries, n) = StateAt(grammar, entries, n - 1)
    BY <1>2, <2>1 DEF StateAt
  <2>3. m \in 1 .. n /\ ~ReadableTo(grammar, entries, m) /\ ReadableTo(grammar, entries, m - 1)
    BY <2>1, StopProps
  <2>4. Take(grammar, After(grammar, entries, m - 1), entries[m]).ok = FALSE
    <3>1. m \in Nat \ {0}
      BY <2>3
    <3> HIDE DEF m
    <3>2. QED
      BY <2>3, <3>1, TakeOne
  <2>5. StateAt(grammar, entries, n - 1).ok = FALSE
    BY <1>2, <2>4 DEF StateAt
  <2>6. QED
    BY <2>2, <2>5
<1>3. QED
  BY <1>1, <1>2

\* A parser accepts the lists that can be read, and fills in what they say.
THEOREM ParserExact ==
  ASSUME NEW grammar \in Grammar, NEW entries, IsList(entries)
  PROVE  /\ Parse(grammar, entries).ok <=> Readable(grammar, entries)
         /\ Readable(grammar, entries)
              => Parse(grammar, entries).slots = Says(grammar, entries)
<1> DEFINE N == Len(entries)
           F(g) == [n \in 0 .. N |->
                      IF n = 0 THEN Empty
                      ELSE IF g[n - 1].ok THEN Take(grammar, g[n - 1], entries[n]) ELSE g[n - 1]]
           state == [n \in 0 .. N |-> StateAt(grammar, entries, n)]
           read == CHOOSE g : g = F(g)
<1>1. N \in Nat /\ DOMAIN entries = 1 .. N
  BY DEF IsList
<1>2. Parse(grammar, entries) = read[N]
  BY DEF Parse
<1>3. StateAt(grammar, entries, 0) = Empty
  <2>1. 1 .. 0 = {}
    OBVIOUS
  <2>2. ReadableTo(grammar, entries, 0)
    BY <2>1 DEF ReadableTo
  <2>3. SaysTo(grammar, entries, 0) = NoSlots
    BY <2>1 DEF SaysTo, NamesTo, NoSlots
  <2>4. QED
    BY <2>1, <2>2, <2>3 DEF StateAt, After, Empty
<1>4. state = F(state)
  <2>1. \A n \in 0 .. N : n # 0 =>
          StateAt(grammar, entries, n) =
            IF StateAt(grammar, entries, n - 1).ok
            THEN Take(grammar, StateAt(grammar, entries, n - 1), entries[n])
            ELSE StateAt(grammar, entries, n - 1)
    BY <1>1, StateNext
  <2>2. QED
    BY <1>1, <1>3, <2>1
<1>5. read = F(read)
  <2> HIDE DEF F, state
  <2>1. QED
    BY <1>4
<1>6. read[N] = state[N]
  <2>1. ASSUME NEW g, g = F(g)
        PROVE  /\ g[0] = Empty
               /\ \A n \in 1 .. N :
                    g[n] = IF g[n - 1].ok THEN Take(grammar, g[n - 1], entries[n]) ELSE g[n - 1]
    <3>1. 0 \in 0 .. N /\ 1 .. N \subseteq 0 .. N
      BY <1>1
    <3>2. \A n \in 0 .. N : g[n] = F(g)[n]
      BY <2>1
    <3>3. QED
      BY <3>1, <3>2
  <2> HIDE DEF read, state, F, N
  <2>2. read[0] = Empty /\ state[0] = Empty
    BY <1>4, <1>5, <2>1
  <2>3. \A n \in 1 .. N : read[n - 1] = state[n - 1] => read[n] = state[n]
    BY <1>4, <1>5, <2>1
  <2>4. QED
    BY <1>1, <2>2, <2>3, Counting
<1>7. Parse(grammar, entries) = StateAt(grammar, entries, N)
  BY <1>1, <1>2, <1>6
<1>8. Readable(grammar, entries) <=> ReadableTo(grammar, entries, N)
  BY <1>1 DEF Readable, PositionalFirst, Distinct, ReadableTo
<1>9. Says(grammar, entries) = SaysTo(grammar, entries, N)
  BY <1>1 DEF Says, SaysTo, NamesTo, LastTo
<1>10. CASE ReadableTo(grammar, entries, N)
  BY <1>7, <1>8, <1>9, <1>10 DEF StateAt, After
<1>11. CASE ~ReadableTo(grammar, entries, N)
  <2> DEFINE m == Stop(grammar, entries)
  <2>1. m \in Nat \ {0} /\ ~ReadableTo(grammar, entries, m) /\ ReadableTo(grammar, entries, m - 1)
    BY <1>1, <1>11, StopProps
  <2>2. Take(grammar, After(grammar, entries, m - 1), entries[m]).ok = FALSE
    <3> HIDE DEF m
    <3>1. QED
      BY <2>1, TakeOne
  <2>3. QED
    BY <1>7, <1>8, <1>11, <2>2 DEF StateAt
<1>12. QED
  BY <1>10, <1>11

\* A list has a length, and its positions are the numbers up to that.
LEMMA ListFacts ==
  ASSUME NEW list, IsList(list)
  PROVE  /\ Len(list) \in Nat
         /\ DOMAIN list = 1 .. Len(list)
         /\ list \in Seq({list[k] : k \in DOMAIN list})
BY DEF IsList

\* The first of some positions is one of them and before the others.
LEMMA FirstProps ==
  ASSUME NEW S \in SUBSET Nat, S # {}
  PROVE  First(S) \in S /\ \A k \in S : First(S) <= k
BY LeastNumber DEF First

\* Parsing looks at the entries up to a position only.
LEMMA SameEntries ==
  ASSUME NEW grammar, NEW entries, NEW others, NEW n \in Nat,
         \A i \in 1 .. n : entries[i] = others[i]
  PROVE  /\ ReadableTo(grammar, entries, n) <=> ReadableTo(grammar, others, n)
         /\ SaysTo(grammar, entries, n) = SaysTo(grammar, others, n)
<1>1. ReadableTo(grammar, entries, n) <=> ReadableTo(grammar, others, n)
  BY DEF ReadableTo
<1>2. NamesTo(grammar, entries, n) = NamesTo(grammar, others, n)
  BY DEF NamesTo
<1>3. ASSUME NEW name \in NamesTo(grammar, entries, n)
      PROVE  entries[LastTo(grammar, entries, n, name)].value = others[LastTo(grammar, others, n, name)].value
  <2>1. LastTo(grammar, entries, n, name) = LastTo(grammar, others, n, name)
    <3>1. \A i : (/\ i \in 1 .. n
                  /\ Reads(grammar, entries[i]) = name
                  /\ \A j \in 1 .. n : Reads(grammar, entries[j]) = name => j <= i)
                 <=> (/\ i \in 1 .. n
                      /\ Reads(grammar, others[i]) = name
                      /\ \A j \in 1 .. n : Reads(grammar, others[j]) = name => j <= i)
      OBVIOUS
    <3>2. QED
      BY <3>1 DEF LastTo
  <2>2. LastTo(grammar, entries, n, name) \in 1 .. n
    BY LastProps
  <2>3. QED
    BY <2>1, <2>2
<1>4. QED
  BY <1>1, <1>2, <1>3 DEF SaysTo

\* Reading to the last entry is reading the list.
LEMMA AllEntries ==
  ASSUME NEW grammar, NEW entries, IsList(entries)
  PROVE  /\ Readable(grammar, entries) <=> ReadableTo(grammar, entries, Len(entries))
         /\ Says(grammar, entries) = SaysTo(grammar, entries, Len(entries))
<1>1. DOMAIN entries = 1 .. Len(entries)
  BY ListFacts
<1>2. Readable(grammar, entries) <=> ReadableTo(grammar, entries, Len(entries))
  BY <1>1 DEF Readable, PositionalFirst, Distinct, ReadableTo
<1>3. Says(grammar, entries) = SaysTo(grammar, entries, Len(entries))
  BY <1>1 DEF Says, SaysTo, NamesTo, LastTo
<1>4. QED
  BY <1>2, <1>3

\* The slots that a list says are those its entries are for.
LEMMA SaysNames ==
  ASSUME NEW grammar, NEW entries
  PROVE  DOMAIN Says(grammar, entries) = {Reads(grammar, entries[i]) : i \in DOMAIN entries}
BY DEF Says

\* An Objective-C attribute ends with the kind that its path gives, so it may
\* not say one itself.
LEMMA KindOnce ==
  ASSUME NEW args, IsList(args), NEW kind \in {Instance, Class}
  PROVE  LET parsed == Parse("objc", WithKind(args, kind))
         IN  /\ parsed.ok <=> Readable("objc", args) /\ \A k \in DOMAIN args : args[k].name # "kind"
             /\ parsed.ok => parsed.slots = Over(Says("objc", args), [kind |-> kind])
<1> DEFINE e == [name |-> "kind", value |-> kind]
           all == WithKind(args, kind)
           n == Len(all)
<1>1. /\ Len(args) \in Nat /\ DOMAIN args = 1 .. Len(args)
      /\ args \in Seq({args[k] : k \in DOMAIN args})
  BY ListFacts
<1>2. /\ n = Len(args) + 1 /\ all[n] = e
      /\ \A i \in 1 .. (n - 1) : all[i] = args[i]
      /\ all \in Seq({args[k] : k \in DOMAIN args} \cup {e})
      /\ DOMAIN all = 1 .. n
  <2> DEFINE S == {args[k] : k \in DOMAIN args} \cup {e}
  <2>1. args \in Seq(S) /\ e \in S
    BY <1>1
  <2> HIDE DEF S, e
  <2>2. QED
    BY <1>1, <2>1 DEF WithKind, e
<1>3. IsList(all)
  BY <1>2 DEF IsList
<1>4. Reads("objc", e) = "kind" /\ e.name # Positional
  BY DEF Reads, ReadsNested, TableOf, HookObjcArgs, Expr, Instance, Class, Value, Positional
<1>5. /\ n \in Nat \ {0} /\ n - 1 = Len(args)
      /\ ReadableTo("objc", all, n - 1) <=> Readable("objc", args)
      /\ SaysTo("objc", all, n - 1) = Says("objc", args)
  <2>1. n \in Nat \ {0} /\ n - 1 \in Nat /\ n - 1 = Len(args)
    BY <1>1, <1>2
  <2>2. /\ ReadableTo("objc", args, n - 1) <=> Readable("objc", args)
        /\ SaysTo("objc", args, n - 1) = Says("objc", args)
    BY <2>1, AllEntries
  <2> HIDE DEF all, n
  <2>3. \A i \in 1 .. (n - 1) : all[i] = args[i]
    BY <1>2
  <2>4. /\ ReadableTo("objc", all, n - 1) <=> ReadableTo("objc", args, n - 1)
        /\ SaysTo("objc", all, n - 1) = SaysTo("objc", args, n - 1)
    BY <2>1, <2>3, SameEntries
  <2>5. QED
    BY <2>1, <2>2, <2>4
<1>6. \A i \in 1 .. (n - 1) : Reads("objc", args[i]) # "refused"
         => (Reads("objc", args[i]) = "kind" <=> args[i].name = "kind")
  BY DEF Reads, ReadsNested
<1>7. Readable("objc", all) <=> Readable("objc", args) /\ \A k \in DOMAIN args : args[k].name # "kind"
  <2>1. Readable("objc", all) <=> ReadableTo("objc", all, n)
    BY <1>3, AllEntries
  <2>2. ReadableTo("objc", all, n) <=>
          /\ ReadableTo("objc", all, n - 1)
          /\ \A i \in 1 .. (n - 1) : Reads("objc", all[i]) # "kind"
    <3> HIDE DEF all, n, e
    <3>1. ReadableTo("objc", all, n) <=>
            /\ ReadableTo("objc", all, n - 1)
            /\ Reads("objc", all[n]) # "refused"
            /\ all[n].name = Positional => \A i \in 1 .. (n - 1) : all[i].name = Positional
            /\ \A i \in 1 .. (n - 1) :
                 Reads("objc", all[i]) = Reads("objc", all[n])
                   => /\ "objc" = "com"
                      /\ all[i].name \in {"imports", "resolve_images"}
                      /\ all[i].value.parts = <<>>
      BY <1>5, ReadableNext
    <3>2. "objc" # "com" /\ "kind" # "refused"
      OBVIOUS
    <3>3. QED
      BY <1>2, <1>4, <3>1, <3>2
  <2>3. Readable("objc", args) => \A i \in 1 .. (n - 1) : Reads("objc", args[i]) # "refused"
    BY <1>1, <1>5 DEF Readable
  <2> HIDE DEF all, n, e
  <2>4. QED
    BY <1>1, <1>2, <1>5, <1>6, <2>1, <2>2, <2>3
<1>8. ASSUME Readable("objc", args), \A k \in DOMAIN args : args[k].name # "kind"
      PROVE  Says("objc", all) = Over(Says("objc", args), [kind |-> kind])
  <2> DEFINE said == Says("objc", args)
  <2>1. Says("objc", all) = With(said, "kind", kind)
    <3>1. Says("objc", all) = SaysTo("objc", all, n)
      BY <1>3, AllEntries
    <3>2. SaysTo("objc", all, n) = With(SaysTo("objc", all, n - 1), Reads("objc", all[n]), all[n].value)
      <4> HIDE DEF n, all
      <4> QED BY <1>5, SaysNext
    <3>3. QED
      BY <1>2, <1>4, <1>5, <3>1, <3>2
  <2>2. "kind" \notin DOMAIN said
    <3>1. \A i \in DOMAIN args : Reads("objc", args[i]) # "kind"
      BY <1>1, <1>5, <1>6, <1>8 DEF Readable
    <3>2. DOMAIN Says("objc", args) = {Reads("objc", args[i]) : i \in DOMAIN args}
      BY SaysNames
    <3>3. QED
      BY <3>1, <3>2
  <2>3. With(said, "kind", kind) = Over(said, [kind |-> kind])
    <3> HIDE DEF said
    <3> DEFINE last == [kind |-> kind]
    <3>1. DOMAIN last = {"kind"} /\ last["kind"] = kind
      OBVIOUS
    <3> HIDE DEF last
    <3>2. \A name \in DOMAIN said \cup {"kind"} :
            (IF name = "kind" THEN kind ELSE said[name]) = SlotOr(said, name, last[name])
      BY <2>2, <3>1 DEF SlotOr
    <3>3. With(said, "kind", kind) = Over(said, last)
      BY <3>1, <3>2 DEF With, Over
    <3>4. QED
      BY <3>3 DEF last
  <2>4. QED
    BY <2>1, <2>3
<1>9. QED
  BY <1>3, <1>7, <1>8, ParserExact DEF Grammar

\* The value of a slot is one of the entries for it.
LEMMA SaysValue ==
  ASSUME NEW grammar, NEW entries, IsList(entries), NEW name \in DOMAIN Says(grammar, entries)
  PROVE  \E i \in DOMAIN entries : /\ Reads(grammar, entries[i]) = name
                                   /\ Says(grammar, entries)[name] = entries[i].value
<1> DEFINE n == Len(entries)
<1>1. n \in Nat /\ DOMAIN entries = 1 .. n
  BY ListFacts
<1>2. Says(grammar, entries) = SaysTo(grammar, entries, n)
  BY AllEntries
<1>3. name \in NamesTo(grammar, entries, n)
  BY <1>2 DEF SaysTo
<1> HIDE DEF n
<1>4. LastTo(grammar, entries, n, name) \in 1 .. n
      /\ Reads(grammar, entries[LastTo(grammar, entries, n, name)]) = name
  BY <1>1, <1>3, LastProps
<1>5. SaysTo(grammar, entries, n)[name] = entries[LastTo(grammar, entries, n, name)].value
  BY <1>3 DEF SaysTo
<1>6. QED
  BY <1>1, <1>2, <1>4, <1>5

\* The marker says what the attribute said.
THEOREM MarkerFaithful ==
  ASSUME NEW args, IsList(args), Readable("observe", args),
         NEW slots, slots = Says("observe", args)
  PROVE  /\ Parse("observe", ObserveMarker(slots)).ok
         /\ Parse("observe", ObserveMarker(slots)).slots = slots
<1> DEFINE M == ObserveMarker(slots)
           n == Len(M)
<1>1. \A name \in DOMAIN slots : /\ name \in {"value", "mode"}
                                 /\ name = "mode" => IsMode(slots[name])
  <2> TAKE name \in DOMAIN slots
  <2>1. PICK i \in DOMAIN args : /\ Reads("observe", args[i]) = name
                                 /\ slots[name] = args[i].value
    BY SaysValue
  <2>2. Reads("observe", args[i]) # "refused"
    BY DEF Readable
  <2>3. ReadsObserve(args[i]) = name /\ ReadsObserve(args[i]) # "refused"
    BY <2>1, <2>2 DEF Reads
  <2>4. QED
    BY <2>1, <2>3 DEF ReadsObserve
<1>2. slots = [name \in DOMAIN slots |-> slots[name]]
  BY DEF Says
<1> DEFINE entry(name) == [name |-> name, value |-> slots[name]]
<1>3. M = (IF "value" \in DOMAIN slots THEN <<entry("value")>> ELSE <<>>)
          \o (IF "mode" \in DOMAIN slots THEN <<entry("mode")>> ELSE <<>>)
  BY DEF ObserveMarker, Kept
<1>4. /\ IsList(M) /\ DOMAIN M = 1 .. n /\ n \in Nat
      /\ \A i \in 1 .. n : \E name \in DOMAIN slots : M[i] = entry(name)
      /\ \A name \in DOMAIN slots : \E i \in 1 .. n : M[i] = entry(name)
      /\ \A i, j \in 1 .. n : M[i] = M[j] => i = j
  <2> DEFINE v == entry("value")
             m == entry("mode")
  <2>1. v # m
    OBVIOUS
  <2> DEFINE Good(list) == /\ IsList(list) /\ DOMAIN list = 1 .. Len(list) /\ Len(list) \in Nat
                           /\ \A i \in 1 .. Len(list) : \E name \in DOMAIN slots : list[i] = entry(name)
                           /\ \A name \in DOMAIN slots : \E i \in 1 .. Len(list) : list[i] = entry(name)
                           /\ \A i, j \in 1 .. Len(list) : list[i] = list[j] => i = j
  <2>2. DOMAIN slots \subseteq {"value", "mode"}
    BY <1>1
  <2>3. CASE "value" \in DOMAIN slots /\ "mode" \in DOMAIN slots
    <3> DEFINE list == <<v, m>>
    <3>1. /\ list \in Seq({list[k] : k \in DOMAIN list}) /\ DOMAIN list = 1 .. 2 /\ Len(list) = 2
          /\ list[1] = v /\ list[2] = m
      <4> HIDE DEF v, m
      <4> QED OBVIOUS
    <3>2. 1 .. 2 = {1, 2} /\ DOMAIN slots = {"value", "mode"}
      BY <2>2, <2>3
    <3>3. M = list
      BY <1>3, <2>3
    <3> HIDE DEF list, M, n
    <3>4. Good(list)
      BY <2>1, <3>1, <3>2 DEF IsList
    <3>5. QED
      BY <3>3, <3>4 DEF n
  <2>4. CASE "value" \in DOMAIN slots /\ "mode" \notin DOMAIN slots
    <3> DEFINE list == <<v>>
    <3>1. /\ list \in Seq({list[k] : k \in DOMAIN list}) /\ DOMAIN list = 1 .. 1 /\ Len(list) = 1
          /\ list[1] = v
      <4> HIDE DEF v, m
      <4> QED OBVIOUS
    <3>2. 1 .. 1 = {1} /\ DOMAIN slots = {"value"}
      BY <2>2, <2>4
    <3>3. M = list
      BY <1>3, <2>4
    <3> HIDE DEF list, M, n
    <3>4. Good(list)
      BY <2>1, <3>1, <3>2 DEF IsList
    <3>5. QED
      BY <3>3, <3>4 DEF n
  <2>5. CASE "value" \notin DOMAIN slots /\ "mode" \in DOMAIN slots
    <3> DEFINE list == <<m>>
    <3>1. /\ list \in Seq({list[k] : k \in DOMAIN list}) /\ DOMAIN list = 1 .. 1 /\ Len(list) = 1
          /\ list[1] = m
      <4> HIDE DEF v, m
      <4> QED OBVIOUS
    <3>2. 1 .. 1 = {1} /\ DOMAIN slots = {"mode"}
      BY <2>2, <2>5
    <3>3. M = list
      BY <1>3, <2>5
    <3> HIDE DEF list, M, n
    <3>4. Good(list)
      BY <2>1, <3>1, <3>2 DEF IsList
    <3>5. QED
      BY <3>3, <3>4 DEF n
  <2>6. CASE "value" \notin DOMAIN slots /\ "mode" \notin DOMAIN slots
    <3> DEFINE list == <<>>
    <3>1. list \in Seq({list[k] : k \in DOMAIN list}) /\ DOMAIN list = {} /\ Len(list) = 0
      OBVIOUS
    <3>2. 1 .. 0 = {} /\ DOMAIN slots = {}
      <4>1. 1 .. 0 = {}
        OBVIOUS
      <4>2. DOMAIN slots = {}
        BY <2>2, <2>6, Zenon
      <4>3. QED
        BY <4>1, <4>2
    <3>3. M = list
      BY <1>3, <2>6
    <3> HIDE DEF list, M, n
    <3>4. Good(list)
      BY <2>1, <3>1, <3>2 DEF IsList
    <3>5. QED
      BY <3>3, <3>4 DEF n
  <2>7. QED
    BY <2>3, <2>4, <2>5, <2>6
<1>5. \A i \in 1 .. n : /\ Reads("observe", M[i]) = M[i].name
                        /\ M[i] = entry(M[i].name)
                        /\ M[i].name \in DOMAIN slots
                        /\ M[i].name # "refused" /\ M[i].name # Positional
  <2> TAKE i \in 1 .. n
  <2>1. PICK name \in DOMAIN slots : M[i] = entry(name)
    BY <1>4
  <2>2. M[i].name = name /\ M[i].value = slots[name]
    BY <2>1
  <2>3. name \in {"value", "mode"} /\ (name = "mode" => IsMode(slots[name]))
    BY <1>1, <2>1
  <2> HIDE DEF entry, M, n
  <2>4. Reads("observe", M[i]) = name
    BY <2>2, <2>3 DEF Reads, ReadsObserve, Positional
  <2>5. QED
    BY <2>1, <2>2, <2>3, <2>4 DEF Positional
<1>6. Readable("observe", M)
  <2>1. \A i, j \in 1 .. n : Reads("observe", M[i]) = Reads("observe", M[j]) => i = j
    <3> HIDE DEF M, n, entry
    <3> QED BY <1>4, <1>5
  <2> HIDE DEF M, n, entry
  <2>2. QED
    BY <1>4, <1>5, <2>1 DEF Readable, PositionalFirst, Distinct
<1>7. Says("observe", M) = slots
  <2>8. \A name : entry(name).name = name /\ entry(name).value = slots[name]
    OBVIOUS
  <2> HIDE DEF M, n, entry
  <2>1. DOMAIN Says("observe", M) = {Reads("observe", M[i]) : i \in DOMAIN M}
    BY SaysNames
  <2>2. DOMAIN Says("observe", M) = DOMAIN slots
    <3>1. \A name \in DOMAIN slots : \E i \in 1 .. n : Reads("observe", M[i]) = name
      <4> TAKE name \in DOMAIN slots
      <4>1. PICK i \in 1 .. n : M[i] = entry(name)
        BY <1>4
      <4>2. M[i].name = name
        BY <2>8, <4>1
      <4>3. QED
        BY <1>5, <4>1, <4>2
    <3>2. \A i \in DOMAIN M : Reads("observe", M[i]) \in DOMAIN slots
      BY <1>4, <1>5
    <3>3. DOMAIN Says("observe", M) = {Reads("observe", M[i]) : i \in 1 .. n}
      BY <1>4, <2>1
    <3>4. DOMAIN Says("observe", M) \subseteq DOMAIN slots
      BY <1>4, <3>2, <3>3
    <3>5. DOMAIN slots \subseteq DOMAIN Says("observe", M)
      BY <3>1, <3>3
    <3>6. QED
      BY <3>4, <3>5
  <2>3. \A name \in DOMAIN slots : Says("observe", M)[name] = slots[name]
    <3> TAKE name \in DOMAIN slots
    <3>1. PICK i \in DOMAIN M : /\ Reads("observe", M[i]) = name
                                /\ Says("observe", M)[name] = M[i].value
      BY <1>4, <2>2, SaysValue
    <3>2. QED
      BY <1>4, <1>5, <2>8, <3>1
  <2>4. Says("observe", M) = [name \in DOMAIN Says("observe", M) |-> Says("observe", M)[name]]
    BY DEF Says
  <2>5. QED
    BY <1>2, <2>2, <2>3, <2>4
<1>8. QED
  BY <1>4, <1>6, <1>7, ParserExact DEF Grammar

------------------------------------------------------------------------------
(* What an attribute makes.                                                  *)

\* What a set of hooks that one attribute makes is like.
Single(made, i, kind, observe) ==
  /\ \A h \in made : h.fn = i /\ h.kind = kind /\ h.observe = observe
  /\ \A h, g \in made : h = g

\* A hook keeps the function, the kind and the observation it is given.
LEMMA HookFields ==
  ASSUME NEW kind, NEW slots, NEW i, NEW observe, NEW target, NEW name
  PROVE  LET h == Hook(kind, slots, i, observe, target, name)
         IN  h.fn = i /\ h.kind = kind /\ h.observe = observe
BY DEF Hook

\* `#[hook::c]` makes at most one hook, whatever observes it.
LEMMA HookCProps ==
  ASSUME NEW slots, NEW i, NEW observe, NEW other
  PROVE  /\ Single(HookC(slots, i, observe), i, "c", observe)
         /\ HookC(slots, i, observe) = {} <=> HookC(slots, i, other) = {}
<1>1. \A s, t \in NormalizeTarget(slots, i) : s = t
  <2>1. CASE Scope(slots) = {"function"}
    BY <2>1 DEF NormalizeTarget
  <2>2. CASE Scope(slots) = {"image", "symbol"}
    BY <2>2 DEF NormalizeTarget
  <2>3. CASE Scope(slots) = {"symbol"}
    BY <2>3 DEF NormalizeTarget
  <2>4. CASE Scope(slots) = {}
    BY <2>4 DEF NormalizeTarget
  <2>5. CASE Scope(slots) \notin {{"function"}, {"image", "symbol"}, {"symbol"}, {}}
    BY <2>5 DEF NormalizeTarget
  <2>6. QED
    BY <2>1, <2>2, <2>3, <2>4, <2>5
<1> DEFINE H(o, target) == Hook("c", slots, i, o, target, FunctionHookName(target, i))
<1>2. \A o : HookC(slots, i, o) = {H(o, target) : target \in NormalizeTarget(slots, i)}
  BY DEF HookC
<1>3. \A o, target : H(o, target).fn = i /\ H(o, target).kind = "c" /\ H(o, target).observe = o
  BY HookFields
<1> DEFINE S == NormalizeTarget(slots, i)
<1> HIDE DEF H
<1>4. HookC(slots, i, observe) = {H(observe, t) : t \in S} /\ HookC(slots, i, other) = {H(other, t) : t \in S}
  BY <1>2
<1> HIDE DEF S
<1>5. Single(HookC(slots, i, observe), i, "c", observe)
  BY <1>1, <1>3, <1>4 DEF Single, S
<1>6. HookC(slots, i, observe) = {} <=> HookC(slots, i, other) = {}
  BY <1>4
<1>7. QED
  BY <1>5, <1>6

\* So do the Objective-C attributes.
LEMMA HookObjcProps ==
  ASSUME NEW slots, NEW i, NEW observe, NEW other
  PROVE  /\ Single(HookObjc(slots, i, observe), i, "objc", observe)
         /\ HookObjc(slots, i, observe) = {} <=> HookObjc(slots, i, other) = {}
<1> DEFINE H(o) == Hook("objc", slots, i, o, <<slots["kind"], slots["class"], slots["selector"]>>,
                        ObjcHookName(slots["class"], slots["selector"], i))
<1>1. \A o : HookObjc(slots, i, o) =
               IF {"class", "selector", "kind"} \subseteq DOMAIN slots THEN {H(o)} ELSE {}
  BY DEF HookObjc
<1>2. \A o : H(o).fn = i /\ H(o).kind = "objc" /\ H(o).observe = o
  BY HookFields
<1> HIDE DEF H
<1>3. QED
  BY <1>1, <1>2 DEF Single

\* So does `#[hook::com]`.
LEMMA HookComProps ==
  ASSUME NEW slots, NEW i, NEW context, NEW observe, NEW other
  PROVE  /\ Single(HookCom(slots, i, context, observe), i, "com", observe)
         /\ HookCom(slots, i, context, observe) = {} <=> HookCom(slots, i, context, other) = {}
<1> DEFINE field == SlotOr(slots, "field", ComField(i))
           names == ComHookName(slots, i, context, field)
           T(name) == [symbol |-> SlotOr(slots, "symbol", name),
                       route |-> ComRoute(slots, context, field),
                       install |-> ModuleSlice(slots, "imports"),
                       resolve |-> ModuleSlice(slots, "resolve_images")]
           H(o, name) == Hook("com", slots, i, o, T(name), name)
<1>1. \A s, t \in names : s = t
  BY DEF ComHookName
<1>2. \A o : HookCom(slots, i, context, o) = {H(o, name) : name \in names}
  BY DEF HookCom
<1> HIDE DEF T
<1>3. \A o, name : H(o, name).fn = i /\ H(o, name).kind = "com" /\ H(o, name).observe = o
  BY HookFields
<1> HIDE DEF H, names
<1>4. /\ HookCom(slots, i, context, observe) = {H(observe, t) : t \in names}
      /\ HookCom(slots, i, context, other) = {H(other, t) : t \in names}
  BY <1>2
<1>5. Single(HookCom(slots, i, context, observe), i, "com", observe)
  BY <1>1, <1>3, <1>4 DEF Single
<1>6. HookCom(slots, i, context, observe) = {} <=> HookCom(slots, i, context, other) = {}
  BY <1>4
<1>7. QED
  BY <1>5, <1>6

\* What an attribute makes is at most one hook: of its function, of the kind of
\* its path, and observed as it is told. Whether there is one does not depend on
\* the observation.
LEMMA MadeProps ==
  ASSUME NEW item, NEW i, NEW path \in HookPath, NEW slots, NEW observe, NEW other
  PROVE  /\ Single(Made(item, i, path, slots, observe), i, GrammarOf(path), observe)
         /\ Made(item, i, path, slots, observe) = {} <=> Made(item, i, path, slots, other) = {}
<1>1. CASE path = "c"
  <2>1. \A o : Made(item, i, path, slots, o) = HookC(slots, i, o)
    BY <1>1 DEF Made, MadeIn
  <2>2. QED
    BY <1>1, <2>1, HookCProps DEF GrammarOf
<1>2. CASE path = "com"
  <2>1. \A o : Made(item, i, path, slots, o) = HookCom(slots, i, ContextOf(item), o)
    BY <1>2 DEF Made, MadeIn
  <2>2. QED
    BY <1>2, <2>1, HookComProps DEF GrammarOf
<1>3. CASE path \in {"instance", "class"}
  <2> DEFINE kinded == Over(slots, [kind |-> IF path = "instance" THEN Instance ELSE Class])
             all == IF item.group = <<>> THEN kinded ELSE MethodSlots(kinded, ContextOf(item), i)
  <2>1. \A o : Made(item, i, path, slots, o) = HookObjc(all, i, o)
    BY <1>3 DEF Made, MadeIn
  <2> HIDE DEF all
  <2>2. QED
    BY <1>3, <2>1, HookObjcProps DEF GrammarOf
<1>4. QED
  BY <1>1, <1>2, <1>3 DEF HookPath

------------------------------------------------------------------------------
(* Attributes: as they are written, and as they stand.                       *)

\* The attributes of a declared function: positions, argument lists, no markers.
LEMMA DeclarationProps ==
  ASSUME NEW item, Declaration(item), NEW i \in DOMAIN item.fns
  PROVE  /\ Len(item.fns) \in Nat /\ DOMAIN item.fns = 1 .. Len(item.fns)
         /\ item.fns[i].sig \subseteq Defect
         /\ DOMAIN item.fns[i].attrs \in SUBSET Nat
         /\ \A k \in DOMAIN item.fns[i].attrs : /\ item.fns[i].attrs[k].path # "marker"
                                                /\ IsList(item.fns[i].attrs[k].args)
<1>1. IsList(item.fns) /\ IsList(item.fns[i].attrs)
  BY DEF Declaration, Attribute
<1>2. /\ item.fns[i].sig \subseteq Defect
      /\ \A k \in DOMAIN item.fns[i].attrs : /\ item.fns[i].attrs[k].path # "marker"
                                             /\ IsList(item.fns[i].attrs[k].args)
  BY DEF Declaration, Attribute
<1>3. DOMAIN item.fns[i].attrs = 1 .. Len(item.fns[i].attrs) /\ Len(item.fns[i].attrs) \in Nat
  BY <1>1, ListFacts
<1>4. QED
  BY <1>1, <1>2, <1>3, ListFacts

\* An attribute is well formed if its parser takes it, and means what the
\* parser makes of it.
LEMMA AttributeParsed ==
  ASSUME NEW a, IsList(a.args), a.path \in Grammar
  PROVE  /\ WellFormed(a) <=> Parse(a.path, a.args).ok /\ a.form = "list"
         /\ WellFormed(a) => Parse(a.path, a.args).slots = Meaning(a)
<1>1. a.path \notin {"instance", "class"} /\ GrammarOf(a.path) = a.path
  BY DEF Grammar, GrammarOf
<1>2. QED
  BY <1>1, ParserExact DEF WellFormed, Meaning

\* The same for an Objective-C attribute, which has its kind added to its
\* arguments.
LEMMA KindedParsed ==
  ASSUME NEW a, IsList(a.args), a.path \in {"instance", "class"}, NEW kind \in {Instance, Class}
  PROVE  LET parsed == Parse("objc", WithKind(a.args, kind))
         IN  /\ WellFormed(a) <=> parsed.ok /\ a.form = "list"
             /\ WellFormed(a) => parsed.slots = Over(Meaning(a), [kind |-> kind])
<1>1. GrammarOf(a.path) = "objc"
  BY DEF GrammarOf
<1>2. QED
  BY <1>1, KindOnce DEF WellFormed, Meaning

\* An attribute that is still there is as it was written, or the marker of an
\* `observe` that was.
Stands(a, written) ==
  \/ a = written
  \/ written.path = "observe" /\ WellFormed(written) /\ a = Marker(Meaning(written))

\* An `observe` that stands, as written or as its marker, is parsed alike.
LEMMA StandsParsed ==
  ASSUME NEW a, NEW written, written.path = "observe", IsList(written.args), Stands(a, written)
  PROVE  /\ WellFormed(written) <=> Parse("observe", a.args).ok /\ a.form = "list"
         /\ WellFormed(written) => Parse("observe", a.args).slots = Meaning(written)
<1>1. CASE a = written
  BY <1>1, AttributeParsed DEF Grammar
<1>2. CASE WellFormed(written) /\ a = Marker(Meaning(written))
  <2>1. Readable("observe", written.args) /\ Meaning(written) = Says("observe", written.args)
    BY <1>2 DEF WellFormed, Meaning, GrammarOf
  <2>2. /\ Parse("observe", ObserveMarker(Meaning(written))).ok
        /\ Parse("observe", ObserveMarker(Meaning(written))).slots = Meaning(written)
    BY <2>1, MarkerFaithful
  <2>3. a.form = "list" /\ a.args = ObserveMarker(Meaning(written))
    BY <1>2 DEF Marker
  <2>4. QED
    BY <1>2, <2>2, <2>3
<1>3. QED
  BY <1>1, <1>2 DEF Stands

\* Observations are taken off if and only if there is at most one and it is well
\* formed, and it then means what was written.
LEMMA TakenProps ==
  ASSUME NEW list, NEW written,
         \A k \in Observing(list) : /\ Stands(list[k], written[k])
                                    /\ written[k].path = "observe"
                                    /\ IsList(written[k].args)
  PROVE  /\ Taken(list).ok <=> /\ \A k, l \in Observing(list) : k = l
                               /\ \A k \in Observing(list) : WellFormed(written[k])
         /\ Taken(list).ok => Taken(list).of = {Meaning(written[k]) : k \in Observing(list)}
<1> DEFINE parsed == [k \in Observing(list) |-> Parse("observe", list[k].args)]
<1>1. \A k \in Observing(list) :
        /\ WellFormed(written[k]) <=> parsed[k].ok /\ list[k].form = "list"
        /\ WellFormed(written[k]) => parsed[k].slots = Meaning(written[k])
  BY StandsParsed
<1>2. /\ Taken(list).ok = (/\ \A k, l \in Observing(list) : k = l
                           /\ \A k \in Observing(list) : list[k].form = "list" /\ parsed[k].ok)
      /\ Taken(list).of = {parsed[k].slots : k \in Observing(list)}
  BY DEF Taken
<1> HIDE DEF parsed
<1>3. Taken(list).ok <=> /\ \A k, l \in Observing(list) : k = l
                         /\ \A k \in Observing(list) : WellFormed(written[k])
  BY <1>1, <1>2
<1>4. Taken(list).ok => Taken(list).of = {Meaning(written[k]) : k \in Observing(list)}
  BY <1>1, <1>2, <1>3
<1>5. QED
  BY <1>3, <1>4

\* A list with one more at its end.
LEMMA AppendFacts ==
  ASSUME NEW list, IsList(list), NEW e
  PROVE  /\ IsList(Append(list, e))
         /\ Len(Append(list, e)) = Len(list) + 1
         /\ DOMAIN Append(list, e) = 1 .. Len(list) + 1
         /\ Append(list, e)[Len(list) + 1] = e
         /\ \A k \in DOMAIN list : Append(list, e)[k] = list[k]
<1> DEFINE S == {list[k] : k \in DOMAIN list} \cup {e}
           all == Append(list, e)
<1>1. list \in Seq(S) /\ e \in S /\ DOMAIN list = 1 .. Len(list) /\ Len(list) \in Nat
  <2>1. /\ DOMAIN list = 1 .. Len(list) /\ Len(list) \in Nat
        /\ list \in Seq({list[k] : k \in DOMAIN list})
    BY ListFacts
  <2>2. QED
    BY <2>1
<1> HIDE DEF S
<1>2. /\ all \in Seq(S) /\ Len(all) = Len(list) + 1 /\ DOMAIN all = 1 .. Len(all)
      /\ all[Len(list) + 1] = e
      /\ \A k \in DOMAIN list : all[k] = list[k]
  BY <1>1
<1> HIDE DEF all
<1>3. all \in Seq({all[k] : k \in DOMAIN all})
  BY <1>2
<1>4. QED
  BY <1>2, <1>3 DEF IsList, all

Prepend(e, list) == <<e>> \o list

\* A list with one more at its head.
LEMMA PrependFacts ==
  ASSUME NEW list, IsList(list), NEW e
  PROVE  /\ IsList(Prepend(e, list))
         /\ Len(Prepend(e, list)) = Len(list) + 1
         /\ DOMAIN Prepend(e, list) = 1 .. Len(list) + 1
         /\ Prepend(e, list)[1] = e
         /\ \A k \in DOMAIN list : Prepend(e, list)[k + 1] = list[k]
         /\ \A k \in 2 .. Len(list) + 1 : Prepend(e, list)[k] = list[k - 1] /\ k - 1 \in DOMAIN list
<1> DEFINE S == {list[k] : k \in DOMAIN list} \cup {e}
           all == Prepend(e, list)
<1>1. list \in Seq(S) /\ e \in S /\ DOMAIN list = 1 .. Len(list) /\ Len(list) \in Nat
  <2>1. /\ DOMAIN list = 1 .. Len(list) /\ Len(list) \in Nat
        /\ list \in Seq({list[k] : k \in DOMAIN list})
    BY ListFacts
  <2>2. QED
    BY <2>1
<1> HIDE DEF S
<1>2. <<e>> \in Seq(S) /\ Len(<<e>>) = 1 /\ <<e>>[1] = e
  BY <1>1
<1>3. /\ all \in Seq(S) /\ Len(all) = Len(list) + 1 /\ DOMAIN all = 1 .. Len(all)
      /\ all[1] = e
      /\ \A k \in DOMAIN list : all[k + 1] = list[k]
  BY <1>1, <1>2 DEF Prepend
<1> HIDE DEF all
<1>4. all \in Seq({all[k] : k \in DOMAIN all})
  BY <1>3
<1>5. \A k \in 2 .. Len(list) + 1 : all[k] = list[k - 1] /\ k - 1 \in DOMAIN list
  <2> TAKE k \in 2 .. Len(list) + 1
  <2>1. k - 1 \in DOMAIN list /\ (k - 1) + 1 = k
    BY <1>1
  <2>2. QED
    BY <1>3, <2>1
<1>6. QED
  BY <1>3, <1>4, <1>5 DEF IsList, all

------------------------------------------------------------------------------

\* The one function of an item: its attributes as they were written, by what
\* they are; where some still stand; and which have been expanded.
Written == decl.fns[1].attrs
Decls   == Declaring(decl, 1)
Watches == Watching(decl, 1)
Defines == Among(Written, {"observer"})
There   == DOMAIN attrs[1]
Done    == Decls \ There
Defined == Defines \ There

\* The invariant of a function that is being expanded, in parts.
FnShape ==
  /\ at = 0
  /\ DOMAIN decl.fns = {1} /\ DOMAIN attrs = {1} /\ DOMAIN body = {1}
  /\ There \subseteq DOMAIN Written
  /\ \A k \in There : Stands(attrs[1][k], Written[k])

FnDone ==
  /\ \A k \in Done : WellFormed(Written[k])
  /\ Done = {} => Watches \subseteq There
  /\ Done # {} => /\ \E first \in Done : \A l \in Decls : first <= l
                  /\ Hookable(decl.fns[1])
                  /\ Watches \cap There = {}
                  /\ \A k \in Watches : WellFormed(Written[k])
                  /\ \A k, l \in Watches : k = l

\* pos[j] is the position of the attribute that made the hook j.
Accounts(pos) ==
  /\ \A j, k \in DOMAIN hooks : pos[j] = pos[k] => j = k
  /\ \A k \in Done : \E j \in DOMAIN hooks : pos[j] = k
  /\ \A j \in DOMAIN hooks : pos[j] \in Done /\ hooks[j] \in MadeAt(decl, 1, pos[j])

FnHooks == IsList(hooks) /\ \E pos : Accounts(pos)

FnObservers ==
  /\ IsList(observers)
  /\ \A k \in Defined : /\ WellFormed(Written[k])
                        /\ IsMode(SlotOr(Meaning(Written[k]), "default", Nothing))
                        /\ decl.fns[1].sig \cap {"arity", "self"} = {}
  /\ \A j \in DOMAIN observers : \E k \in Defined : observers[j] = Meaning(Written[k])["default"]
  /\ Len(observers) = 0 <=> Defined = {}
  /\ Len(observers) <= 1 <=> \A k, l \in Defined : k = l

\* The layer next to the statements, and the gate before it, are this hook's.
Owns(layers, hook) ==
  /\ Len(layers) > 0
  /\ layers[Len(layers)] = ForwardLayer(hook)
  /\ hook.observe # {} <=> (Len(layers) > 1 /\ layers[Len(layers) - 1] = GateLayer(hook))
  /\ \A l \in DOMAIN layers : layers[l].does = "gate" => layers[l].kind = hook.kind

FnBody ==
  /\ IsList(body[1])
  /\ IF hooks = <<>> THEN body[1] = <<>> ELSE Owns(body[1], hooks[1])

FnInv == FnShape /\ FnDone /\ FnHooks /\ FnObservers /\ FnBody

\* The one function of an item without an impl block, and its attributes.
LEMMA FnStatic ==
  ASSUME Declaration(decl), decl.group = <<>>
  PROVE  /\ DOMAIN decl.fns = {1}
         /\ DOMAIN Written \in SUBSET Nat
         /\ \A k \in DOMAIN Written : Written[k].path # "marker" /\ IsList(Written[k].args)
         /\ Decls = {k \in DOMAIN Written : Written[k].path \in HookPath}
         /\ Watches = {k \in DOMAIN Written : Written[k].path = "observe"}
         /\ Defines = {k \in DOMAIN Written : Written[k].path = "observer"}
<1>1. Len(decl.fns) = 1 /\ IsList(decl.fns)
  BY DEF Declaration, Attribute
<1>2. DOMAIN decl.fns = 1 .. 1
  BY <1>1, ListFacts
<1>3. DOMAIN decl.fns = {1}
  BY <1>2
<1>4. /\ DOMAIN Written \in SUBSET Nat
      /\ \A k \in DOMAIN Written : Written[k].path # "marker" /\ IsList(Written[k].args)
  BY <1>3, DeclarationProps DEF Written
<1>5. /\ Decls = {k \in DOMAIN Written : Written[k].path \in HookPath}
      /\ Watches = {k \in DOMAIN Written : Written[k].path = "observe"}
      /\ Defines = {k \in DOMAIN Written : Written[k].path = "observer"}
  BY DEF Decls, Watches, Defines, Declaring, Watching, Among, Written
<1>6. QED
  BY <1>3, <1>4, <1>5

\* A marker is not an attribute that is expanded.
LEMMA MarkerPath ==
  ASSUME NEW slots
  PROVE  Marker(slots).path = "marker"
BY DEF Marker

\* The attribute whose turn it is stands as it was written.
LEMMA FnTurn ==
  ASSUME Declaration(decl), decl.group = <<>>, FnShape, Pending # {}
  PROVE  /\ Turn \in There /\ attrs[1][Turn] = Written[Turn]
         /\ Written[Turn].path \in Macro
         /\ \A k \in There : Written[k].path \in Macro \ {"observe"} => Turn <= k
<1>1. There \in SUBSET Nat /\ There \subseteq DOMAIN Written
  BY FnStatic DEF FnShape
<1>2. Pending = {k \in There : attrs[1][k].path \in Macro}
  BY DEF Pending, Among, There
<1>3. Turn \in Pending /\ \A k \in Pending : Turn <= k
  BY <1>1, <1>2, FirstProps DEF Turn
<1>4. \A k \in There : \/ attrs[1][k] = Written[k]
                       \/ attrs[1][k].path = "marker" /\ Written[k].path = "observe"
  BY MarkerPath DEF FnShape, Stands
<1>5. "marker" \notin Macro
  BY DEF Macro, HookPath
<1>6. QED
  BY <1>2, <1>3, <1>4, <1>5

\* What a hook attribute finds besides itself, and what it takes off.
LEMMA FnOthers ==
  ASSUME Declaration(decl), decl.group = <<>>, FnShape, Pending # {}, Written[Turn].path # "observe"
  PROVE  /\ DOMAIN Others = There \ {Turn}
         /\ \A k \in DOMAIN Others : Others[k] = attrs[1][k]
         /\ Observing(Others) = Watches \cap There
         /\ Taken(Others).ok <=> /\ \A k, l \in Watches \cap There : k = l
                                 /\ \A k \in Watches \cap There : WellFormed(Written[k])
         /\ Taken(Others).ok => Taken(Others).of = {Meaning(Written[k]) : k \in Watches \cap There}
<1>1. /\ DOMAIN Others = There \ {Turn}
      /\ \A k \in DOMAIN Others : Others[k] = attrs[1][k]
  BY DEF Others, Without, There
<1>2. \A k \in There : attrs[1][k].path \in {"observe", "marker"} <=> Written[k].path = "observe"
  <2> TAKE k \in There
  <2>1. k \in DOMAIN Written /\ Written[k].path # "marker" /\ Stands(attrs[1][k], Written[k])
    BY FnStatic DEF FnShape
  <2>2. QED
    BY <2>1, MarkerPath DEF Stands
<1>3. There \subseteq DOMAIN Written /\ Watches = {k \in DOMAIN Written : Written[k].path = "observe"}
  BY FnStatic DEF FnShape
<1>4. Observing(Others) = Watches \cap There
  BY <1>1, <1>2, <1>3 DEF Observing, Among
<1>5. \A k \in Observing(Others) : /\ Stands(Others[k], Written[k])
                                   /\ Written[k].path = "observe"
                                   /\ IsList(Written[k].args)
  <2> TAKE k \in Observing(Others)
  <2>1. k \in There /\ k \in DOMAIN Written /\ Written[k].path = "observe" /\ k # Turn
    BY <1>3, <1>4
  <2>2. Stands(Others[k], Written[k])
    BY <1>1, <2>1 DEF FnShape
  <2>3. QED
    BY <2>1, <2>2, FnStatic
<1>6. /\ Taken(Others).ok <=> /\ \A k, l \in Observing(Others) : k = l
                              /\ \A k \in Observing(Others) : WellFormed(Written[k])
      /\ Taken(Others).ok => Taken(Others).of = {Meaning(Written[k]) : k \in Observing(Others)}
  BY <1>5, TakenProps
<1>7. QED
  BY <1>1, <1>4, <1>6

\* A gate is not a forward layer, and both have their hook's kind.
LEMMA LayerFacts ==
  ASSUME NEW hook, NEW other
  PROVE  /\ ForwardLayer(other) # GateLayer(hook)
         /\ ForwardLayer(hook).does # "gate"
         /\ GateLayer(hook).kind = hook.kind
BY DEF ForwardLayer, GateLayer

\* A gate and a forward layer are a list of two.
LEMMA TwoLayers ==
  ASSUME NEW g, NEW f
  PROVE  LET list == <<g>> \o <<f>> \o <<>>
         IN  /\ list \in Seq({g, f}) /\ DOMAIN list = {1, 2} /\ Len(list) = 2
             /\ list[1] = g /\ list[2] = f
<1> DEFINE S == {g, f}
           list == <<g>> \o <<f>> \o <<>>
<1>1. <<g>> \in Seq(S) /\ <<f>> \in Seq(S) /\ <<>> \in Seq(S)
  OBVIOUS
<1>2. /\ <<g>> \o <<f>> \in Seq(S) /\ Len(<<g>> \o <<f>>) = 2
      /\ (<<g>> \o <<f>>)[1] = g /\ (<<g>> \o <<f>>)[2] = f
  BY <1>1
<1>3. list \in Seq(S) /\ Len(list) = 2
  BY <1>1, <1>2
<1>4. list[1] = g /\ list[2] = f
  BY <1>1, <1>2
<1>5. QED
  BY <1>3, <1>4

\* What the first hook puts into an empty body.
FirstLayers(hook) == (IF hook.observe = {} THEN <<>> ELSE <<GateLayer(hook)>>)
                     \o <<ForwardLayer(hook)>> \o <<>>

\* The layers of the first hook are its own.
LEMMA BodyFirst ==
  ASSUME NEW hook
  PROVE  Owns(FirstLayers(hook), hook) /\ IsList(FirstLayers(hook))
<1> DEFINE f == ForwardLayer(hook)
           g == GateLayer(hook)
<1>1. f # g /\ f.does # "gate" /\ g.kind = hook.kind
  BY LayerFacts
<1>2. CASE hook.observe = {}
  <2> DEFINE list == <<f>>
  <2>1. FirstLayers(hook) = list
    BY <1>2 DEF FirstLayers
  <2> HIDE DEF f, g
  <2>2. list \in Seq({list[k] : k \in DOMAIN list}) /\ DOMAIN list = {1} /\ Len(list) = 1 /\ list[1] = f
    OBVIOUS
  <2> HIDE DEF list
  <2>3. Owns(list, hook)
    BY <1>1, <1>2, <2>2 DEF Owns, f, g
  <2>4. QED
    BY <2>1, <2>2, <2>3 DEF IsList
<1>3. CASE hook.observe # {}
  <2> DEFINE list == <<g>> \o <<f>> \o <<>>
  <2>1. FirstLayers(hook) = list
    BY <1>3 DEF FirstLayers
  <2> HIDE DEF f, g
  <2>2. /\ list \in Seq({g, f}) /\ DOMAIN list = {1, 2} /\ Len(list) = 2
        /\ list[1] = g /\ list[2] = f
    BY TwoLayers
  <2> HIDE DEF list
  <2>3. Owns(list, hook)
    BY <1>1, <1>3, <2>2 DEF Owns, f, g
  <2>4. {list[k] : k \in DOMAIN list} = {g, f}
    BY <2>2
  <2>5. QED
    BY <2>1, <2>2, <2>3, <2>4 DEF IsList
<1>4. QED
  BY <1>2, <1>3

\* A later hook that is not observed leaves the body to the first.
LEMMA BodyMore ==
  ASSUME NEW list, IsList(list), NEW hook, Owns(list, hook), NEW other
  PROVE  LET all == <<>> \o <<ForwardLayer(other)>> \o list
         IN  Owns(all, hook) /\ IsList(all)
<1> DEFINE e == ForwardLayer(other)
           all == Prepend(e, list)
<1>1. <<>> \o <<e>> \o list = all
  <2> HIDE DEF e
  <2>1. <<>> \o <<e>> = <<e>>
    OBVIOUS
  <2>2. QED
    BY <2>1 DEF Prepend
<1>2. /\ IsList(all) /\ Len(all) = Len(list) + 1 /\ DOMAIN all = 1 .. Len(list) + 1 /\ all[1] = e
      /\ \A k \in DOMAIN list : all[k + 1] = list[k]
      /\ \A k \in 2 .. Len(list) + 1 : all[k] = list[k - 1] /\ k - 1 \in DOMAIN list
  BY PrependFacts
<1>3. Len(list) \in Nat \ {0} /\ DOMAIN list = 1 .. Len(list)
  BY ListFacts DEF Owns
<1>4. e # GateLayer(hook) /\ e.does # "gate"
  BY LayerFacts
<1> HIDE DEF e, all
<1>5. Owns(all, hook)
  <2>1. all[Len(all)] = ForwardLayer(hook)
    BY <1>2, <1>3 DEF Owns
  <2>2. CASE Len(list) = 1
    <3>1. Len(all) > 1 /\ all[Len(all) - 1] = e
      BY <1>2, <2>2
    <3>2. hook.observe = {}
      BY <2>2 DEF Owns
    <3>3. hook.observe # {} <=> (Len(all) > 1 /\ all[Len(all) - 1] = GateLayer(hook))
      BY <1>4, <3>1, <3>2
    <3>4. QED
      BY <1>2, <1>3, <1>4, <2>1, <3>3 DEF Owns
  <2>3. CASE Len(list) # 1
    <3>1. Len(all) > 1 /\ all[Len(all) - 1] = list[Len(list) - 1]
      <4>1. Len(list) - 1 \in DOMAIN list /\ (Len(list) - 1) + 1 = Len(all) - 1
        BY <1>2, <1>3, <2>3
      <4>2. QED
        BY <1>2, <1>3, <4>1
    <3>2. hook.observe # {} <=> (Len(all) > 1 /\ all[Len(all) - 1] = GateLayer(hook))
      BY <1>3, <2>3, <3>1 DEF Owns
    <3>3. QED
      BY <1>2, <1>3, <1>4, <2>1, <3>2, SMTT(30) DEF Owns
  <2>4. QED
    BY <2>2, <2>3
<1>6. QED
  BY <1>1, <1>2, <1>5 DEF all, e

\* What the attribute whose turn it is makes is what it declares: the first of
\* all sees the observation, and the later ones see none.
LEMMA FnMade ==
  ASSUME Declaration(decl), decl.group = <<>>, FnShape, FnDone, Pending # {},
         Written[Turn].path \in HookPath, Taken(Others).ok
  PROVE  /\ Turn \in Decls \ Done
         /\ Done = {} => \A l \in Decls : Turn <= l
         /\ Done # {} => Taken(Others).of = {}
         /\ MadeAt(decl, 1, Turn) =
              Made(decl, 1, Written[Turn].path, Meaning(Written[Turn]), Taken(Others).of)
<1>1. /\ Turn \in There /\ There \subseteq DOMAIN Written /\ DOMAIN Written \in SUBSET Nat
      /\ \A k \in There : Written[k].path \in Macro \ {"observe"} => Turn <= k
      /\ Decls = {k \in DOMAIN Written : Written[k].path \in HookPath}
      /\ Watches = {k \in DOMAIN Written : Written[k].path = "observe"}
  BY FnStatic, FnTurn DEF FnShape
<1>2. HookPath \subseteq Macro \ {"observe"}
  BY DEF HookPath, Macro
<1>3. Turn \in Decls \ Done
  BY <1>1 DEF Done
<1>4. Taken(Others).of = {Meaning(Written[k]) : k \in Watches \cap There}
  BY <1>2, FnOthers
<1>5. CASE Done = {}
  <2>1. \A l \in Decls : Turn <= l
    BY <1>1, <1>2, <1>5 DEF Done
  <2>2. Taken(Others).of = Observed(decl, 1)
    <3>1. Watches \cap There = Watches
      BY <1>5 DEF FnDone
    <3>2. QED
      BY <1>4, <3>1 DEF Observed, Watches, Written
  <2>3. QED
    BY <1>3, <1>5, <2>1, <2>2 DEF MadeAt, Decls, Written
<1>6. CASE Done # {}
  <2>1. Taken(Others).of = {}
    BY <1>4, <1>6 DEF FnDone
  <2>2. ~ \A l \in Decls : Turn <= l
    <3>1. PICK first \in Done : \A l \in Decls : first <= l
      BY <1>6 DEF FnDone
    <3>2. first \in Decls /\ first \in Nat /\ first # Turn /\ first <= Turn /\ Turn \in Nat
      BY <1>1, <1>3, <3>1 DEF Done
    <3>3. QED
      BY <3>2
  <2>3. QED
    BY <1>3, <1>6, <2>1, <2>2 DEF MadeAt, Decls, Written
<1>7. QED
  BY <1>5, <1>6

\* What the attribute whose turn it is makes.
Makes == Made(decl, 1, Written[Turn].path, Meaning(Written[Turn]), Taken(Others).of)

\* An item on which a declared hook cannot be made is not acceptable.
LEMMA FnRefused ==
  ASSUME Declaration(decl), decl.group = <<>>, NEW k \in Decls,
         \/ MadeAt(decl, 1, k) = {}
         \/ ~WellFormed(Written[k])
         \/ ~Hookable(decl.fns[1])
         \/ \E l, m \in Watches : l # m
         \/ \E l \in Watches : ~WellFormed(Written[l])
  PROVE  ~Acceptable(decl)
<1>1. Hooked(decl, 1)
  BY DEF Hooked, Decls
<1>2. ~FnAcceptable(decl, 1)
  BY <1>1 DEF FnAcceptable, Decls, Watches, Written
<1>3. QED
  BY <1>2 DEF Acceptable

\* A hook macro that refuses is right to.
LEMMA FnEmitFails ==
  ASSUME Declaration(decl), decl.group = <<>>, FnInv, Pending # {},
         Written[Turn].path \in HookPath,
         Makes = {} \/ ~Hookable(decl.fns[1]) \/ ~Taken(Others).ok
  PROVE  ~Acceptable(decl)
<1>1. /\ Turn \in There /\ There \subseteq DOMAIN Written
      /\ Decls = {k \in DOMAIN Written : Written[k].path \in HookPath}
  BY FnStatic, FnTurn DEF FnShape, FnInv
<1>2. Turn \in Decls
  BY <1>1
<1>3. CASE Makes = {}
  <2>1. \A o : Made(decl, 1, Written[Turn].path, Meaning(Written[Turn]), o) = {}
    BY <1>3, MadeProps DEF Makes
  <2>2. MadeAt(decl, 1, Turn) = {}
    BY <2>1 DEF MadeAt, Written
  <2>3. QED
    BY <1>2, <2>2, FnRefused
<1>4. CASE ~Hookable(decl.fns[1])
  BY <1>2, <1>4, FnRefused
<1>5. CASE ~Taken(Others).ok
  <2>1. Written[Turn].path # "observe"
    BY DEF HookPath
  <2>2. ~(/\ \A k, l \in Watches \cap There : k = l
          /\ \A k \in Watches \cap There : WellFormed(Written[k]))
    BY <1>5, <2>1, FnOthers DEF FnInv
  <2>3. QED
    BY <1>2, <2>2, FnRefused
<1>6. QED
  BY <1>3, <1>4, <1>5

\* A hook macro that does not refuse keeps the invariant.
LEMMA FnEmits ==
  ASSUME Declaration(decl), decl.group = <<>>, FnInv, Pending # {}, status = "expanding",
         Written[Turn].path \in HookPath, WellFormed(Written[Turn]),
         Makes # {}, Hookable(decl.fns[1]), Taken(Others).ok,
         Emit(1, Makes, Others)
  PROVE  FnInv' /\ status' = "expanding" /\ decl' = decl
<1>1. PICK hook \in Makes :
        /\ hooks' = Append(hooks, hook)
        /\ Rewrite(1, hook)
        /\ attrs' = [attrs EXCEPT ![1] = Without(Others, Observing(Others))]
        /\ at' = IF at = 0 THEN 0 ELSE at + 1
        /\ UNCHANGED <<decl, observers, status>>
  BY DEF Emit
<1>2. /\ FnShape /\ FnDone /\ FnHooks /\ FnObservers /\ FnBody
      /\ DOMAIN attrs = {1} /\ DOMAIN body = {1} /\ There \subseteq DOMAIN Written
  BY DEF FnInv, FnShape
<1>3. /\ Decls' = Decls /\ Watches' = Watches /\ Written' = Written /\ Defines' = Defines
      /\ decl' = decl /\ observers' = observers /\ status' = "expanding"
  BY <1>1 DEF Decls, Watches, Written, Defines
<1>4. /\ Turn \in There /\ attrs[1][Turn] = Written[Turn]
      /\ DOMAIN Others = There \ {Turn}
      /\ \A k \in DOMAIN Others : Others[k] = attrs[1][k]
      /\ Observing(Others) = Watches \cap There
      /\ \A k, l \in Watches \cap There : k = l
      /\ \A k \in Watches \cap There : WellFormed(Written[k])
  <2>1. Written[Turn].path # "observe"
    BY DEF HookPath
  <2>2. QED
    BY <1>2, <2>1, FnTurn, FnOthers
<1>5. /\ Turn \in Decls \ Done
      /\ Done = {} => \A l \in Decls : Turn <= l
      /\ Done # {} => Taken(Others).of = {}
      /\ MadeAt(decl, 1, Turn) = Makes
  BY <1>2, FnMade DEF Makes
<1>6. /\ attrs'[1] = Without(Others, Watches \cap There)
      /\ DOMAIN attrs' = {1}
  BY <1>1, <1>2, <1>4
<1>7. /\ There' = There \ ({Turn} \cup Watches)
      /\ \A k \in There' : attrs'[1][k] = attrs[1][k]
  <2>1. There' = DOMAIN Others \ (Watches \cap There)
    BY <1>6 DEF There, Without
  <2>2. \A k \in There' : attrs'[1][k] = Others[k]
    BY <1>6, <2>1 DEF Without
  <2>3. QED
    BY <1>4, <2>1, <2>2
<1>8. /\ Done' = Done \cup {Turn} /\ Defined' = Defined
      /\ Watches \cap There' = {}
  <2>1. Decls \cap Watches = {} /\ Defines \cap Watches = {} /\ Turn \notin Defines
    BY <1>4, FnStatic DEF HookPath
  <2>2. QED
    BY <1>3, <1>4, <1>5, <1>7, <2>1 DEF Done, Defined
<1>9. FnShape'
  <2>1. at' = 0 /\ DOMAIN body' = {1} /\ DOMAIN decl'.fns = {1}
    BY <1>1, <1>2 DEF FnShape, Rewrite
  <2>2. \A k \in There' : Stands(attrs'[1][k], Written'[k])
    BY <1>2, <1>3, <1>7 DEF FnShape
  <2>3. QED
    BY <1>2, <1>3, <1>6, <1>7, <2>1, <2>2 DEF FnShape
<1>10. FnDone'
  <2>1. \A k \in Done' : WellFormed(Written'[k])
    BY <1>2, <1>3, <1>8 DEF FnDone
  <2>2. \E first \in Done' : \A l \in Decls' : first <= l
    BY <1>2, <1>3, <1>5, <1>8 DEF FnDone
  <2>3. \A k \in Watches : WellFormed(Written[k])
    BY <1>2, <1>4 DEF FnDone
  <2>4. \A k, l \in Watches : k = l
    BY <1>2, <1>4 DEF FnDone
  <2>5. QED
    BY <1>3, <1>8, <2>1, <2>2, <2>3, <2>4 DEF FnDone
<1>11. FnHooks'
  <2>1. IsList(hooks) /\ hooks' = Append(hooks, hook)
    BY <1>1, <1>2 DEF FnHooks
  <2> DEFINE n == Len(hooks) + 1
  <2>2. /\ IsList(hooks') /\ DOMAIN hooks' = 1 .. n /\ hooks'[n] = hook
        /\ \A j \in DOMAIN hooks : hooks'[j] = hooks[j]
    BY <2>1, AppendFacts
  <2>3. DOMAIN hooks = 1 .. Len(hooks) /\ Len(hooks) \in Nat
    BY <2>1, ListFacts
  <2>4. PICK pos : Accounts(pos)
    BY <1>2 DEF FnHooks
  <2>12. PICK pos2 : pos2 = [j \in 1 .. n |-> IF j = n THEN Turn ELSE pos[j]]
    OBVIOUS
  <2>5. /\ n \in 1 .. n /\ n \notin DOMAIN hooks
        /\ 1 .. n = DOMAIN hooks \cup {n}
    BY <2>3
  <2>6. pos2[n] = Turn /\ \A j \in DOMAIN hooks : pos2[j] = pos[j]
    BY <2>5, <2>12
  <2> HIDE DEF n
  <2>7. \A j, k \in DOMAIN hooks' : pos2[j] = pos2[k] => j = k
    BY <1>5, <2>2, <2>4, <2>5, <2>6 DEF Accounts
  <2>8. \A k \in Done' : \E j \in DOMAIN hooks' : pos2[j] = k
    BY <1>8, <2>2, <2>4, <2>5, <2>6 DEF Accounts
  <2>9. \A j \in DOMAIN hooks' : pos2[j] \in Done' /\ hooks'[j] \in MadeAt(decl', 1, pos2[j])
    BY <1>1, <1>3, <1>5, <1>8, <2>2, <2>4, <2>5, <2>6 DEF Accounts
  <2>10. Accounts(pos2)'
    BY <2>7, <2>8, <2>9 DEF Accounts
  <2>11. QED
    BY <2>2, <2>10 DEF FnHooks
<1>12. FnObservers'
  BY <1>2, <1>3, <1>8 DEF FnObservers
<1>13. FnBody'
  <2>1. hook.observe = Taken(Others).of
    BY MadeProps DEF Makes, Single
  <2>2. IsList(hooks) /\ hooks' = Append(hooks, hook)
    BY <1>1, <1>2 DEF FnHooks
  <2>3. body'[1] = (IF hook.observe = {} THEN <<>> ELSE <<GateLayer(hook)>>)
                   \o <<ForwardLayer(hook)>> \o body[1]
    BY <1>1, <1>2 DEF Rewrite
  <2>4. hooks' # <<>>
    BY <2>2, AppendFacts, ListFacts
  <2>5. CASE hooks = <<>>
    <3>1. body'[1] = FirstLayers(hook)
      BY <1>2, <2>3, <2>5 DEF FnBody, FirstLayers
    <3>2. hooks'[1] = hook
      BY <2>2, <2>5, AppendFacts
    <3>3. QED
      BY <2>4, <3>1, <3>2, BodyFirst DEF FnBody
  <2>6. CASE hooks # <<>>
    <3>1. 1 \in DOMAIN hooks
      BY <2>2, <2>6 DEF IsList
    <3>2. Done # {}
      BY <1>2, <3>1 DEF FnHooks, Accounts
    <3>3. hook.observe = {}
      BY <1>5, <2>1, <3>2
    <3>4. body'[1] = <<>> \o <<ForwardLayer(hook)>> \o body[1]
      BY <2>3, <3>3
    <3>5. Owns(body'[1], hooks[1]) /\ IsList(body'[1])
      BY <1>2, <2>6, <3>4, BodyMore DEF FnBody
    <3>6. hooks'[1] = hooks[1]
      BY <2>2, <3>1, AppendFacts
    <3>7. QED
      BY <2>4, <3>5, <3>6 DEF FnBody
  <2>7. QED
    BY <2>5, <2>6
<1>14. QED
  BY <1>3, <1>9, <1>10, <1>11, <1>12, <1>13 DEF FnInv

\* A step leads to a refusal that is due, or on.
FnStep == /\ decl' = decl
          /\ \/ status' = "error" /\ ~Acceptable(decl)
             \/ status' = "expanding" /\ FnInv'

\* A hook macro reads its arguments, and then refuses or emits.
LEMMA FnEmit ==
  ASSUME Declaration(decl), decl.group = <<>>, FnInv, Pending # {}, status = "expanding",
         Written[Turn].path \in HookPath,
         IF WellFormed(Written[Turn]) THEN Emit(1, Makes, Others) ELSE Fail
  PROVE  FnStep
<1>1. Turn \in Decls
  BY FnStatic, FnTurn DEF FnShape, FnInv
<1>2. CASE ~WellFormed(Written[Turn])
  <2>1. ~Acceptable(decl)
    BY <1>1, <1>2, FnRefused
  <2>2. QED
    BY <1>2, <2>1 DEF Fail, FnStep
<1>3. CASE WellFormed(Written[Turn]) /\ (Makes = {} \/ ~Hookable(decl.fns[1]) \/ ~Taken(Others).ok)
  <2>1. ~Acceptable(decl)
    BY <1>3, FnEmitFails
  <2>2. Fail
    BY <1>3 DEF Emit
  <2>3. QED
    BY <2>1, <2>2 DEF Fail, FnStep
<1>4. CASE /\ WellFormed(Written[Turn])
           /\ Makes # {} /\ Hookable(decl.fns[1]) /\ Taken(Others).ok
  BY <1>4, FnEmits DEF FnStep
<1>5. QED
  BY <1>2, <1>3, <1>4

\* The attribute that a macro is called for is the one that was written.
LEMMA FnFree ==
  ASSUME Declaration(decl), FnInv, NEW path, Free(path)
  PROVE  /\ decl.group = <<>> /\ Pending # {} /\ status = "expanding"
         /\ Turn \in There /\ Turn \in DOMAIN Written /\ attrs[1][Turn] = Written[Turn]
         /\ Written[Turn].path = path
         /\ Arguments = Written[Turn].args /\ IsList(Arguments)
         /\ \A acc : Parsed(acc) <=> acc.ok /\ Written[Turn].form = "list"
<1>1. decl.group = <<>> /\ Pending # {} /\ status = "expanding" /\ attrs[1][Turn].path = path
  BY DEF Free
<1>2. Turn \in There /\ attrs[1][Turn] = Written[Turn]
  BY <1>1, FnTurn DEF FnInv
<1>3. Turn \in DOMAIN Written
  BY <1>2 DEF FnInv, FnShape
<1>4. IsList(Written[Turn].args)
  BY <1>1, <1>3, FnStatic
<1>5. QED
  BY <1>1, <1>2, <1>3, <1>4 DEF Arguments, Parsed

\* `#[hook::c]` on a function.
LEMMA FnExpandC ==
  ASSUME Declaration(decl), FnInv, ExpandC
  PROVE  FnStep
<1>1. Free("c")
  BY DEF ExpandC
<1> DEFINE parsed == Parse("c", Arguments)
           a == Written[Turn]
<1>2. IF ~Parsed(parsed) THEN Fail ELSE Emit(1, HookC(parsed.slots, 1, Taken(Others).of), Others)
  BY DEF ExpandC
<1>3. /\ decl.group = <<>> /\ Pending # {} /\ status = "expanding"
      /\ a.path = "c" /\ Arguments = a.args /\ IsList(a.args)
      /\ Parsed(parsed) <=> parsed.ok /\ a.form = "list"
  BY <1>1, FnFree
<1>4. /\ WellFormed(a) <=> Parsed(parsed)
      /\ WellFormed(a) => parsed.slots = Meaning(a)
  BY <1>3, AttributeParsed DEF Grammar
<1>5. Makes = HookC(Meaning(a), 1, Taken(Others).of)
  BY <1>3 DEF Makes, Made, MadeIn
<1>6. IF WellFormed(a) THEN Emit(1, Makes, Others) ELSE Fail
  BY <1>2, <1>4, <1>5
<1>7. QED
  BY <1>3, <1>6, FnEmit DEF HookPath

\* `#[hook::com]` on a function.
LEMMA FnExpandCom ==
  ASSUME Declaration(decl), FnInv, ExpandCom
  PROVE  FnStep
<1>1. Free("com")
  BY DEF ExpandCom
<1> DEFINE parsed == Parse("com", Arguments)
           a == Written[Turn]
<1>2. IF ~Parsed(parsed) THEN Fail
      ELSE Emit(1, HookCom(parsed.slots, 1, NoSlots, Taken(Others).of), Others)
  BY DEF ExpandCom
<1>3. /\ decl.group = <<>> /\ Pending # {} /\ status = "expanding"
      /\ a.path = "com" /\ Arguments = a.args /\ IsList(a.args)
      /\ Parsed(parsed) <=> parsed.ok /\ a.form = "list"
  BY <1>1, FnFree
<1>4. /\ WellFormed(a) <=> Parsed(parsed)
      /\ WellFormed(a) => parsed.slots = Meaning(a)
  BY <1>3, AttributeParsed DEF Grammar
<1>5. Makes = HookCom(Meaning(a), 1, NoSlots, Taken(Others).of)
  BY <1>3 DEF Makes, Made, MadeIn, ContextOf
<1>6. IF WellFormed(a) THEN Emit(1, Makes, Others) ELSE Fail
  BY <1>2, <1>4, <1>5
<1>7. QED
  BY <1>3, <1>6, FnEmit DEF HookPath

\* `#[hook::objc::instance]` or `class` on a function.
LEMMA FnExpandObjc ==
  ASSUME Declaration(decl), FnInv, NEW path \in {"instance", "class"},
         NEW kind, kind = IF path = "instance" THEN Instance ELSE Class,
         ExpandObjc(path, kind)
  PROVE  FnStep
<1>1. Free(path)
  BY DEF ExpandObjc
<1> DEFINE parsed == Parse("objc", WithKind(Arguments, kind))
           a == Written[Turn]
<1>2. IF ~Parsed(parsed) THEN Fail
      ELSE Emit(1, HookObjc(parsed.slots, 1, Taken(Others).of), Others)
  BY DEF ExpandObjc
<1>3. /\ decl.group = <<>> /\ Pending # {} /\ status = "expanding"
      /\ a.path = path /\ Arguments = a.args /\ IsList(a.args)
      /\ Parsed(parsed) <=> parsed.ok /\ a.form = "list"
  BY <1>1, FnFree
<1>4. /\ WellFormed(a) <=> Parsed(parsed)
      /\ WellFormed(a) => parsed.slots = Over(Meaning(a), [kind |-> kind])
  <2>1. kind \in {Instance, Class}
    OBVIOUS
  <2>2. QED
    BY <1>3, <2>1, KindedParsed
<1>5. Makes = HookObjc(Over(Meaning(a), [kind |-> kind]), 1, Taken(Others).of)
  BY <1>3 DEF Makes, Made, MadeIn
<1>6. IF WellFormed(a) THEN Emit(1, Makes, Others) ELSE Fail
  BY <1>2, <1>4, <1>5
<1>7. QED
  BY <1>3, <1>6, FnEmit DEF HookPath

\* `#[hook::observe]` before the hook macros: the marker stands for it.
LEMMA FnExpandObserve ==
  ASSUME Declaration(decl), FnInv, ExpandObserve
  PROVE  FnStep
<1>1. Free("observe")
  BY DEF ExpandObserve
<1> DEFINE parsed == Parse("observe", Arguments)
           a == Written[Turn]
<1>2. IF ~Parsed(parsed) THEN Fail
      ELSE /\ attrs' = [attrs EXCEPT ![1][Turn] = Marker(parsed.slots)]
           /\ UNCHANGED <<decl, body, hooks, observers, at, status>>
  BY DEF ExpandObserve
<1>3. /\ decl.group = <<>> /\ Pending # {} /\ status = "expanding"
      /\ a.path = "observe" /\ Arguments = a.args /\ IsList(a.args)
      /\ Turn \in There /\ Turn \in DOMAIN Written
      /\ Parsed(parsed) <=> parsed.ok /\ a.form = "list"
  BY <1>1, FnFree
<1>4. /\ WellFormed(a) <=> Parsed(parsed)
      /\ WellFormed(a) => parsed.slots = Meaning(a)
  BY <1>3, AttributeParsed DEF Grammar
<1>5. CASE ~WellFormed(a)
  <2>1. Turn \in Watches
    BY <1>3, FnStatic
  <2>2. ~FnAcceptable(decl, 1)
    BY <1>5, <2>1 DEF FnAcceptable, Watches, Written
  <2>3. QED
    BY <1>2, <1>3, <1>4, <1>5, <2>2 DEF Acceptable, Fail, FnStep
<1>6. CASE WellFormed(a)
  <2>1. /\ attrs' = [attrs EXCEPT ![1][Turn] = Marker(Meaning(a))]
        /\ UNCHANGED <<decl, body, hooks, observers, at, status>>
    BY <1>2, <1>4, <1>6
  <2>2. DOMAIN attrs = {1} /\ Turn \in DOMAIN attrs[1]
    BY <1>3 DEF FnInv, FnShape, There
  <2>3. /\ DOMAIN attrs' = {1} /\ There' = There
        /\ attrs'[1][Turn] = Marker(Meaning(a))
        /\ \A k \in There \ {Turn} : attrs'[1][k] = attrs[1][k]
    BY <2>1, <2>2 DEF There
  <2>4. /\ Decls' = Decls /\ Watches' = Watches /\ Written' = Written /\ Defines' = Defines
        /\ decl' = decl
    BY <2>1 DEF Decls, Watches, Written, Defines
  <2>5. Done' = Done /\ Defined' = Defined
    BY <2>3, <2>4 DEF Done, Defined
  <2>6. FnShape'
    <3>1. \A k \in There : Stands(attrs'[1][k], Written[k])
      BY <1>3, <1>6, <2>3 DEF Stands, FnInv, FnShape
    <3>2. QED
      BY <2>1, <2>3, <2>4, <3>1 DEF FnInv, FnShape
  <2>7. FnDone'
    BY <2>3, <2>4, <2>5 DEF FnInv, FnDone
  <2>8. FnHooks'
    <3>1. PICK pos : Accounts(pos)
      BY DEF FnInv, FnHooks
    <3>2. Accounts(pos)'
      BY <2>1, <2>5, <3>1 DEF Accounts
    <3>3. QED
      BY <2>1, <3>2 DEF FnInv, FnHooks
  <2>9. FnObservers' /\ FnBody'
    BY <2>1, <2>4, <2>5 DEF FnInv, FnObservers, FnBody
  <2>10. QED
    BY <1>3, <2>1, <2>6, <2>7, <2>8, <2>9 DEF FnInv, FnStep
<1>7. QED
  BY <1>5, <1>6

\* `#[hook::observer]`.
LEMMA FnExpandObserver ==
  ASSUME Declaration(decl), FnInv, ExpandObserver
  PROVE  FnStep
<1>1. Free("observer")
  BY DEF ExpandObserver
<1> DEFINE parsed == Parse("observer", Arguments)
           a == Written[Turn]
           unfit == decl.fns[1].sig \cap {"arity", "self"} # {}
<1>2. IF ~Parsed(parsed) \/ ~IsMode(SlotOr(parsed.slots, "default", Nothing)) \/ unfit THEN Fail
      ELSE /\ observers' = Append(observers, parsed.slots["default"])
           /\ attrs' = [attrs EXCEPT ![1] = Others]
           /\ UNCHANGED <<decl, body, hooks, at, status>>
  BY DEF ExpandObserver
<1>3. /\ decl.group = <<>> /\ Pending # {} /\ status = "expanding"
      /\ a.path = "observer" /\ Arguments = a.args /\ IsList(a.args)
      /\ Turn \in There /\ Turn \in DOMAIN Written
      /\ Parsed(parsed) <=> parsed.ok /\ a.form = "list"
  BY <1>1, FnFree
<1>4. /\ WellFormed(a) <=> Parsed(parsed)
      /\ WellFormed(a) => parsed.slots = Meaning(a)
  BY <1>3, AttributeParsed DEF Grammar
<1> DEFINE good == WellFormed(a) /\ IsMode(SlotOr(Meaning(a), "default", Nothing)) /\ ~unfit
<1>5. Turn \in Defines \ Defined
  BY <1>3, FnStatic DEF Defined
<1>6. CASE ~good
  <2>1. decl.fns[1].sig = {"no abi", "safe"} => ~unfit
    OBVIOUS
  <2>2. ~ObserverAcceptable(decl.fns[1])
    BY <1>5, <1>6, <2>1 DEF ObserverAcceptable, Defines, Written
  <2>3. Fail
    BY <1>2, <1>4, <1>6
  <2>4. QED
    BY <1>3, <2>2, <2>3 DEF Acceptable, Fail, FnStep
<1>7. CASE good
  <2>1. /\ observers' = Append(observers, parsed.slots["default"])
        /\ attrs' = [attrs EXCEPT ![1] = Others]
        /\ UNCHANGED <<decl, body, hooks, at, status>>
    BY <1>2, <1>4, <1>7
  <2>2. /\ DOMAIN Others = There \ {Turn}
        /\ \A k \in DOMAIN Others : Others[k] = attrs[1][k]
    BY DEF Others, Without, There
  <2>3. /\ DOMAIN attrs' = {1} /\ There' = There \ {Turn}
        /\ \A k \in There' : attrs'[1][k] = attrs[1][k]
    BY <2>1, <2>2 DEF There, FnInv, FnShape
  <2>4. /\ Decls' = Decls /\ Watches' = Watches /\ Written' = Written /\ Defines' = Defines
        /\ decl' = decl
    BY <2>1 DEF Decls, Watches, Written, Defines
  <2>5. Turn \notin Decls /\ Turn \notin Watches
    BY <1>3, FnStatic DEF HookPath
  <2>6. Done' = Done /\ Defined' = Defined \cup {Turn}
    BY <1>5, <2>3, <2>4, <2>5 DEF Done, Defined
  <2>7. FnShape'
    <3>1. \A k \in There' : Stands(attrs'[1][k], Written'[k])
      BY <2>3, <2>4 DEF FnInv, FnShape
    <3>2. QED
      BY <2>1, <2>3, <2>4, <3>1 DEF FnInv, FnShape
  <2>8. FnDone'
    BY <2>1, <2>3, <2>4, <2>5, <2>6 DEF FnInv, FnDone
  <2>9. FnHooks'
    <3>1. PICK pos : Accounts(pos)
      BY DEF FnInv, FnHooks
    <3>2. Accounts(pos)'
      BY <2>1, <2>6, <3>1 DEF Accounts
    <3>3. QED
      BY <2>1, <3>2 DEF FnInv, FnHooks
  <2>10. FnObservers'
    <3> HIDE DEF parsed
    <3>1. IsList(observers) /\ Len(observers) \in Nat
      BY ListFacts DEF FnInv, FnObservers
    <3>2. /\ IsList(observers') /\ Len(observers') = Len(observers) + 1
          /\ DOMAIN observers = 1 .. Len(observers) /\ DOMAIN observers' = 1 .. Len(observers) + 1
          /\ observers'[Len(observers) + 1] = parsed.slots["default"]
          /\ \A j \in DOMAIN observers : observers'[j] = observers[j]
      BY <2>1, <3>1, ListFacts, AppendFacts
    <3>3. \A k \in Defined' : /\ WellFormed(Written'[k])
                              /\ IsMode(SlotOr(Meaning(Written'[k]), "default", Nothing))
                              /\ decl'.fns[1].sig \cap {"arity", "self"} = {}
      BY <1>7, <2>4, <2>6 DEF FnInv, FnObservers
    <3>4. Len(observers) = 0 <=> Defined = {}
      BY DEF FnInv, FnObservers
    <3>5. Len(observers') <= 1 <=> \A k, l \in Defined' : k = l
      <4>1. Len(observers') <= 1 <=> Defined = {}
        BY <3>1, <3>2, <3>4
      <4>2. (\A k, l \in Defined' : k = l) <=> Defined = {}
        BY <1>5, <2>6
      <4>3. QED
        BY <4>1, <4>2
    <3>6. Len(observers') # 0 /\ Defined' # {}
      BY <2>6, <3>1, <3>2
    <3>7. ASSUME NEW j \in DOMAIN observers'
          PROVE  \E k \in Defined' : observers'[j] = Meaning(Written'[k])["default"]
      <4>1. CASE j = Len(observers) + 1
        <5>1. Turn \in Defined' /\ parsed.slots["default"] = Meaning(Written'[Turn])["default"]
          BY <1>4, <1>7, <2>4, <2>6
        <5>2. QED
          BY <3>2, <4>1, <5>1
      <4>2. CASE j # Len(observers) + 1
        <5>1. j \in DOMAIN observers
          BY <3>1, <3>2, <4>2
        <5>2. QED
          BY <2>4, <2>6, <3>2, <5>1 DEF FnInv, FnObservers
      <4>3. QED
        BY <4>1, <4>2
    <3>8. QED
      BY <3>2, <3>3, <3>5, <3>6, <3>7 DEF FnObservers
  <2>11. FnBody'
    BY <2>1 DEF FnInv, FnBody
  <2>12. QED
    BY <1>3, <2>1, <2>7, <2>8, <2>9, <2>10, <2>11 DEF FnInv, FnStep
<1>8. QED
  BY <1>6, <1>7

------------------------------------------------------------------------------

\* What the properties say of an item that has been expanded.
Generated ==
  /\ \A i \in Fns : {hooks[k] : k \in {k \in DOMAIN hooks : hooks[k].fn = i}} = HooksOf(decl, i)
  /\ \A j, k \in DOMAIN hooks : hooks[j] = hooks[k] => j = k

Owned ==
  \A i \in Fns : \A k \in DOMAIN hooks :
    hooks[k].fn = i /\ (\A l \in 1 .. (k - 1) : hooks[l].fn # i) => Owns(body[i], hooks[k])

\* The observer of a function has the mode that its attribute says.
Reported ==
  decl.group = <<>> => \A k \in Defines : observers = <<Meaning(Written[k])["default"]>>

\* Every hook is the one that its attribute declares.
LEMMA FnPlaced ==
  ASSUME FnHooks, NEW pos, Accounts(pos), Declaration(decl), decl.group = <<>>
  PROVE  \A j \in DOMAIN hooks :
           /\ pos[j] \in Done
           /\ hooks[j].fn = 1 /\ hooks[j].kind = GrammarOf(Written[pos[j]].path)
           /\ MadeAt(decl, 1, pos[j]) = {hooks[j]}
<1> SUFFICES ASSUME NEW j \in DOMAIN hooks
             PROVE  /\ pos[j] \in Done
                    /\ hooks[j].fn = 1 /\ hooks[j].kind = GrammarOf(Written[pos[j]].path)
                    /\ MadeAt(decl, 1, pos[j]) = {hooks[j]}
  OBVIOUS
<1>1. pos[j] \in Done /\ hooks[j] \in MadeAt(decl, 1, pos[j])
  BY DEF Accounts
<1>2. Written[pos[j]].path \in HookPath
  BY <1>1, FnStatic DEF Done
<1> DEFINE o == IF \A l \in Decls : pos[j] <= l THEN Observed(decl, 1) ELSE {}
<1>3. MadeAt(decl, 1, pos[j]) = Made(decl, 1, Written[pos[j]].path, Meaning(Written[pos[j]]), o)
  BY DEF MadeAt, Written, Decls
<1> HIDE DEF o
<1>4. Single(MadeAt(decl, 1, pos[j]), 1, GrammarOf(Written[pos[j]].path), o)
  BY <1>2, <1>3, MadeProps
<1>5. QED
  BY <1>1, <1>4 DEF Single

\* A function whose hooks compile has what it declares.
LEMMA FnGenerated ==
  ASSUME Declaration(decl), decl.group = <<>>, FnInv, Done = Decls, Compiles
  PROVE  Generated /\ Owned
<1>1. PICK pos : Accounts(pos)
  BY DEF FnInv, FnHooks
<1>2. \A j \in DOMAIN hooks :
        /\ pos[j] \in Done
        /\ hooks[j].fn = 1 /\ hooks[j].kind = GrammarOf(Written[pos[j]].path)
        /\ MadeAt(decl, 1, pos[j]) = {hooks[j]}
  BY <1>1, FnPlaced DEF FnInv
<1>3. Fns = {1}
  BY FnStatic DEF Fns
<1>4. {hooks[k] : k \in {k \in DOMAIN hooks : hooks[k].fn = 1}} = HooksOf(decl, 1)
  <2>1. HooksOf(decl, 1) = UNION {MadeAt(decl, 1, k) : k \in Done}
    BY DEF HooksOf, ComMethod, Decls
  <2>2. \A h : h \in HooksOf(decl, 1) <=> \E k \in Done : h \in MadeAt(decl, 1, k)
    BY <2>1
  <2>3. \A h : (\E k \in Done : h \in MadeAt(decl, 1, k)) <=> \E j \in DOMAIN hooks : h = hooks[j]
    <3>1. ASSUME NEW k \in Done, NEW h \in MadeAt(decl, 1, k)
          PROVE  \E j \in DOMAIN hooks : h = hooks[j]
      <4>1. PICK j \in DOMAIN hooks : pos[j] = k
        BY <1>1 DEF Accounts
      <4>2. QED
        BY <1>2, <3>1, <4>1
    <3>2. ASSUME NEW j \in DOMAIN hooks
          PROVE  \E k \in Done : hooks[j] \in MadeAt(decl, 1, k)
      BY <1>2
    <3>3. QED
      BY <3>1, <3>2
  <2>4. \A h : h \in {hooks[k] : k \in {k \in DOMAIN hooks : hooks[k].fn = 1}}
               <=> \E j \in DOMAIN hooks : h = hooks[j]
    BY <1>2
  <2>5. QED
    BY <2>2, <2>3, <2>4
<1>5. \A j, k \in DOMAIN hooks : hooks[j] = hooks[k] => j = k
  BY DEF Compiles
<1>6. Owned
  <2>1. ASSUME NEW k \in DOMAIN hooks, \A l \in 1 .. (k - 1) : hooks[l].fn # 1
        PROVE  Owns(body[1], hooks[k])
    <3>1. IsList(hooks) /\ DOMAIN hooks = 1 .. Len(hooks) /\ Len(hooks) \in Nat
      BY ListFacts DEF FnInv, FnHooks
    <3>2. k = 1
      BY <1>2, <2>1, <3>1
    <3>3. hooks # <<>>
      BY <3>1
    <3>4. QED
      BY <3>2, <3>3 DEF FnInv, FnBody
  <2>2. QED
    BY <1>3, <2>1 DEF Owned
<1>7. QED
  BY <1>3, <1>4, <1>5, <1>6 DEF Generated

\* A function that compiles has at most one observer, the one it declares.
LEMMA FnReported ==
  ASSUME Declaration(decl), decl.group = <<>>, FnInv, Defined = Defines, Compiles
  PROVE  Reported
<1> SUFFICES ASSUME NEW k \in Defines
             PROVE  observers = <<Meaning(Written[k])["default"]>>
  BY DEF Reported
<1>1. /\ IsList(observers)
      /\ \A j \in DOMAIN observers : \E l \in Defines : observers[j] = Meaning(Written[l])["default"]
      /\ Len(observers) # 0
      /\ Len(observers) <= 1 <=> \A m, l \in Defines : m = l
  BY DEF FnInv, FnObservers
<1>2. Len(observers) \in Nat /\ DOMAIN observers = 1 .. Len(observers)
  BY <1>1, ListFacts
<1>3. Len(observers) <= 1
  BY DEF Compiles
<1>4. Len(observers) = 1 /\ 1 \in DOMAIN observers
  BY <1>1, <1>2, <1>3
<1>5. observers[1] = Meaning(Written[k])["default"]
  BY <1>1, <1>3, <1>4
<1>6. observers \in Seq({observers[j] : j \in DOMAIN observers})
  BY <1>1 DEF IsList
<1>7. observers = <<observers[1]>>
  BY <1>4, <1>6
<1>8. QED
  BY <1>5, <1>7

\* When no macro is left, what is there compiles if and only if the declaration
\* is acceptable.
LEMMA FnCompiles ==
  ASSUME Declaration(decl), decl.group = <<>>, FnInv, Pending = {}
  PROVE  /\ Done = Decls /\ Defined = Defines
         /\ Compiles <=> Acceptable(decl)
<1>1. \A k \in There : Written[k].path \notin Macro \/ (Written[k].path = "observe" /\ WellFormed(Written[k]))
  <2>1. \A k \in There : attrs[1][k].path \notin Macro
    BY DEF Pending, Among, There
  <2>2. QED
    BY <2>1 DEF FnInv, FnShape, Stands
<1>2. Done = Decls /\ Defined = Defines
  BY <1>1, FnStatic DEF Done, Defined, Macro, HookPath
<1>3. FnAcceptable(decl, 1)
  <2>1. \A k \in Decls : WellFormed(Written[k])
    BY <1>2 DEF FnInv, FnDone
  <2>2. \A k \in Watches : WellFormed(Written[k])
    <3>1. CASE Done = {}
      <4>1. Watches \subseteq There
        BY <3>1 DEF FnInv, FnDone
      <4>2. QED
        BY <1>1, <4>1, FnStatic DEF Macro
    <3>2. CASE Done # {}
      BY <3>2 DEF FnInv, FnDone
    <3>3. QED
      BY <3>1, <3>2
  <2>3. ASSUME Hooked(decl, 1)
        PROVE  /\ Hookable(decl.fns[1])
               /\ \A k, l \in Watches : k = l
               /\ \A k \in Decls : MadeAt(decl, 1, k) # {}
               /\ HooksOf(decl, 1) # {}
    <3>1. Decls # {}
      BY <2>3 DEF Hooked, ComMethod, Decls
    <3>2. Hookable(decl.fns[1]) /\ \A k, l \in Watches : k = l
      BY <1>2, <3>1 DEF FnInv, FnDone
    <3>3. \A k \in Decls : MadeAt(decl, 1, k) # {}
      BY <1>2 DEF FnInv, FnHooks, Accounts
    <3>4. HooksOf(decl, 1) = UNION {MadeAt(decl, 1, k) : k \in Decls}
      BY DEF HooksOf, ComMethod, Decls
    <3>5. QED
      BY <3>1, <3>2, <3>3, <3>4
  <2>4. QED
    BY <2>1, <2>2, <2>3 DEF FnAcceptable, Decls, Watches, Written
<1>4. (\A j, k \in DOMAIN hooks : hooks[j].kind = hooks[k].kind => j = k)
        <=> \A k, l \in Decls : GrammarOf(Written[k].path) = GrammarOf(Written[l].path) => k = l
  <2>1. PICK pos : Accounts(pos)
    BY DEF FnInv, FnHooks
  <2>2. \A j \in DOMAIN hooks : /\ pos[j] \in Decls
                                /\ hooks[j].kind = GrammarOf(Written[pos[j]].path)
    BY <1>2, <2>1, FnPlaced DEF FnInv
  <2>3. /\ \A j, k \in DOMAIN hooks : pos[j] = pos[k] => j = k
        /\ \A k \in Decls : \E j \in DOMAIN hooks : pos[j] = k
    BY <1>2, <2>1 DEF Accounts
  <2>4. QED
    BY <2>2, <2>3
<1>5. Len(observers) <= 1 /\ (observers # <<>> => decl.fns[1].sig = {"no abi", "safe"})
        <=> ObserverAcceptable(decl.fns[1])
  <2>1. observers # <<>> <=> Len(observers) # 0
    BY DEF FnInv, FnObservers, IsList
  <2>2. /\ \A k \in Defines : /\ WellFormed(Written[k])
                              /\ IsMode(SlotOr(Meaning(Written[k]), "default", Nothing))
        /\ Len(observers) = 0 <=> Defines = {}
        /\ Len(observers) <= 1 <=> \A k, l \in Defines : k = l
    BY <1>2 DEF FnInv, FnObservers
  <2>3. ObserverAcceptable(decl.fns[1]) <=>
          \A k \in Defines : /\ Defines = {k}
                             /\ WellFormed(Written[k])
                             /\ IsMode(SlotOr(Meaning(Written[k]), "default", Nothing))
                             /\ decl.fns[1].sig = {"no abi", "safe"}
    BY DEF ObserverAcceptable, Defines, Written
  <2>4. QED
    BY <2>1, <2>2, <2>3
<1>6. Compiles <=> /\ \A j, k \in DOMAIN hooks : hooks[j].kind = hooks[k].kind => j = k
                   /\ Len(observers) <= 1
                   /\ observers # <<>> => decl.fns[1].sig = {"no abi", "safe"}
  BY DEF Compiles
<1>7. Acceptable(decl) <=>
        /\ FnAcceptable(decl, 1)
        /\ ObserverAcceptable(decl.fns[1])
        /\ \A k, l \in Decls : GrammarOf(Written[k].path) = GrammarOf(Written[l].path) => k = l
  BY DEF Acceptable, Decls, Written
<1>8. QED
  BY <1>2, <1>3, <1>4, <1>5, <1>6, <1>7

------------------------------------------------------------------------------
(* The methods of an impl block.                                             *)

\* The invariant of an impl block: its methods up to `at` are expanded, or have
\* no hook, and the others are untouched.
HooksAt(i) == {hooks[k] : k \in {k \in DOMAIN hooks : hooks[k].fn = i}}

Untouched(i) == attrs[i] = decl.fns[i].attrs /\ body[i] = <<>>

\* A method that has been expanded.
Expanded(i) ==
  /\ FnAcceptable(decl, i)
  /\ DOMAIN attrs[i] = {k \in DOMAIN decl.fns[i].attrs :
                          decl.fns[i].attrs[k].path \notin OwnPaths(decl) \cup {"observe"}}
  /\ \A k \in DOMAIN attrs[i] : attrs[i][k] = decl.fns[i].attrs[k]
  /\ HooksAt(i) = HooksOf(decl, i)
  /\ \A hook \in HooksAt(i) : Owns(body[i], hook)

Passed(i) == IF Hooked(decl, i) THEN Expanded(i) ELSE Untouched(i) /\ HooksAt(i) = {}

MethodShape ==
  /\ DOMAIN attrs = Fns /\ DOMAIN body = Fns
  /\ at \in 0 .. Len(decl.fns) + 1
  /\ observers = <<>>
  /\ at # 0 => WellFormed(Group) /\ ~decl.trait

MethodHooks ==
  /\ IsList(hooks)
  /\ \A j \in DOMAIN hooks : hooks[j].fn \in 1 .. (at - 1)
  /\ \A j, k \in DOMAIN hooks : hooks[j].fn = hooks[k].fn => j = k

MethodInv ==
  /\ MethodShape
  /\ MethodHooks
  /\ \A i \in Fns : IF i < at THEN Passed(i) ELSE Untouched(i)

\* An impl block, its attribute and its methods.
LEMMA GroupStatic ==
  ASSUME Declaration(decl), decl.group # <<>>
  PROVE  /\ Group.path \in {"com_impl", "objc_impl"} /\ IsList(Group.args)
         /\ Len(decl.fns) \in Nat /\ Fns = 1 .. Len(decl.fns)
         /\ ComMethod(decl) <=> Group.path = "com_impl"
         /\ OwnPaths(decl) = IF Group.path = "com_impl" THEN {"com"} ELSE {"instance", "class"}
         /\ ContextOf(decl) = Meaning(Group)
         /\ WellFormed(Group) <=> Context.ok /\ Group.form = "list"
         /\ WellFormed(Group) => Context.slots = ContextOf(decl)
<1>1. IsList(decl.group) /\ Len(decl.group) <= 1 /\ IsList(decl.fns)
  BY DEF Declaration, Attribute
<1>2. 1 \in DOMAIN decl.group
  BY <1>1 DEF IsList
<1>3. Group.path \in {"com_impl", "objc_impl"} /\ IsList(Group.args)
  BY <1>2 DEF Declaration, Attribute, Group
<1>4. Len(decl.fns) \in Nat /\ Fns = 1 .. Len(decl.fns)
  BY <1>1, ListFacts DEF Fns
<1>5. ComMethod(decl) <=> Group.path = "com_impl"
  BY DEF ComMethod, Group
<1>6. ContextOf(decl) = Meaning(Group)
  BY DEF ContextOf, Group
<1>7. Context = Parse(Group.path, Group.args)
  BY <1>3 DEF Context
<1>8. /\ WellFormed(Group) <=> Context.ok /\ Group.form = "list"
      /\ WellFormed(Group) => Context.slots = Meaning(Group)
  BY <1>3, <1>7, AttributeParsed DEF Grammar
<1>9. QED
  BY <1>3, <1>4, <1>5, <1>6, <1>8 DEF OwnPaths

\* The attributes of a method.
LEMMA MethodStatic ==
  ASSUME Declaration(decl), decl.group # <<>>, NEW i \in Fns
  PROVE  LET list == decl.fns[i].attrs
             own  == Among(list, OwnPaths(decl))
         IN  /\ DOMAIN list \in SUBSET Nat
             /\ \A k \in DOMAIN list : list[k].path # "marker" /\ IsList(list[k].args)
             /\ Declaring(decl, i) = IF own = {} THEN {} ELSE {First(own)}
             /\ own # {} => First(own) \in own
             /\ Watching(decl, i) = {k \in DOMAIN list : list[k].path = "observe"}
             /\ Hooked(decl, i) <=> own # {} \/ ComMethod(decl)
<1> DEFINE list == decl.fns[i].attrs
           own  == Among(list, OwnPaths(decl))
<1>1. /\ DOMAIN list \in SUBSET Nat
      /\ \A k \in DOMAIN list : list[k].path # "marker" /\ IsList(list[k].args)
  BY DeclarationProps DEF Fns
<1>2. own \in SUBSET Nat
  BY <1>1 DEF Among
<1>3. Declaring(decl, i) = {k \in own : \A l \in own : k <= l}
  BY DEF Declaring
<1>4. Watching(decl, i) = {k \in DOMAIN list : list[k].path = "observe"}
  BY DEF Watching, Among
<1> HIDE DEF own
<1>5. own # {} => First(own) \in own /\ \A l \in own : First(own) <= l
  BY <1>2, FirstProps
<1>6. own # {} => {k \in own : \A l \in own : k <= l} = {First(own)}
  <2> SUFFICES ASSUME own # {} PROVE \A k \in own : (\A l \in own : k <= l) <=> k = First(own)
    BY <1>5
  <2> TAKE k \in own
  <2>1. First(own) \in own /\ (\A l \in own : First(own) <= l) /\ First(own) \in Nat /\ k \in Nat
    BY <1>2, <1>5
  <2>2. (\A l \in own : k <= l) => k <= First(own) /\ First(own) <= k
    BY <2>1
  <2>3. QED
    BY <2>1, <2>2
<1>7. own = {} => {k \in own : \A l \in own : k <= l} = {}
  OBVIOUS
<1>8. Declaring(decl, i) = IF own = {} THEN {} ELSE {First(own)}
  BY <1>3, <1>6, <1>7
<1>9. Hooked(decl, i) <=> own # {} \/ ComMethod(decl)
  BY <1>8 DEF Hooked
<1>10. QED
  BY <1>1, <1>4, <1>5, <1>8, <1>9 DEF own

\* One method that is not acceptable makes the block so.
LEMMA MethodRefused ==
  ASSUME Declaration(decl), decl.group # <<>>, NEW i \in Fns, ~FnAcceptable(decl, i)
  PROVE  ~Acceptable(decl)
BY DEF Acceptable, Fns

\* What is observed on a method does not depend on what is taken off it.
LEMMA MethodTaken ==
  ASSUME Declaration(decl), decl.group # <<>>, at \in Fns, Untouched(at)
  PROVE  LET left == Left(OwnPaths(decl))
             list == decl.fns[at].attrs
         IN  /\ DOMAIN left = {k \in DOMAIN list : list[k].path \notin OwnPaths(decl)}
             /\ \A k \in DOMAIN left : left[k] = list[k]
             /\ Observing(left) = Watching(decl, at)
             /\ Taken(left).ok <=> /\ \A k, l \in Watching(decl, at) : k = l
                                   /\ \A k \in Watching(decl, at) : WellFormed(list[k])
             /\ Taken(left).ok => Taken(attrs[at]).of = Observed(decl, at)
<1> DEFINE left == Left(OwnPaths(decl))
           list == decl.fns[at].attrs
<1>1. /\ attrs[at] = list
      /\ \A k \in DOMAIN list : list[k].path # "marker" /\ IsList(list[k].args)
      /\ Watching(decl, at) = {k \in DOMAIN list : list[k].path = "observe"}
  BY MethodStatic DEF Untouched
<1>2. /\ DOMAIN left = {k \in DOMAIN list : list[k].path \notin OwnPaths(decl)}
      /\ \A k \in DOMAIN left : left[k] = list[k]
  BY <1>1 DEF Left, Own, Without, Among
<1>3. "observe" \notin OwnPaths(decl)
  BY DEF OwnPaths
<1>4. Observing(left) = Watching(decl, at) /\ Observing(list) = Watching(decl, at)
  BY <1>1, <1>2, <1>3 DEF Observing, Among
<1>5. \A k \in Observing(left) : /\ Stands(left[k], list[k]) /\ Stands(list[k], list[k])
                                 /\ list[k].path = "observe" /\ IsList(list[k].args)
  BY <1>1, <1>2, <1>3, <1>4 DEF Stands
<1> HIDE DEF left
<1>6. Taken(left).ok <=> /\ \A k, l \in Observing(left) : k = l
                         /\ \A k \in Observing(left) : WellFormed(list[k])
  BY <1>5, TakenProps
<1>7. /\ Taken(list).ok <=> /\ \A k, l \in Observing(list) : k = l
                            /\ \A k \in Observing(list) : WellFormed(list[k])
      /\ Taken(list).ok => Taken(list).of = {Meaning(list[k]) : k \in Observing(list)}
  BY <1>4, <1>5, TakenProps
<1>8. Taken(left).ok => Taken(attrs[at]).of = Observed(decl, at)
  BY <1>1, <1>4, <1>6, <1>7 DEF Observed
<1>9. QED
  BY <1>2, <1>4, <1>6, <1>8 DEF left

------------------------------------------------------------------------------

\* The leading attribute of the method that is expanded next, and what it makes.
Lead == decl.fns[at].attrs[First(Among(decl.fns[at].attrs, OwnPaths(decl)))]
Led  == Among(decl.fns[at].attrs, OwnPaths(decl)) # {}

\* The leading attribute can be read, where it stands.
LeadReads == WellFormed(Lead) /\ (ComMethod(decl) \/ ~Lead.comma)

MethodPath  == IF Led THEN Lead.path ELSE "com"
MethodSaid  == IF Led THEN Meaning(Lead) ELSE NoSlots
MethodMakes == Made(decl, at, MethodPath, MethodSaid, Taken(attrs[at]).of)

\* A step leads to a refusal that is due, or on.
MethodStep == /\ decl' = decl
              /\ \/ status' = "error" /\ ~Acceptable(decl)
                 \/ status' = "expanding" /\ MethodInv'

\* The hooks of a method are what its leading attribute makes, or the defaults.
LEMMA MethodMade ==
  ASSUME Declaration(decl), decl.group # <<>>, at \in Fns, Hooked(decl, at)
  PROVE  /\ MethodPath \in HookPath
         /\ HooksOf(decl, at) = Made(decl, at, MethodPath, MethodSaid, Observed(decl, at))
         /\ \A k \in Declaring(decl, at) : /\ Led /\ decl.fns[at].attrs[k] = Lead
                                           /\ MadeAt(decl, at, k) = HooksOf(decl, at)
         /\ Led => First(Among(decl.fns[at].attrs, OwnPaths(decl))) \in Declaring(decl, at)
<1> DEFINE list == decl.fns[at].attrs
           own  == Among(list, OwnPaths(decl))
           k == First(own)
<1>1. CASE ~Led
  <2>1. Declaring(decl, at) = {} /\ ComMethod(decl)
    BY <1>1, MethodStatic DEF Led
  <2>2. HooksOf(decl, at) = Made(decl, at, "com", NoSlots, Observed(decl, at))
    BY <2>1 DEF HooksOf
  <2>3. QED
    BY <1>1, <2>1, <2>2 DEF MethodPath, MethodSaid, HookPath
<1>2. CASE Led
  <2>1. Declaring(decl, at) = {k} /\ k \in own /\ DOMAIN list \in SUBSET Nat
    BY <1>2, MethodStatic DEF Led
  <2>2. Lead = list[k] /\ Lead.path \in OwnPaths(decl) /\ k \in Nat
    BY <2>1 DEF Lead, Among
  <2>3. Lead.path \in HookPath
    BY <2>2 DEF OwnPaths, HookPath
  <2> HIDE DEF k
  <2>4. MadeAt(decl, at, k) = Made(decl, at, Lead.path, Meaning(Lead), Observed(decl, at))
    <3>1. \A l \in Declaring(decl, at) : k <= l
      BY <2>1, <2>2
    <3>2. QED
      BY <2>2, <3>1 DEF MadeAt
  <2>5. HooksOf(decl, at) = MadeAt(decl, at, k)
    <3>1. HooksOf(decl, at) = UNION {MadeAt(decl, at, l) : l \in Declaring(decl, at)}
      BY <2>1 DEF HooksOf
    <3>2. QED
      BY <2>1, <3>1
  <2>6. QED
    BY <1>2, <2>1, <2>2, <2>3, <2>4, <2>5 DEF MethodPath, MethodSaid, k
<1>3. QED
  BY <1>1, <1>2

\* A method that is refused is refused rightly.
LEMMA MethodEmitFails ==
  ASSUME Declaration(decl), decl.group # <<>>, at \in Fns, Untouched(at), Hooked(decl, at),
         MethodMakes = {} \/ ~Hookable(decl.fns[at]) \/ ~Taken(Left(OwnPaths(decl))).ok
  PROVE  ~Acceptable(decl)
<1>1. CASE MethodMakes = {}
  <2>1. HooksOf(decl, at) = {}
    BY <1>1, MethodMade, MadeProps DEF MethodMakes
  <2>2. QED
    BY <2>1, MethodRefused DEF FnAcceptable
<1>2. CASE ~Hookable(decl.fns[at])
  BY <1>2, MethodRefused DEF FnAcceptable
<1>3. CASE ~Taken(Left(OwnPaths(decl))).ok
  <2>1. ~(/\ \A k, l \in Watching(decl, at) : k = l
          /\ \A k \in Watching(decl, at) : WellFormed(decl.fns[at].attrs[k]))
    BY <1>3, MethodTaken
  <2>2. QED
    BY <2>1, MethodRefused DEF FnAcceptable
<1>4. QED
  BY <1>1, <1>2, <1>3

\* A method that is not refused is expanded.
LEMMA MethodEmits ==
  ASSUME Declaration(decl), decl.group # <<>>, MethodInv, status = "expanding",
         at \in Fns, Hooked(decl, at), Led => LeadReads,
         MethodMakes # {}, Hookable(decl.fns[at]), Taken(Left(OwnPaths(decl))).ok,
         Emit(at, MethodMakes, Left(OwnPaths(decl)))
  PROVE  MethodInv' /\ status' = "expanding" /\ decl' = decl
<1> DEFINE left == Left(OwnPaths(decl))
           list == decl.fns[at].attrs
<1>1. PICK hook \in MethodMakes :
        /\ hooks' = Append(hooks, hook)
        /\ Rewrite(at, hook)
        /\ attrs' = [attrs EXCEPT ![at] = Without(left, Observing(left))]
        /\ at' = IF at = 0 THEN 0 ELSE at + 1
        /\ UNCHANGED <<decl, observers, status>>
  BY DEF Emit
<1>2. PICK i \in Fns : i = at
  OBVIOUS
<1>3. /\ Len(decl.fns) \in Nat /\ Fns = 1 .. Len(decl.fns) /\ Fns' = Fns
      /\ i \in 1 .. Len(decl.fns) /\ at' = i + 1
  BY <1>1, <1>2, GroupStatic DEF Fns
<1>4. /\ MethodShape /\ MethodHooks
      /\ DOMAIN attrs = Fns /\ DOMAIN body = Fns
      /\ Untouched(i) /\ attrs[i] = list /\ body[i] = <<>>
  BY <1>2 DEF MethodInv, MethodShape, Untouched
<1>5. Single(MethodMakes, at, GrammarOf(MethodPath), Taken(attrs[at]).of)
  BY MethodMade, MadeProps DEF MethodMakes
<1>6. hook.fn = i /\ MethodMakes = {hook}
  BY <1>1, <1>2, <1>5 DEF Single
<1>7. MethodMakes = HooksOf(decl, i)
  BY <1>2, <1>4, MethodMade, MethodTaken DEF MethodMakes
<1>8. /\ IsList(hooks') /\ IsList(hooks)
      /\ DOMAIN hooks' = DOMAIN hooks \cup {Len(hooks) + 1}
      /\ hooks'[Len(hooks) + 1] = hook /\ Len(hooks) + 1 \notin DOMAIN hooks
      /\ \A j \in DOMAIN hooks : hooks'[j] = hooks[j]
  <2>1. IsList(hooks) /\ DOMAIN hooks = 1 .. Len(hooks) /\ Len(hooks) \in Nat
    BY <1>4, ListFacts DEF MethodHooks
  <2>2. /\ IsList(hooks') /\ DOMAIN hooks' = 1 .. Len(hooks) + 1
        /\ hooks'[Len(hooks) + 1] = hook
        /\ \A j \in DOMAIN hooks : hooks'[j] = hooks[j]
    BY <1>1, <2>1, AppendFacts
  <2>3. 1 .. Len(hooks) + 1 = 1 .. Len(hooks) \cup {Len(hooks) + 1} /\ Len(hooks) + 1 \notin 1 .. Len(hooks)
    BY <2>1
  <2>4. QED
    BY <2>1, <2>2, <2>3
<1>9. \A j \in DOMAIN hooks : hooks[j].fn \in 1 .. (i - 1)
  BY <1>2, <1>4 DEF MethodHooks
<1>10. MethodHooks'
  <2>1. \A j \in DOMAIN hooks' : hooks'[j].fn \in 1 .. (at' - 1)
    BY <1>3, <1>6, <1>8, <1>9
  <2>2. \A j, k \in DOMAIN hooks' : hooks'[j].fn = hooks'[k].fn => j = k
    <3>1. \A j \in DOMAIN hooks : hooks[j].fn # i
      BY <1>3, <1>9
    <3>2. QED
      BY <1>4, <1>6, <1>8, <3>1 DEF MethodHooks
  <2>3. QED
    BY <1>8, <2>1, <2>2 DEF MethodHooks
<1>11. MethodShape'
  <2>1. DOMAIN attrs' = Fns' /\ DOMAIN body' = Fns'
    BY <1>1, <1>3, <1>4 DEF Rewrite
  <2>2. at' \in 0 .. Len(decl'.fns) + 1 /\ at # 0
    BY <1>1, <1>2, <1>3
  <2>3. QED
    BY <1>1, <1>4, <2>1, <2>2 DEF MethodShape, Group
<1>12. FnAcceptable(decl, i)
  <2>1. \A k \in Declaring(decl, i) : /\ WellFormed(decl.fns[i].attrs[k])
                                      /\ ComMethod(decl) \/ ~decl.fns[i].attrs[k].comma
                                      /\ MadeAt(decl, i, k) # {}
    BY <1>2, <1>7, MethodMade DEF LeadReads
  <2>2. /\ \A k, l \in Watching(decl, i) : k = l
        /\ \A k \in Watching(decl, i) : WellFormed(decl.fns[i].attrs[k])
    BY <1>2, <1>4, MethodTaken
  <2>3. QED
    BY <1>2, <1>7, <2>1, <2>2 DEF FnAcceptable
<1>13. /\ HooksAt(i)' = {hook}
       /\ \A k \in Fns \ {i} : HooksAt(k)' = HooksAt(k)
  <2>1. \A j \in DOMAIN hooks : hooks[j].fn # i
    BY <1>3, <1>9
  <2>2. HooksAt(i)' = {hook}
    BY <1>6, <1>8, <2>1 DEF HooksAt
  <2>3. ASSUME NEW k \in Fns \ {i} PROVE HooksAt(k)' = HooksAt(k)
    BY <1>6, <1>8, <2>3 DEF HooksAt
  <2>4. QED
    BY <2>2, <2>3
<1>14. Expanded(i)'
  <2>1. attrs'[i] = Without(left, Observing(left))
    BY <1>1, <1>2, <1>4
  <2>2. /\ DOMAIN left = {k \in DOMAIN list : list[k].path \notin OwnPaths(decl)}
        /\ \A k \in DOMAIN left : left[k] = list[k]
        /\ Observing(left) = {k \in DOMAIN list : list[k].path = "observe"}
    BY <1>2, <1>4, MethodTaken, MethodStatic
  <2> HIDE DEF left
  <2>3. /\ DOMAIN attrs'[i] = {k \in DOMAIN list : list[k].path \notin OwnPaths(decl) \cup {"observe"}}
        /\ \A k \in DOMAIN attrs'[i] : attrs'[i][k] = list[k]
    BY <2>1, <2>2 DEF Without
  <2>4. body'[i] = FirstLayers(hook)
    BY <1>1, <1>2, <1>4 DEF Rewrite, FirstLayers
  <2>5. \A other \in HooksAt(i)' : Owns(body'[i], other)
    BY <1>13, <2>4, BodyFirst
  <2>6. FnAcceptable(decl', i) /\ HooksAt(i)' = HooksOf(decl', i)
    BY <1>1, <1>6, <1>7, <1>12, <1>13
  <2>7. decl'.fns[i].attrs = list /\ OwnPaths(decl') = OwnPaths(decl)
    BY <1>1, <1>2
  <2>8. QED
    BY <2>3, <2>5, <2>6, <2>7 DEF Expanded
<1>15. ASSUME NEW k \in Fns
       PROVE  IF k < at' THEN Passed(k)' ELSE Untouched(k)'
  <2>1. CASE k = i
    BY <1>1, <1>2, <1>3, <1>14, <2>1 DEF Passed
  <2>2. CASE k # i
    <3>1. attrs'[k] = attrs[k] /\ body'[k] = body[k] /\ decl' = decl /\ HooksAt(k)' = HooksAt(k)
      BY <1>1, <1>2, <1>4, <1>13, <2>2 DEF Rewrite
    <3>2. k < at' <=> k < at
      BY <1>2, <1>3, <2>2
    <3>3. Passed(k) => Passed(k)'
      BY <3>1 DEF Passed, Expanded, Untouched
    <3>4. Untouched(k) => Untouched(k)'
      BY <3>1 DEF Untouched
    <3>5. QED
      BY <3>2, <3>3, <3>4 DEF MethodInv
  <2>3. QED
    BY <2>1, <2>2
<1>16. QED
  BY <1>1, <1>3, <1>10, <1>11, <1>15 DEF MethodInv

\* The leading attribute is read, and then the method is refused or expanded.
LEMMA MethodEmit ==
  ASSUME Declaration(decl), decl.group # <<>>, MethodInv, status = "expanding",
         at \in Fns, Hooked(decl, at),
         IF Led /\ ~LeadReads THEN Fail ELSE Emit(at, MethodMakes, Left(OwnPaths(decl)))
  PROVE  MethodStep
<1>1. Untouched(at)
  <2>1. ~(at < at)
    BY GroupStatic
  <2>2. QED
    BY <2>1 DEF MethodInv
<1>2. CASE Led /\ ~LeadReads
  <2>1. ~FnAcceptable(decl, at)
    BY <1>2, MethodMade DEF FnAcceptable, LeadReads
  <2>2. QED
    BY <1>2, <2>1, MethodRefused DEF Fail, MethodStep
<1>3. CASE /\ ~(Led /\ ~LeadReads)
           /\ MethodMakes = {} \/ ~Hookable(decl.fns[at]) \/ ~Taken(Left(OwnPaths(decl))).ok
  <2>1. Fail
    BY <1>3 DEF Emit
  <2>2. ~Acceptable(decl)
    BY <1>1, <1>3, MethodEmitFails
  <2>3. QED
    BY <2>1, <2>2 DEF Fail, MethodStep
<1>4. CASE /\ ~(Led /\ ~LeadReads)
           /\ MethodMakes # {} /\ Hookable(decl.fns[at]) /\ Taken(Left(OwnPaths(decl))).ok
  BY <1>4, MethodEmits DEF MethodStep
<1>5. QED
  BY <1>2, <1>3, <1>4

\* The attribute of the impl block.
LEMMA MethodOpens ==
  ASSUME Declaration(decl), decl.group # <<>>, MethodInv, OpenImpl
  PROVE  MethodStep
<1>1. status = "expanding" /\ at = 0
  BY DEF OpenImpl
<1>2. CASE ~Context.ok \/ Group.form # "list" \/ decl.trait
  <2>1. ~Acceptable(decl)
    BY <1>2, GroupStatic DEF Acceptable, Group
  <2>2. QED
    BY <1>2, <2>1 DEF OpenImpl, Fail, MethodStep
<1>3. CASE ~(~Context.ok \/ Group.form # "list" \/ decl.trait)
  <2>1. at' = 1 /\ UNCHANGED <<decl, attrs, body, hooks, observers, status>>
    BY <1>3 DEF OpenImpl
  <2>2. WellFormed(Group) /\ ~decl.trait
    BY <1>3, GroupStatic
  <2>3. Len(decl.fns) \in Nat /\ Fns = 1 .. Len(decl.fns) /\ Fns' = Fns /\ Group' = Group
    BY <2>1, GroupStatic DEF Fns, Group
  <2>4. MethodShape'
    <3>1. at' \in 0 .. Len(decl.fns) + 1
      BY <2>1, <2>3
    <3>2. QED
      BY <2>1, <2>2, <2>3, <3>1 DEF MethodInv, MethodShape
  <2>5. MethodHooks'
    <3>1. \A j \in DOMAIN hooks : FALSE
      BY <1>1 DEF MethodInv, MethodHooks
    <3>2. QED
      BY <2>1, <3>1 DEF MethodInv, MethodHooks
  <2>6. ASSUME NEW i \in Fns PROVE ~(i < at') /\ Untouched(i)'
    <3>1. Untouched(i)
      BY <1>1, <2>3 DEF MethodInv
    <3>2. QED
      BY <2>1, <2>3, <3>1 DEF Untouched
  <2>7. QED
    BY <1>1, <2>1, <2>3, <2>4, <2>5, <2>6 DEF MethodInv, MethodStep
<1>4. QED
  BY <1>2, <1>3

\* A method of a COM block.
LEMMA MethodCom ==
  ASSUME Declaration(decl), decl.group # <<>>, MethodInv, ExpandComMethod
  PROVE  MethodStep
<1> DEFINE own == Own({"com"})
           parsed == Parse("com", IF own = {} THEN <<>> ELSE Leading({"com"}).args)
           made == HookCom(parsed.slots, at, Context.slots, Taken(attrs[at]).of)
<1>1. /\ status = "expanding" /\ at \in Fns /\ Group.path = "com_impl"
      /\ IF ~parsed.ok \/ (own # {} /\ Leading({"com"}).form # "list") THEN Fail
         ELSE Emit(at, made, Left({"com"}))
  BY DEF ExpandComMethod, AtMethod
<1>2. /\ OwnPaths(decl) = {"com"} /\ ComMethod(decl) /\ at # 0 /\ ~(at < at)
      /\ WellFormed(Group) /\ Context.slots = ContextOf(decl)
  BY <1>1, GroupStatic DEF MethodInv, MethodShape
<1>3. attrs[at] = decl.fns[at].attrs
  BY <1>1, <1>2 DEF MethodInv, Untouched
<1>4. /\ own = Among(decl.fns[at].attrs, OwnPaths(decl))
      /\ own # {} => Leading({"com"}) = Lead
      /\ Led <=> own # {}
  BY <1>2, <1>3 DEF Own, Leading, Lead, Led
<1>5. Hooked(decl, at)
  BY <1>1, <1>2, MethodStatic
<1>6. CASE ~Led
  <2>1. IsList(<<>>) /\ DOMAIN <<>> = {}
    BY DEF IsList
  <2>2. Readable("com", <<>>)
    BY <2>1 DEF Readable, PositionalFirst, Distinct
  <2>3. Says("com", <<>>) = NoSlots
    BY <2>1 DEF Says, NoSlots
  <2>4. Parse("com", <<>>).ok /\ Parse("com", <<>>).slots = NoSlots
    BY <2>1, <2>2, <2>3, ParserExact DEF Grammar
  <2>5. parsed = Parse("com", <<>>)
    BY <1>4, <1>6
  <2>6. MethodMakes = made
    BY <1>2, <1>6, <2>4, <2>5 DEF MethodMakes, MethodPath, MethodSaid, Made, MadeIn
  <2>7. QED
    BY <1>1, <1>2, <1>4, <1>5, <1>6, <2>4, <2>5, <2>6, MethodEmit
<1>7. CASE Led
  <2>1. Lead.path = "com" /\ IsList(Lead.args)
    <3>1. First(own) \in own
      BY <1>1, <1>4, <1>7, MethodStatic
    <3>2. First(own) \in DOMAIN decl.fns[at].attrs /\ decl.fns[at].attrs[First(own)].path = "com"
      BY <1>3, <3>1 DEF Own, Among
    <3>3. IsList(decl.fns[at].attrs[First(own)].args)
      BY <1>1, <3>2, MethodStatic
    <3>4. QED
      BY <1>4, <3>2, <3>3 DEF Lead
  <2>2. parsed = Parse("com", Lead.args)
    BY <1>4, <1>7
  <2>3. /\ WellFormed(Lead) <=> parsed.ok /\ Lead.form = "list"
        /\ WellFormed(Lead) => parsed.slots = Meaning(Lead)
    BY <2>1, <2>2, AttributeParsed DEF Grammar
  <2>4. WellFormed(Lead) => MethodMakes = made
    BY <1>2, <1>7, <2>1, <2>3 DEF MethodMakes, MethodPath, MethodSaid, Made, MadeIn
  <2>5. QED
    BY <1>1, <1>2, <1>4, <1>5, <1>7, <2>3, <2>4, MethodEmit DEF LeadReads
<1>8. QED
  BY <1>6, <1>7

\* A method of an Objective-C block with a hook attribute.
LEMMA MethodObjc ==
  ASSUME Declaration(decl), decl.group # <<>>, MethodInv, ExpandObjcMethod
  PROVE  MethodStep
<1> DEFINE paths == {"instance", "class"}
           leading == Leading(paths)
           kind == IF leading.path = "instance" THEN Instance ELSE Class
           parsed == Parse("objc", WithKind(leading.args, kind))
           made == HookObjc(MethodSlots(parsed.slots, Context.slots, at), at, Taken(attrs[at]).of)
<1>1. /\ status = "expanding" /\ at \in Fns /\ Group.path = "objc_impl" /\ Own(paths) # {}
      /\ IF ~parsed.ok \/ leading.form # "list" \/ leading.comma THEN Fail
         ELSE Emit(at, made, Left(paths))
  BY DEF ExpandObjcMethod, Combinable, AtMethod
<1>2. /\ OwnPaths(decl) = paths /\ ~ComMethod(decl) /\ at # 0 /\ ~(at < at)
      /\ WellFormed(Group) /\ Context.slots = ContextOf(decl)
  BY <1>1, GroupStatic DEF MethodInv, MethodShape
<1>3. attrs[at] = decl.fns[at].attrs
  BY <1>1, <1>2 DEF MethodInv, Untouched
<1>4. Own(paths) = Among(decl.fns[at].attrs, OwnPaths(decl)) /\ leading = Lead /\ Led
  BY <1>1, <1>2, <1>3 DEF Own, Leading, Lead, Led
<1>5. Hooked(decl, at)
  BY <1>1, <1>4, MethodStatic DEF Led
<1>6. Lead.path \in paths /\ IsList(Lead.args)
  <2> DEFINE k == First(Own(paths))
  <2>1. k \in Own(paths)
    BY <1>1, <1>4, MethodStatic
  <2>2. k \in DOMAIN decl.fns[at].attrs /\ decl.fns[at].attrs[k].path \in paths
    BY <1>3, <2>1 DEF Own, Among
  <2>3. IsList(decl.fns[at].attrs[k].args)
    BY <1>1, <2>2, MethodStatic
  <2>4. QED
    BY <1>4, <2>2, <2>3 DEF Lead
<1> HIDE DEF leading
<1>7. /\ WellFormed(Lead) <=> parsed.ok /\ Lead.form = "list"
      /\ WellFormed(Lead) => parsed.slots = Over(Meaning(Lead), [kind |-> kind])
  BY <1>4, <1>6, KindedParsed
<1>8. WellFormed(Lead) => MethodMakes = made
  BY <1>2, <1>4, <1>6, <1>7 DEF MethodMakes, MethodPath, MethodSaid, Made, MadeIn
<1>9. QED
  BY <1>1, <1>2, <1>4, <1>5, <1>7, <1>8, MethodEmit DEF LeadReads

\* A method of an Objective-C block without one.
LEMMA MethodSkipped ==
  ASSUME Declaration(decl), decl.group # <<>>, MethodInv, SkipMethod
  PROVE  MethodStep
<1>1. /\ status = "expanding" /\ at \in Fns /\ Group.path = "objc_impl" /\ Own({"instance", "class"}) = {}
      /\ at' = at + 1 /\ UNCHANGED <<decl, attrs, body, hooks, observers, status>>
  BY DEF SkipMethod, AtMethod
<1>2. /\ OwnPaths(decl) = {"instance", "class"} /\ ~ComMethod(decl)
      /\ Len(decl.fns) \in Nat /\ Fns = 1 .. Len(decl.fns) /\ Fns' = Fns /\ Group' = Group
  BY <1>1, GroupStatic DEF Fns, Group
<1>3. at \in Nat \ {0} /\ at <= Len(decl.fns) /\ ~(at < at)
  BY <1>1, <1>2
<1>4. Untouched(at)
  BY <1>1, <1>3 DEF MethodInv
<1>5. ~Hooked(decl, at)
  BY <1>1, <1>2, <1>4, MethodStatic DEF Untouched, Own
<1>6. HooksAt(at) = {}
  BY <1>3 DEF HooksAt, MethodInv, MethodHooks
<1>7. MethodShape' /\ MethodHooks'
  <2>1. at' \in 0 .. Len(decl.fns) + 1
    BY <1>1, <1>3
  <2>2. MethodShape'
    BY <1>1, <1>2, <1>3, <2>1 DEF MethodInv, MethodShape
  <2>3. \A j \in DOMAIN hooks : hooks[j].fn \in 1 .. (at' - 1)
    BY <1>1, <1>3 DEF MethodInv, MethodHooks
  <2>4. QED
    BY <1>1, <2>2, <2>3 DEF MethodInv, MethodHooks
<1>8. ASSUME NEW i \in Fns PROVE IF i < at' THEN Passed(i)' ELSE Untouched(i)'
  <2>1. /\ Passed(i) => Passed(i)'
        /\ Untouched(i) => Untouched(i)'
    BY <1>1 DEF Passed, Expanded, Untouched, HooksAt
  <2>2. i < at' <=> i < at \/ i = at
    BY <1>1, <1>2, <1>3
  <2>3. i = at => Passed(i)
    BY <1>4, <1>5, <1>6 DEF Passed
  <2>4. QED
    BY <2>1, <2>2, <2>3 DEF MethodInv
<1>9. QED
  BY <1>1, <1>2, <1>7, <1>8 DEF MethodInv, MethodStep

\* A block whose methods are expanded compiles if and only if its declaration is
\* acceptable, and then has what it declares.
LEMMA MethodCompiles ==
  ASSUME Declaration(decl), decl.group # <<>>, MethodInv, at = Len(decl.fns) + 1
  PROVE  /\ Compiles <=> Acceptable(decl)
         /\ Compiles => Generated /\ Owned
<1>1. /\ Len(decl.fns) \in Nat /\ Fns = 1 .. Len(decl.fns)
      /\ \A i \in Fns : i < at
  BY GroupStatic
<1>2. \A i \in Fns : Passed(i)
  BY <1>1 DEF MethodInv
<1>3. WellFormed(Group) /\ ~decl.trait /\ observers = <<>>
  BY <1>1 DEF MethodInv, MethodShape
<1> DEFINE clean(i) == \A k \in DOMAIN attrs[i] :
                         /\ attrs[i][k].path \notin HookPath \cup {"observer"}
                         /\ attrs[i][k].path = "observe" =>
                              attrs[i][k].form = "list" /\ Parse("observe", attrs[i][k].args).ok
           strange(i) == Among(decl.fns[i].attrs, (HookPath \cup {"observer"}) \ OwnPaths(decl))
<1>4. ASSUME NEW i \in Fns PROVE clean(i) <=> FnAcceptable(decl, i) /\ strange(i) = {}
  <2> DEFINE list == decl.fns[i].attrs
  <2>1. strange(i) = {k \in DOMAIN list : list[k].path \in (HookPath \cup {"observer"}) \ OwnPaths(decl)}
    BY DEF Among
  <2>2. OwnPaths(decl) \subseteq HookPath
    BY DEF OwnPaths, HookPath
  <2>3. CASE Hooked(decl, i)
    <3>1. Expanded(i)
      BY <1>2, <2>3 DEF Passed
    <3>2. /\ FnAcceptable(decl, i)
          /\ DOMAIN attrs[i] = {k \in DOMAIN list : list[k].path \notin OwnPaths(decl) \cup {"observe"}}
          /\ \A k \in DOMAIN attrs[i] : attrs[i][k] = list[k]
      BY <3>1 DEF Expanded
    <3>3. clean(i) <=> \A k \in DOMAIN list :
                         list[k].path \notin OwnPaths(decl) \cup {"observe"}
                           => list[k].path \notin HookPath \cup {"observer"}
      BY <3>2
    <3>4. "observe" \notin HookPath
      BY DEF HookPath
    <3> HIDE DEF clean, strange, list
    <3>5. QED
      BY <2>1, <3>2, <3>3, <3>4
  <2>4. CASE ~Hooked(decl, i)
    <3>1. attrs[i] = list
      BY <1>2, <2>4 DEF Passed, Untouched
    <3>2. /\ Among(list, OwnPaths(decl)) = {} /\ Declaring(decl, i) = {}
          /\ Watching(decl, i) = {k \in DOMAIN list : list[k].path = "observe"}
          /\ \A k \in DOMAIN list : IsList(list[k].args)
      BY <2>4, MethodStatic
    <3>3. \A k \in DOMAIN list : list[k].path \notin OwnPaths(decl)
      BY <3>2 DEF Among
    <3>4. \A k \in Watching(decl, i) :
            WellFormed(list[k]) <=> list[k].form = "list" /\ Parse("observe", list[k].args).ok
      BY <3>2, AttributeParsed DEF Grammar
    <3>5. FnAcceptable(decl, i) <=> \A k \in Watching(decl, i) : WellFormed(list[k])
      BY <2>4, <3>2 DEF FnAcceptable
    <3>6. clean(i) <=> /\ \A k \in DOMAIN list : list[k].path \notin HookPath \cup {"observer"}
                       /\ \A k \in Watching(decl, i) :
                            list[k].form = "list" /\ Parse("observe", list[k].args).ok
      BY <3>1, <3>2
    <3> HIDE DEF clean, strange, list
    <3>7. QED
      BY <2>1, <3>3, <3>4, <3>5, <3>6
  <2>5. QED
    BY <2>3, <2>4
<1>5. \A i \in Fns : /\ Hooked(decl, i) => HooksAt(i) = HooksOf(decl, i) /\ HooksOf(decl, i) # {}
                     /\ ~Hooked(decl, i) => HooksAt(i) = {}
  BY <1>2 DEF Passed, Expanded, FnAcceptable
<1>6. IsList(hooks) /\ \A j \in DOMAIN hooks : hooks[j].fn \in Fns
  BY <1>1 DEF MethodInv, MethodHooks
<1>7. hooks # <<>> <=> \E i \in Fns : Hooked(decl, i)
  <2>1. hooks # <<>> => 1 \in DOMAIN hooks
    BY <1>6 DEF IsList
  <2>2. \A j \in DOMAIN hooks : hooks[j] \in HooksAt(hooks[j].fn)
    BY DEF HooksAt
  <2>3. \A i \in Fns : HooksAt(i) # {} => hooks # <<>>
    BY DEF HooksAt
  <2>4. QED
    BY <1>5, <1>6, <2>1, <2>2, <2>3
<1>8. Compiles <=> hooks # <<>> /\ \A i \in Fns : clean(i)
  <2>1. Len(observers) <= 1
    BY <1>3
  <2>2. QED
    BY <1>3, <2>1 DEF Compiles
<1>9. Acceptable(decl) <=> /\ \E i \in Fns : Hooked(decl, i)
                           /\ \A i \in Fns : FnAcceptable(decl, i) /\ strange(i) = {}
  BY <1>3 DEF Acceptable, Group, Fns
<1>10. Compiles <=> Acceptable(decl)
  <2> HIDE DEF clean, strange
  <2>1. QED
    BY <1>4, <1>7, <1>8, <1>9
<1>11. Generated
  <2>1. \A i \in Fns : HooksAt(i) = HooksOf(decl, i)
    <3>1. ASSUME NEW i \in Fns, ~Hooked(decl, i) PROVE HooksOf(decl, i) = {}
      <4>1. Declaring(decl, i) = {} /\ ~ComMethod(decl)
        BY <3>1 DEF Hooked
      <4>2. QED
        BY <4>1 DEF HooksOf
    <3>2. QED
      BY <1>5, <3>1
  <2>2. \A j, k \in DOMAIN hooks : hooks[j] = hooks[k] => j = k
    BY DEF MethodInv, MethodHooks
  <2>3. QED
    BY <2>1, <2>2 DEF Generated, HooksAt
<1>12. Owned
  <2>1. ASSUME NEW i \in Fns, NEW k \in DOMAIN hooks, hooks[k].fn = i
        PROVE  Owns(body[i], hooks[k])
    <3>1. hooks[k] \in HooksAt(i)
      BY <2>1 DEF HooksAt
    <3>2. Hooked(decl, i)
      BY <1>5, <3>1
    <3>3. QED
      BY <1>2, <3>1, <3>2 DEF Passed, Expanded
  <2>2. QED
    BY <2>1 DEF Owned
<1>13. QED
  BY <1>10, <1>11, <1>12

------------------------------------------------------------------------------
(* The invariant, and what follows from it.                                  *)

\* While an item is expanded, one of the two holds; its end is what it should be.
Inv ==
  /\ decl \in Items
  /\ status \in {"expanding", "done", "error"}
  /\ status = "expanding" => IF decl.group = <<>> THEN FnInv ELSE MethodInv
  /\ status = "done" => Acceptable(decl) /\ Generated /\ Owned /\ Reported
  /\ status = "error" => ~Acceptable(decl)

\* Nothing has been expanded at first.
LEMMA InvInit == Init => Inv
<1> SUFFICES ASSUME Init PROVE Inv
  OBVIOUS
<1>1. /\ decl \in Items /\ Declaration(decl)
      /\ attrs = [i \in Fns |-> decl.fns[i].attrs] /\ body = [i \in Fns |-> <<>>]
      /\ hooks = <<>> /\ observers = <<>> /\ at = 0 /\ status = "expanding"
  BY ItemsAssumption DEF Init
<1>2. IsList(<<>>) /\ DOMAIN <<>> = {} /\ Len(<<>>) = 0
  BY DEF IsList
<1>3. CASE decl.group = <<>>
  <2>1. Fns = {1} /\ DOMAIN decl.fns = {1}
    BY <1>1, <1>3, FnStatic DEF Fns
  <2>2. attrs[1] = Written /\ body[1] = <<>> /\ There = DOMAIN Written
    BY <1>1, <2>1 DEF Written, There
  <2>3. Done = {} /\ Defined = {} /\ Watches \subseteq There
    BY <1>1, <1>3, <2>2, FnStatic DEF Done, Defined
  <2>4. FnShape
    BY <1>1, <2>1, <2>2 DEF FnShape, Stands
  <2>5. FnDone
    BY <2>3 DEF FnDone
  <2>6. FnHooks
    BY <1>1, <1>2, <2>3 DEF FnHooks, Accounts
  <2>7. FnObservers
    BY <1>1, <1>2, <2>3 DEF FnObservers
  <2>8. FnBody
    BY <1>1, <1>2, <2>2 DEF FnBody
  <2>9. QED
    BY <1>1, <1>3, <2>4, <2>5, <2>6, <2>7, <2>8 DEF FnInv, Inv
<1>4. CASE decl.group # <<>>
  <2>1. Len(decl.fns) \in Nat /\ Fns = 1 .. Len(decl.fns)
    BY <1>1, <1>4, GroupStatic
  <2>2. MethodShape
    BY <1>1, <2>1 DEF MethodShape
  <2>3. MethodHooks
    BY <1>1, <1>2 DEF MethodHooks
  <2>4. \A i \in Fns : ~(i < at) /\ Untouched(i)
    BY <1>1, <2>1 DEF Untouched
  <2>5. QED
    BY <1>1, <1>4, <2>2, <2>3, <2>4 DEF MethodInv, Inv
<1>5. QED
  BY <1>3, <1>4

\* The compiler accepts what it should, and the result is what is declared.
LEMMA InvCompile ==
  ASSUME Inv, Compile
  PROVE  Inv'
<1>1. /\ status = "expanding" /\ decl \in Items /\ Declaration(decl)
      /\ IF decl.group = <<>> THEN Pending = {} ELSE at = Len(decl.fns) + 1
      /\ IF Compiles THEN /\ status' = "done"
                          /\ UNCHANGED <<decl, attrs, body, hooks, observers, at>>
         ELSE Fail
  BY ItemsAssumption DEF Inv, Compile
<1>2. /\ Compiles <=> Acceptable(decl)
      /\ Compiles => Generated /\ Owned /\ Reported
  <2>1. CASE decl.group = <<>>
    BY <1>1, <2>1, FnCompiles, FnGenerated, FnReported DEF Inv
  <2>2. CASE decl.group # <<>>
    BY <1>1, <2>2, MethodCompiles DEF Inv, Reported
  <2>3. QED
    BY <2>1, <2>2
<1>3. CASE Compiles
  <2>1. status' = "done" /\ UNCHANGED <<decl, attrs, body, hooks, observers, at>>
    BY <1>1, <1>3
  <2>2. Acceptable(decl)' /\ Generated' /\ Owned' /\ Reported'
    <3>1. Acceptable(decl)'
      BY <1>2, <1>3, <2>1
    <3>2. Generated'
      BY <1>2, <1>3, <2>1 DEF Generated, Fns
    <3>3. Owned'
      BY <1>2, <1>3, <2>1 DEF Owned, Fns
    <3>4. Reported'
      BY <1>2, <1>3, <2>1 DEF Reported, Defines, Written
    <3>5. QED
      BY <3>1, <3>2, <3>3, <3>4
  <2>3. QED
    BY <1>1, <2>1, <2>2 DEF Inv
<1>4. CASE ~Compiles
  BY <1>1, <1>2, <1>4 DEF Fail, Inv
<1>5. QED
  BY <1>3, <1>4

\* Every step keeps the invariant.
LEMMA InvNext == Inv /\ [Next]_vars => Inv'
<1> SUFFICES ASSUME Inv, [Next]_vars PROVE Inv'
  OBVIOUS
<1>1. decl \in Items /\ Declaration(decl)
  BY ItemsAssumption DEF Inv
<1>2. ASSUME FnStep, decl.group = <<>> PROVE Inv'
  BY <1>1, <1>2 DEF FnStep, Inv
<1>3. ASSUME MethodStep, decl.group # <<>> PROVE Inv'
  BY <1>1, <1>3 DEF MethodStep, Inv
<1>4. ASSUME NEW path, Free(path) PROVE decl.group = <<>> /\ FnInv
  BY <1>4 DEF Free, Inv
<1>5. ASSUME NEW path, AtMethod(path) PROVE decl.group # <<>> /\ MethodInv
  <2>1. at \in Fns /\ status = "expanding"
    BY <1>5 DEF AtMethod
  <2>2. CASE decl.group = <<>>
    <3>1. Fns = {1} /\ at = 0
      BY <1>1, <2>1, <2>2, FnStatic DEF Inv, FnInv, FnShape, Fns
    <3>2. QED
      BY <2>1, <3>1
  <2>3. CASE decl.group # <<>>
    BY <2>1, <2>3 DEF Inv
  <2>4. QED
    BY <2>2, <2>3
<1>6. CASE ExpandObserve
  BY <1>1, <1>2, <1>4, <1>6, FnExpandObserve DEF ExpandObserve
<1>7. CASE ExpandC
  BY <1>1, <1>2, <1>4, <1>7, FnExpandC DEF ExpandC
<1>8. CASE ExpandInstance
  <2>1. ExpandObjc("instance", Instance)
    BY <1>8 DEF ExpandInstance
  <2>2. decl.group = <<>> /\ FnInv
    BY <1>4, <2>1 DEF ExpandObjc
  <2>3. FnStep
    BY <1>1, <2>1, <2>2, FnExpandObjc
  <2>4. QED
    BY <1>2, <2>2, <2>3
<1>9. CASE ExpandClass
  <2>1. ExpandObjc("class", Class)
    BY <1>9 DEF ExpandClass
  <2>2. decl.group = <<>> /\ FnInv
    BY <1>4, <2>1 DEF ExpandObjc
  <2>3. FnStep
    BY <1>1, <2>1, <2>2, FnExpandObjc
  <2>4. QED
    BY <1>2, <2>2, <2>3
<1>10. CASE ExpandCom
  BY <1>1, <1>2, <1>4, <1>10, FnExpandCom DEF ExpandCom
<1>11. CASE ExpandObserver
  BY <1>1, <1>2, <1>4, <1>11, FnExpandObserver DEF ExpandObserver
<1>12. CASE OpenImpl
  <2>1. decl.group # <<>> /\ MethodInv
    BY <1>12 DEF OpenImpl, Inv
  <2>2. QED
    BY <1>1, <1>3, <1>12, <2>1, MethodOpens
<1>13. CASE ExpandComMethod
  BY <1>1, <1>3, <1>5, <1>13, MethodCom DEF ExpandComMethod
<1>14. CASE ExpandObjcMethod
  BY <1>1, <1>3, <1>5, <1>14, MethodObjc DEF ExpandObjcMethod
<1>15. CASE SkipMethod
  BY <1>1, <1>3, <1>5, <1>15, MethodSkipped DEF SkipMethod
<1>16. CASE Compile
  BY <1>16, InvCompile
<1>17. CASE UNCHANGED vars
  <2>1. UNCHANGED <<decl, attrs, body, hooks, observers, at, status>>
    BY <1>17 DEF vars
  <2>2. FnInv => FnInv'
    <3>1. ASSUME FnHooks PROVE FnHooks'
      <4>1. PICK pos : Accounts(pos)
        BY <3>1 DEF FnHooks
      <4>2. Accounts(pos)'
        BY <2>1, <4>1 DEF Accounts, Done, Decls, There
      <4>3. QED
        BY <2>1, <3>1, <4>2 DEF FnHooks
    <3>2. QED
      BY <2>1, <3>1 DEF FnInv, FnShape, FnDone, FnObservers, FnBody, There, Written, Done, Decls,
                        Watches, Defines, Defined
  <2>3. MethodInv => MethodInv'
    BY <2>1 DEF MethodInv, MethodShape, MethodHooks, Passed, Expanded, Untouched, HooksAt, Fns, Group
  <2>4. (Generated => Generated') /\ (Owned => Owned') /\ (Reported => Reported')
    BY <2>1 DEF Generated, Owned, Reported, Defines, Written, Fns
  <2>5. QED
    BY <2>1, <2>2, <2>3, <2>4 DEF Inv
<1>18. QED
  BY <1>6, <1>7, <1>8, <1>9, <1>10, <1>11, <1>12, <1>13, <1>14, <1>15, <1>16, <1>17 DEF Next

\* The invariant holds of every item, at every time.
LEMMA InvAlways == Spec => []Inv
BY InvInit, InvNext, PTL DEF Spec

\* Whatever the items, the macros and the compiler accept those whose
\* declaration is acceptable, and refuse the others, in whatever order the
\* attributes stand.
THEOREM AcceptsTheorem == Spec => []AcceptsExactly
<1>1. Inv => AcceptsExactly
  BY DEF Inv, AcceptsExactly
<1>2. QED
  BY <1>1, InvAlways, PTL

\* Whatever the items, the hooks that are generated are those that are declared,
\* each once, and the first one is observed as `observe` says.
THEOREM GeneratesTheorem == Spec => []GeneratesWhatIsDeclared
<1>1. Inv => GeneratesWhatIsDeclared
  BY DEF Inv, Generated, GeneratesWhatIsDeclared
<1>2. QED
  BY <1>1, InvAlways, PTL

\* Whatever the items, the statements of a function run behind its first hook's
\* gate and forward to its first hook.
THEOREM BodyTheorem == Spec => []FirstHookOwnsBody
<1>1. Inv => FirstHookOwnsBody
  BY DEF Inv, Owned, Owns, FirstHookOwnsBody
<1>2. QED
  BY <1>1, InvAlways, PTL

------------------------------------------------------------------------------
(* No argument is lost.                                                      *)

\* What the slots of an attribute that can be read hold: an identifier to name
\* the original by, and no expression that is a part of itself.
Sound(slots) ==
  /\ "original" \in DOMAIN slots => slots["original"].is = "ident"
  /\ \A name \in DOMAIN slots : \A j \in DOMAIN slots[name].parts : slots[name].parts[j] # slots[name]

\* The parts of a hook.
LEMMA HookParts ==
  ASSUME NEW kind, NEW slots, NEW i, NEW observe, NEW target, NEW name
  PROVE  LET h == Hook(kind, slots, i, observe, target, name)
         IN  /\ h.target = target /\ h.kind = kind
             /\ h.name = SlotOr(slots, "name", name)
             /\ h.optional = SlotOr(slots, "optional", False)
             /\ h.fallback = SlotOr(slots, "fallback", Default)
             /\ h.accessor = SlotOr(slots, "original", Nothing)
BY DEF Hook

\* Slots from which one is left out.
LEMMA LeftOut ==
  ASSUME NEW slots, NEW name
  PROVE  LET less == Without(slots, {name})
         IN  /\ DOMAIN less = DOMAIN slots \ {name}
             /\ \A other \in DOMAIN less : less[other] = slots[other]
BY DEF Without

\* An argument that is a part of its hook is spelt out if the hook without it
\* is the same. An accessor is never the one there is without `original`.
LEMMA SameParts ==
  ASSUME NEW slots, Sound(slots), NEW i, NEW name \in {"name", "optional", "fallback", "original"},
         NEW hook, NEW less, name \in DOMAIN slots, name \notin DOMAIN less,
         hook.optional = SlotOr(slots, "optional", False),
         hook.fallback = SlotOr(slots, "fallback", Default),
         hook.accessor = SlotOr(slots, "original", Nothing),
         \E derived : hook.name = SlotOr(slots, "name", derived),
         hook.accessor = SlotOr(less, "original", Nothing)
  PROVE  SpellsOut(slots, i, name, hook)
<1>1. CASE name = "name"
  BY <1>1 DEF SpellsOut, SlotOr
<1>2. CASE name = "optional"
  BY <1>2 DEF SpellsOut, SlotOr
<1>3. CASE name = "fallback"
  BY <1>3 DEF SpellsOut, SlotOr
<1>4. CASE name = "original"
  <2>1. hook.accessor = slots["original"] /\ hook.accessor = Nothing
    BY <1>4 DEF SlotOr
  <2>2. Nothing.is = "other"
    BY DEF Nothing, Value
  <2>3. QED
    BY <1>4, <2>1, <2>2 DEF Sound
<1>5. QED
  BY <1>1, <1>2, <1>3, <1>4

\* A pair has its second member as a part.
LEMMA PartOfPair ==
  ASSUME NEW v, NEW w, NEW pair, pair = Many("tuple", <<v, w>>)
  PROVE  2 \in DOMAIN pair.parts /\ pair.parts[2] = w
<1>1. pair.parts = <<v, w>>
  BY DEF Many
<1>2. QED
  BY <1>1

\* No argument of `#[hook::c]` is lost.
LEMMA CountsC ==
  ASSUME NEW slots, Sound(slots), DOMAIN slots \subseteq HookSlot, NEW i, NEW name \in DOMAIN slots,
         HookC(slots, i, {}) # {}, HookC(Without(slots, {name}), i, {}) = HookC(slots, i, {})
  PROVE  \E hook \in HookC(slots, i, {}) : SpellsOut(slots, i, name, hook)
<1> DEFINE less == Without(slots, {name})
<1>1. PICK hook \in HookC(slots, i, {}) : TRUE
  OBVIOUS
<1>2. PICK t \in NormalizeTarget(slots, i) : hook = Hook("c", slots, i, {}, t, FunctionHookName(t, i))
  BY <1>1 DEF HookC
<1>3. PICK u \in NormalizeTarget(less, i) : hook = Hook("c", less, i, {}, u, FunctionHookName(u, i))
  BY <1>1 DEF HookC
<1>4. DOMAIN less = DOMAIN slots \ {name} /\ \A other \in DOMAIN less : less[other] = slots[other]
  BY LeftOut
<1> HIDE DEF less
<1>5. /\ hook.target = t /\ hook.kind = "c"
      /\ hook.optional = SlotOr(slots, "optional", False)
      /\ hook.fallback = SlotOr(slots, "fallback", Default)
      /\ hook.accessor = SlotOr(slots, "original", Nothing)
      /\ \E derived : hook.name = SlotOr(slots, "name", derived)
  BY <1>2, HookParts
<1>6. hook.target = u /\ hook.accessor = SlotOr(less, "original", Nothing)
  BY <1>3, HookParts
<1>7. CASE name \in {"name", "optional", "fallback", "original"}
  BY <1>4, <1>5, <1>6, <1>7, SameParts
<1>8. CASE name = "function"
  <2>1. Scope(slots) = {"function"} => t = slots["function"]
    BY <1>2 DEF NormalizeTarget
  <2>2. "function" \in Scope(slots)
    BY <1>8 DEF Scope
  <2>3. Scope(slots) = {"function"}
    BY <1>2, <2>2 DEF NormalizeTarget
  <2>4. QED
    BY <1>5, <1>8, <2>1, <2>3 DEF SpellsOut
<1>9. CASE name = "symbol"
  <2>1. "symbol" \in Scope(slots) /\ Scope(less) = Scope(slots) \ {"symbol"}
    BY <1>4, <1>9 DEF Scope
  <2>2. Scope(slots) \in {{"image", "symbol"}, {"symbol"}}
    BY <1>2, <2>1 DEF NormalizeTarget
  <2>3. Scope(slots) # {"image", "symbol"}
    <3>1. Scope(less) # {"image"}
      BY <1>3 DEF NormalizeTarget
    <3>2. QED
      BY <2>1, <3>1
  <2>4. Scope(slots) = {"symbol"}
    BY <2>2, <2>3
  <2>5. t = slots["symbol"]
    BY <1>2, <2>4 DEF NormalizeTarget
  <2>6. QED
    BY <1>5, <1>9, <2>5 DEF SpellsOut
<1>10. CASE name = "image"
  <2>1. "image" \in Scope(slots) /\ Scope(less) = Scope(slots) \ {"image"}
    BY <1>4, <1>10 DEF Scope
  <2>2. Scope(slots) = {"image", "symbol"}
    BY <1>2, <2>1 DEF NormalizeTarget
  <2>3. t = Many("tuple", <<slots["image"], slots["symbol"]>>)
    BY <1>2, <2>2 DEF NormalizeTarget
  <2>4. Scope(less) = {"symbol"}
    BY <2>1, <2>2
  <2>5. u = less["symbol"]
    BY <1>3, <2>4 DEF NormalizeTarget
  <2>6. "symbol" \in DOMAIN slots /\ less["symbol"] = slots["symbol"]
    BY <1>4, <2>2, <2>4 DEF Scope
  <2>7. slots["symbol"] = Many("tuple", <<slots["image"], slots["symbol"]>>)
    BY <1>5, <1>6, <2>3, <2>5, <2>6
  <2>9. 2 \in DOMAIN slots["symbol"].parts /\ slots["symbol"].parts[2] = slots["symbol"]
    BY <2>7, PartOfPair
  <2>10. QED
    BY <2>6, <2>9 DEF Sound
<1>11. QED
  BY <1>7, <1>8, <1>9, <1>10 DEF HookSlot

\* No argument of an Objective-C attribute is lost but its image.
LEMMA CountsObjc ==
  ASSUME NEW slots, Sound(slots), NEW i, NEW name \in DOMAIN slots,
         name \in DOMAIN HookObjcArgs \ {"kind", "image"},
         NEW all, NEW less,
         \A other \in DOMAIN slots : other \in DOMAIN all /\ all[other] = slots[other],
         "original" \in DOMAIN slots <=> "original" \in DOMAIN all,
         name = "original" => name \notin DOMAIN less,
         HookObjc(all, i, {}) # {}, HookObjc(less, i, {}) = HookObjc(all, i, {})
  PROVE  \E hook \in HookObjc(all, i, {}) : SpellsOut(slots, i, name, hook)
<1> DEFINE T(s) == <<s["kind"], s["class"], s["selector"]>>
           H(s) == Hook("objc", s, i, {}, T(s), ObjcHookName(s["class"], s["selector"], i))
<1>1. PICK hook \in HookObjc(all, i, {}) : TRUE
  OBVIOUS
<1>2. hook = H(all) /\ hook = H(less)
  BY <1>1 DEF HookObjc
<1>3. /\ hook.target = T(all) /\ hook.kind = "objc"
      /\ hook.name = SlotOr(all, "name", ObjcHookName(all["class"], all["selector"], i))
      /\ hook.optional = SlotOr(all, "optional", False)
      /\ hook.fallback = SlotOr(all, "fallback", Default)
      /\ hook.accessor = SlotOr(all, "original", Nothing)
  BY <1>2, HookParts
<1>4. hook.accessor = SlotOr(less, "original", Nothing)
  BY <1>2, HookParts
<1> HIDE DEF H
<1>5. all[name] = slots[name] /\ name \in DOMAIN all
  OBVIOUS
<1>6. CASE name = "class"
  BY <1>3, <1>5, <1>6 DEF SpellsOut
<1>7. CASE name = "selector"
  BY <1>3, <1>5, <1>7 DEF SpellsOut
<1>8. CASE name \in {"name", "optional", "fallback"}
  BY <1>3, <1>5, <1>8 DEF SpellsOut, SlotOr
<1>9. CASE name = "original"
  <2>1. hook.accessor = slots["original"] /\ hook.accessor = Nothing
    BY <1>3, <1>4, <1>5, <1>9 DEF SlotOr
  <2>2. Nothing.is = "other"
    BY DEF Nothing, Value
  <2>3. QED
    BY <1>9, <2>1, <2>2 DEF Sound
<1>10. QED
  BY <1>6, <1>7, <1>8, <1>9 DEF HookObjcArgs

\* No argument of `#[hook::com]` is lost but those that nothing reads.
LEMMA CountsCom ==
  ASSUME NEW slots, Sound(slots), NEW i, NEW name \in DOMAIN slots, name \in DOMAIN HookComArgs,
         ~Ignored("com", slots, name), NEW context, context = ContextOf(decl),
         HookCom(slots, i, context, {}) # {},
         HookCom(Without(slots, {name}), i, context, {}) = HookCom(slots, i, context, {})
  PROVE  \E hook \in HookCom(slots, i, context, {}) : SpellsOut(slots, i, name, hook)
<1> DEFINE less == Without(slots, {name})
           Field(s) == SlotOr(s, "field", ComField(i))
           T(s, n) == [symbol |-> SlotOr(s, "symbol", n),
                       route |-> ComRoute(s, context, Field(s)),
                       install |-> ModuleSlice(s, "imports"),
                       resolve |-> ModuleSlice(s, "resolve_images")]
<1>1. PICK hook \in HookCom(slots, i, context, {}) : TRUE
  OBVIOUS
<1>2. PICK n \in ComHookName(slots, i, context, Field(slots)) :
        hook = Hook("com", slots, i, {}, T(slots, n), n)
  BY <1>1 DEF HookCom
<1>3. PICK m \in ComHookName(less, i, context, Field(less)) :
        hook = Hook("com", less, i, {}, T(less, m), m)
  BY <1>1 DEF HookCom
<1>4. DOMAIN less = DOMAIN slots \ {name} /\ \A other \in DOMAIN less : less[other] = slots[other]
  BY LeftOut
<1> HIDE DEF less
<1>5. /\ hook.target = T(slots, n) /\ hook.kind = "com"
      /\ hook.name = SlotOr(slots, "name", n)
      /\ hook.optional = SlotOr(slots, "optional", False)
      /\ hook.fallback = SlotOr(slots, "fallback", Default)
      /\ hook.accessor = SlotOr(slots, "original", Nothing)
  <2> HIDE DEF T
  <2>1. QED
    BY <1>2, HookParts
<1>6. /\ hook.target = T(less, m) /\ hook.name = SlotOr(less, "name", m)
      /\ hook.accessor = SlotOr(less, "original", Nothing)
  <2> HIDE DEF T
  <2>1. QED
    BY <1>3, HookParts
<1>7. /\ SlotOr(slots, "symbol", n) = SlotOr(less, "symbol", m)
      /\ ComRoute(slots, context, Field(slots)) = ComRoute(less, context, Field(less))
      /\ ModuleSlice(slots, "imports") = ModuleSlice(less, "imports")
      /\ ModuleSlice(slots, "resolve_images") = ModuleSlice(less, "resolve_images")
      /\ hook.target.symbol = SlotOr(slots, "symbol", n)
      /\ hook.target.install = ModuleSlice(slots, "imports")
      /\ hook.target.resolve = ModuleSlice(slots, "resolve_images")
  <2>1. T(slots, n) = T(less, m)
    BY <1>5, <1>6
  <2>2. QED
    BY <1>5, <2>1
<1> HIDE DEF T, Field
<1>8. CASE name \in {"name", "optional", "fallback", "original"}
  BY <1>4, <1>5, <1>6, <1>8, SameParts
<1>9. CASE name = "symbol"
  BY <1>5, <1>7, <1>9 DEF SpellsOut, SlotOr
<1>10. CASE name = "imports"
  <2>1. ListOf(slots, "imports") = slots["imports"].parts /\ slots["imports"].parts # <<>>
    BY <1>10 DEF ListOf, Ignored
  <2>2. hook.target.install = slots["imports"].parts
    BY <1>7, <2>1 DEF ModuleSlice
  <2>3. QED
    BY <1>5, <1>10, <2>2 DEF SpellsOut
<1>11. CASE name = "resolve_images"
  <2>1. ListOf(slots, "resolve_images") = slots["resolve_images"].parts /\ slots["resolve_images"].parts # <<>>
    BY <1>11 DEF ListOf, Ignored
  <2>2. hook.target.resolve = slots["resolve_images"].parts
    BY <1>7, <2>1 DEF ModuleSlice
  <2>3. QED
    BY <1>5, <1>11, <2>2 DEF SpellsOut
<1>12. CASE name = "image"
  <2>1. PICK list \in {"imports", "resolve_images"} : ListOf(slots, list) = <<>>
    BY <1>12 DEF Ignored
  <2>2. ListOf(less, list) = <<>> /\ "image" \notin DOMAIN less
    BY <1>4, <1>12, <2>1 DEF ListOf
  <2>3. ModuleSlice(slots, list) = <<slots["image"]>> /\ ModuleSlice(less, list) = <<>>
    BY <1>12, <2>1, <2>2 DEF ModuleSlice
  <2>4. <<slots["image"]>> # <<>>
    OBVIOUS
  <2>5. QED
    BY <1>7, <2>1, <2>3, <2>4
<1>13. CASE name = "resolve"
  <2>1. ComRoute(slots, context, Field(slots)) = <<slots["resolve"]>>
    BY <1>13 DEF ComRoute
  <2>2. "resolve" \notin DOMAIN less
    BY <1>4, <1>13
  <2>3. \/ ComRoute(less, context, Field(less)) = <<>>
        \/ ComRoute(less, context, Field(less)) = <<context["interface"], context["instance"], Field(less)>>
    BY <2>2 DEF ComRoute
  <2>4. \A v, a, b, c : <<v>> # <<>> /\ <<v>> # <<a, b, c>>
    OBVIOUS
  <2>5. QED
    BY <1>7, <2>1, <2>3, <2>4
<1>14. CASE name = "field"
  <2>1. Field(slots) = slots["field"] /\ Field(less) = ComField(i)
    BY <1>4, <1>14 DEF Field, SlotOr
  <2>2. slots["field"] = ComField(i)
    <3>1. CASE Len(ComRoute(slots, context, Nothing)) = 3
      <4>1. "resolve" \notin DOMAIN slots /\ {"interface", "instance"} \subseteq DOMAIN context
        <5>1. \A v : Len(<<v>>) # 3 /\ Len(<<>>) # 3
          OBVIOUS
        <5>2. QED
          BY <3>1, <5>1 DEF ComRoute
      <4>2. /\ ComRoute(slots, context, Field(slots)) = <<context["interface"], context["instance"], Field(slots)>>
            /\ ComRoute(less, context, Field(less)) = <<context["interface"], context["instance"], Field(less)>>
        BY <1>4, <4>1 DEF ComRoute
      <4>3. \A a, b, v, w : <<a, b, v>> = <<a, b, w>> => v = w
        OBVIOUS
      <4>4. QED
        BY <1>7, <2>1, <4>2, <4>3
    <3>2. CASE Len(ComRoute(slots, context, Nothing)) # 3
      <4>1. {"name", "symbol"} \cap DOMAIN slots = {} /\ "interface" \in DOMAIN context
        BY <1>14, <3>2 DEF Ignored
      <4>2. {"name", "symbol"} \cap DOMAIN less = {}
        BY <1>4, <4>1
      <4>3. n = Many("path", <<context["interface"], Field(slots)>>)
        BY <1>2, <4>1 DEF ComHookName
      <4>4. m = Many("path", <<context["interface"], Field(less)>>)
        BY <1>3, <4>2 DEF ComHookName
      <4>5. n = m
        BY <1>5, <1>6, <4>1, <4>2 DEF SlotOr
      <4>6. \A a, v, w : Many("path", <<a, v>>) = Many("path", <<a, w>>) => v = w
        BY DEF Many
      <4>7. QED
        BY <2>1, <4>3, <4>4, <4>5, <4>6
    <3>3. QED
      BY <3>1, <3>2
  <2>3. QED
    BY <1>5, <1>14, <2>2 DEF SpellsOut
<1>15. QED
  BY <1>8, <1>9, <1>10, <1>11, <1>12, <1>13, <1>14 DEF HookComArgs

\* What a hook attribute that is well formed says is sound, and of its grammar.
LEMMA MeaningSound ==
  ASSUME NEW a, IsList(a.args), Finite(a.args), a.path \in HookPath, WellFormed(a)
  PROVE  /\ Sound(Meaning(a))
         /\ a.path = "c" => DOMAIN Meaning(a) \subseteq HookSlot
         /\ a.path = "com" => DOMAIN Meaning(a) \subseteq DOMAIN HookComArgs
         /\ a.path \in {"instance", "class"} => DOMAIN Meaning(a) \subseteq DOMAIN HookObjcArgs \ {"kind"}
<1> DEFINE g == GrammarOf(a.path)
<1>1. Meaning(a) = Says(g, a.args) /\ Readable(g, a.args)
  BY DEF Meaning, WellFormed
<1>2. g \in {"c", "com", "objc"}
  BY DEF GrammarOf, HookPath
<1>3. ASSUME NEW name \in DOMAIN Meaning(a)
      PROVE  /\ name = "original" => Meaning(a)[name].is = "ident"
             /\ \A j \in DOMAIN Meaning(a)[name].parts : Meaning(a)[name].parts[j] # Meaning(a)[name]
             /\ a.path = "c" => name \in HookSlot
             /\ a.path = "com" => name \in DOMAIN HookComArgs
             /\ a.path \in {"instance", "class"} => name \in DOMAIN HookObjcArgs \ {"kind"}
  <2> HIDE DEF g
  <2>1. PICK n \in DOMAIN a.args : Reads(g, a.args[n]) = name /\ Meaning(a)[name] = a.args[n].value
    BY <1>1, <1>3, SaysValue
  <2> DEFINE e == a.args[n]
  <2>2. Reads(g, e) = name /\ Reads(g, e) # "refused"
    BY <1>1, <2>1 DEF Readable
  <2>3. \A j \in DOMAIN e.value.parts : e.value.parts[j] # e.value
    BY DEF Finite
  <2> HIDE DEF e
  <2>4. CASE g = "c"
    <3>1. name \in HookSlot /\ (name = "original" => e.value.is = "ident")
      BY <2>2, <2>4 DEF Reads, ReadsHook, HookSlot
    <3>2. a.path = "c"
      BY <2>4 DEF g, GrammarOf
    <3>3. QED
      BY <2>1, <2>3, <3>1, <3>2 DEF e
  <2>5. CASE g = "com"
    <3>1. Reads(g, e) = ReadsNested(HookComArgs, e)
      BY <2>5 DEF Reads, TableOf
    <3>2. name \in DOMAIN HookComArgs /\ e.value.is \in HookComArgs[name]
      BY <2>2, <3>1 DEF ReadsNested
    <3>3. name = "original" => e.value.is = "ident"
      BY <3>2 DEF HookComArgs, AnIdent
    <3>4. a.path = "com"
      BY <2>5 DEF g, GrammarOf
    <3>5. QED
      BY <2>1, <2>3, <3>2, <3>3, <3>4 DEF e
  <2>6. CASE g = "objc"
    <3>1. Reads(g, e) = ReadsNested(HookObjcArgs, e)
      BY <2>6 DEF Reads, TableOf
    <3>2. name \in DOMAIN HookObjcArgs /\ e.value.is \in HookObjcArgs[name] /\ e.name = name
      BY <2>2, <3>1 DEF ReadsNested
    <3>3. name = "original" => e.value.is = "ident"
      BY <3>2 DEF HookObjcArgs, AnIdent
    <3>4. a.path \in {"instance", "class"}
      BY <2>6 DEF g, GrammarOf, HookPath
    <3>5. name # "kind"
      BY <3>2, <3>4 DEF WellFormed, e
    <3>6. QED
      BY <2>1, <2>3, <3>2, <3>3, <3>4, <3>5 DEF e
  <2>7. QED
    BY <1>2, <2>4, <2>5, <2>6 DEF g
<1>4. QED
  BY <1>3 DEF Sound

\* The context of an Objective-C impl block has a class and an image at most.
LEMMA ObjcContext ==
  ASSUME Declaration(decl), decl.group # <<>>, WellFormed(Group), ~ComMethod(decl)
  PROVE  DOMAIN ContextOf(decl) \subseteq {"class", "image"}
<1>1. Group.path = "objc_impl" /\ ContextOf(decl) = Meaning(Group) /\ IsList(Group.args)
  BY GroupStatic
<1>2. Meaning(Group) = Says("objc_impl", Group.args) /\ Readable("objc_impl", Group.args)
  BY <1>1 DEF Meaning, WellFormed, GrammarOf
<1>3. ASSUME NEW n \in DOMAIN Group.args PROVE Reads("objc_impl", Group.args[n]) \in {"class", "image"}
  <2> DEFINE e == Group.args[n]
  <2>1. Reads("objc_impl", e) = ReadsNested(HookObjcImplArgs, e) /\ Reads("objc_impl", e) # "refused"
    BY <1>2 DEF Reads, TableOf, Readable
  <2> HIDE DEF e
  <2>2. Reads("objc_impl", e) \in DOMAIN HookObjcImplArgs
    BY <2>1 DEF ReadsNested
  <2>3. QED
    BY <2>2 DEF HookObjcImplArgs, e
<1> DEFINE read == {Reads("objc_impl", Group.args[n]) : n \in DOMAIN Group.args}
<1>4. read \subseteq {"class", "image"}
  BY <1>3
<1>5. DOMAIN Says("objc_impl", Group.args) = read
  BY <1>1, <1>2, SaysNames
<1> HIDE DEF read
<1>6. QED
  BY <1>1, <1>2, <1>4, <1>5

\* An acceptable hook attribute loses no argument.
LEMMA Counts ==
  ASSUME Declaration(decl), Acceptable(decl), NEW i \in Fns, NEW k \in Declaring(decl, i)
  PROVE  ArgumentsCount(i, k)
<1> DEFINE a == decl.fns[i].attrs[k]
           path == a.path
           slots == Meaning(a)
           without(name) == Made(decl, i, path, Without(slots, {name}), {})
<1>1. FnAcceptable(decl, i)
  <2>1. CASE decl.group = <<>>
    BY <2>1, FnStatic DEF Acceptable, Fns
  <2>2. CASE decl.group # <<>>
    BY <2>2 DEF Acceptable, Fns
  <2>3. QED
    BY <2>1, <2>2
<1>2. /\ k \in DOMAIN decl.fns[i].attrs /\ path \in HookPath
      /\ decl.group # <<>> => path \in OwnPaths(decl)
  BY DEF Declaring, Among, OwnPaths, HookPath
<1>3. WellFormed(a) /\ IsList(a.args) /\ Finite(a.args)
  BY <1>1, <1>2 DEF FnAcceptable, Declaration, Attribute, Fns
<1>4. Made(decl, i, path, slots, {}) # {}
  <2>1. MadeAt(decl, i, k) # {}
    BY <1>1 DEF FnAcceptable, Hooked
  <2>2. PICK observe : MadeAt(decl, i, k) = Made(decl, i, path, slots, observe)
    BY DEF MadeAt
  <2> HIDE DEF path, slots
  <2>3. QED
    BY <1>2, <2>1, <2>2, MadeProps
<1>5. /\ Sound(slots)
      /\ path = "c" => DOMAIN slots \subseteq HookSlot
      /\ path = "com" => DOMAIN slots \subseteq DOMAIN HookComArgs
      /\ path \in {"instance", "class"} => DOMAIN slots \subseteq DOMAIN HookObjcArgs \ {"kind"}
  BY <1>2, <1>3, MeaningSound
<1> HIDE DEF path, slots, a
<1> SUFFICES ASSUME NEW name \in DOMAIN slots, ~Ignored(path, slots, name),
                    without(name) = Made(decl, i, path, slots, {})
             PROVE  \E hook \in without(name) : SpellsOut(slots, i, name, hook)
  BY DEF ArgumentsCount, path, slots, a
<1>6. CASE path = "c"
  <2>1. \A s : Made(decl, i, path, s, {}) = HookC(s, i, {})
    BY <1>6 DEF Made, MadeIn
  <2>2. QED
    BY <1>4, <1>5, <1>6, <2>1, CountsC
<1>7. CASE path = "com"
  <2>1. \A s : Made(decl, i, path, s, {}) = HookCom(s, i, ContextOf(decl), {})
    BY <1>7 DEF Made, MadeIn
  <2>2. QED
    BY <1>4, <1>5, <1>7, <2>1, CountsCom
<1>8. CASE path \in {"instance", "class"}
  <2> DEFINE kinded(s) == Over(s, [kind |-> IF path = "instance" THEN Instance ELSE Class])
             all(s) == IF decl.group = <<>> THEN kinded(s) ELSE MethodSlots(kinded(s), ContextOf(decl), i)
             less == Without(slots, {name})
  <2>1. \A s : Made(decl, i, path, s, {}) = HookObjc(all(s), i, {})
    BY <1>8 DEF Made, MadeIn
  <2>2. DOMAIN less = DOMAIN slots \ {name}
    BY LeftOut
  <2>3. name \in DOMAIN HookObjcArgs \ {"kind", "image"}
    BY <1>5, <1>8 DEF Ignored
  <2>4. \A s : /\ \A other \in DOMAIN s : other \in DOMAIN all(s) /\ all(s)[other] = s[other]
               /\ "original" \in DOMAIN s <=> "original" \in DOMAIN all(s)
    <3> TAKE s
    <3>1. /\ \A other \in DOMAIN s : other \in DOMAIN kinded(s) /\ kinded(s)[other] = s[other]
          /\ DOMAIN kinded(s) = DOMAIN s \cup {"kind"}
      BY DEF Over, SlotOr
    <3>2. CASE decl.group = <<>>
      BY <3>1, <3>2
    <3>3. CASE decl.group # <<>>
      <4> DEFINE others == Over([selector |-> ItemName(i)], Without(ContextOf(decl), {"image"}))
      <4>1. ~ComMethod(decl)
        BY <1>2, <1>8, <3>3 DEF OwnPaths
      <4>2. WellFormed(Group)
        BY <3>3 DEF Acceptable, Group
      <4>3. DOMAIN ContextOf(decl) \subseteq {"class", "image"}
        BY <3>3, <4>1, <4>2, ObjcContext
      <4>4. DOMAIN others \subseteq {"selector", "class"}
        BY <4>3 DEF Over, Without
      <4>5. all(s) = Over(kinded(s), others)
        BY <3>3 DEF MethodSlots
      <4> HIDE DEF kinded, others
      <4>6. DOMAIN Over(kinded(s), others) = DOMAIN kinded(s) \cup DOMAIN others
            /\ \A other \in DOMAIN kinded(s) : Over(kinded(s), others)[other] = kinded(s)[other]
        BY DEF Over, SlotOr
      <4> HIDE DEF all
      <4>7. QED
        BY <3>1, <4>4, <4>5, <4>6
    <3>4. QED
      BY <3>2, <3>3
  <2> HIDE DEF all, less
  <2>5. HookObjc(all(slots), i, {}) # {} /\ HookObjc(all(less), i, {}) = HookObjc(all(slots), i, {})
    BY <1>4, <2>1 DEF less
  <2>6. \E hook \in HookObjc(all(slots), i, {}) : SpellsOut(slots, i, name, hook)
    BY <1>5, <2>2, <2>3, <2>4, <2>5, CountsObjc
  <2>7. QED
    BY <2>1, <2>6
<1>9. QED
  BY <1>2, <1>6, <1>7, <1>8 DEF HookPath

\* A hooked function has a leading hook attribute, or the defaults, and what
\* that makes is observed as `observe` says.
LEMMA Leads ==
  ASSUME Declaration(decl), Acceptable(decl), NEW i \in Fns, Hooked(decl, i)
  PROVE  LET made == Made(decl, i, LeadPath(i), LeadSlots(i), Observed(decl, i))
         IN  /\ LeadPath(i) \in HookPath
             /\ decl.group # <<>> => LeadPath(i) \in OwnPaths(decl)
             /\ made # {} /\ made \subseteq HooksOf(decl, i)
<1>1. /\ HooksOf(decl, i) # {}
      /\ \A k \in Declaring(decl, i) : MadeAt(decl, i, k) # {}
  <2>1. FnAcceptable(decl, i)
    BY FnStatic DEF Acceptable, Fns
  <2>2. QED
    BY <2>1 DEF FnAcceptable
<1>2. CASE Declaring(decl, i) = {}
  <2>1. ComMethod(decl)
    BY <1>2 DEF Hooked
  <2>2. LeadPath(i) = "com" /\ LeadSlots(i) = NoSlots
    BY <1>2 DEF LeadPath, LeadSlots
  <2>3. HooksOf(decl, i) = Made(decl, i, "com", NoSlots, Observed(decl, i))
    BY <1>2, <2>1 DEF HooksOf
  <2>4. QED
    BY <1>1, <2>1, <2>2, <2>3 DEF OwnPaths, HookPath
<1>3. CASE Declaring(decl, i) # {}
  <2> DEFINE k == First(Declaring(decl, i))
  <2>1. Declaring(decl, i) \in SUBSET Nat
    <3>1. DOMAIN decl.fns[i].attrs \in SUBSET Nat
      BY DeclarationProps DEF Fns
    <3>2. QED
      BY <3>1 DEF Declaring, Among
  <2>2. k \in Declaring(decl, i) /\ \A l \in Declaring(decl, i) : k <= l
    BY <1>3, <2>1, FirstProps
  <2>3. LeadPath(i) = decl.fns[i].attrs[k].path /\ LeadSlots(i) = Meaning(decl.fns[i].attrs[k])
    BY <1>3 DEF LeadPath, LeadSlots
  <2> HIDE DEF k
  <2>4. /\ decl.fns[i].attrs[k].path \in HookPath
        /\ decl.group # <<>> => decl.fns[i].attrs[k].path \in OwnPaths(decl)
    BY <2>2 DEF Declaring, Among, OwnPaths, HookPath
  <2>5. MadeAt(decl, i, k) = Made(decl, i, LeadPath(i), LeadSlots(i), Observed(decl, i))
    BY <2>2, <2>3 DEF MadeAt
  <2>6. MadeAt(decl, i, k) \subseteq HooksOf(decl, i)
    BY <1>3, <2>2 DEF HooksOf
  <2>7. QED
    BY <1>1, <2>2, <2>3, <2>4, <2>5, <2>6
<1>4. QED
  BY <1>2, <1>3

\* The context of a COM impl block has an interface and an instance at most.
LEMMA ComContext ==
  ASSUME Declaration(decl), decl.group # <<>>, WellFormed(Group), ComMethod(decl)
  PROVE  DOMAIN ContextOf(decl) \subseteq {"interface", "instance"}
<1>1. Group.path = "com_impl" /\ ContextOf(decl) = Meaning(Group) /\ IsList(Group.args)
  BY GroupStatic
<1>2. Meaning(Group) = Says("com_impl", Group.args) /\ Readable("com_impl", Group.args)
  BY <1>1 DEF Meaning, WellFormed, GrammarOf
<1>3. ASSUME NEW n \in DOMAIN Group.args
      PROVE  Reads("com_impl", Group.args[n]) \in {"interface", "instance"}
  <2> DEFINE e == Group.args[n]
  <2>1. Reads("com_impl", e) = ReadsNested(HookComImplArgs, e) /\ Reads("com_impl", e) # "refused"
    BY <1>2 DEF Reads, TableOf, Readable
  <2> HIDE DEF e
  <2>2. Reads("com_impl", e) \in DOMAIN HookComImplArgs
    BY <2>1 DEF ReadsNested
  <2>3. QED
    BY <2>2 DEF HookComImplArgs, e
<1> DEFINE read == {Reads("com_impl", Group.args[n]) : n \in DOMAIN Group.args}
<1>4. read \subseteq {"interface", "instance"}
  BY <1>3
<1>5. DOMAIN Says("com_impl", Group.args) = read
  BY <1>1, <1>2, SaysNames
<1> HIDE DEF read
<1>6. QED
  BY <1>1, <1>2, <1>4, <1>5

\* An acceptable impl block loses no argument that a hook of it has a use for.
LEMMA BlockKept ==
  ASSUME Declaration(decl), Acceptable(decl), NEW name \in DOMAIN ContextOf(decl),
         NEW i \in Fns, Hooked(decl, i), ~Unused(i, name)
  PROVE  MadeIn(decl, Without(ContextOf(decl), {name}), i, LeadPath(i), LeadSlots(i), {})
           # Made(decl, i, LeadPath(i), LeadSlots(i), {})
<1> DEFINE context == ContextOf(decl)
           less == Without(context, {name})
           path == LeadPath(i)
           slots == LeadSlots(i)
<1>1. decl.group # <<>>
  BY DEF ContextOf, NoSlots
<1>2. WellFormed(Group)
  BY <1>1 DEF Acceptable, Group
<1>3. path \in OwnPaths(decl) /\ Made(decl, i, path, slots, {}) # {}
  <2>1. path \in OwnPaths(decl) /\ path \in HookPath /\ Made(decl, i, path, slots, Observed(decl, i)) # {}
    BY <1>1, Leads
  <2> HIDE DEF path, slots
  <2>2. QED
    BY <2>1, MadeProps
<1>4. DOMAIN less = DOMAIN context \ {name} /\ \A other \in DOMAIN less : less[other] = context[other]
  BY LeftOut
<1> HIDE DEF path, slots, less
<1>5. CASE ComMethod(decl)
  <2> DEFINE field == SlotOr(slots, "field", ComField(i))
             T(c, n) == [symbol |-> SlotOr(slots, "symbol", n),
                         route |-> ComRoute(slots, c, field),
                         install |-> ModuleSlice(slots, "imports"),
                         resolve |-> ModuleSlice(slots, "resolve_images")]
  <2>1. path = "com" /\ \A c : MadeIn(decl, c, i, path, slots, {}) = HookCom(slots, i, c, {})
    BY <1>3, <1>5 DEF OwnPaths, MadeIn
  <2>2. name \in {"interface", "instance"}
    BY <1>1, <1>2, <1>5, ComContext
  <2>3. \A c : \A h \in HookCom(slots, i, c, {}) : h.target.route = ComRoute(slots, c, field)
    <3> TAKE c
    <3> TAKE h \in HookCom(slots, i, c, {})
    <3>1. PICK n \in ComHookName(slots, i, c, field) : h = Hook("com", slots, i, {}, T(c, n), n)
      BY DEF HookCom
    <3>2. h.target = T(c, n)
      <4> HIDE DEF T
      <4>1. QED
        BY <3>1, HookParts
    <3>3. QED
      BY <3>2
  <2> HIDE DEF field, T
  <2>4. ASSUME "resolve" \notin DOMAIN slots, {"interface", "instance"} \subseteq DOMAIN context
        PROVE  HookCom(slots, i, less, {}) # HookCom(slots, i, context, {})
    <3>1. /\ ComRoute(slots, context, field) = <<context["interface"], context["instance"], field>>
          /\ ComRoute(slots, less, field) = <<>>
      BY <1>4, <2>2, <2>4 DEF ComRoute
    <3>2. \A a, b, c : <<a, b, c>> # <<>>
      OBVIOUS
    <3>3. HookCom(slots, i, context, {}) # {}
      BY <1>3, <2>1 DEF Made
    <3>4. QED
      BY <2>3, <3>1, <3>2, <3>3
  <2>5. HookCom(slots, i, less, {}) # HookCom(slots, i, context, {})
    <3>1. CASE name = "instance"
      BY <2>4, <3>1 DEF Unused, slots
    <3>2. CASE name = "interface" /\ {"name", "symbol"} \cap DOMAIN slots # {}
      BY <2>4, <3>2 DEF Unused, slots
    <3>3. CASE name = "interface" /\ {"name", "symbol"} \cap DOMAIN slots = {}
      <4>1. ComHookName(slots, i, less, field) = {}
        BY <1>4, <3>3 DEF ComHookName
      <4>2. HookCom(slots, i, less, {}) = {}
        BY <4>1 DEF HookCom, field
      <4>3. QED
        BY <1>3, <2>1, <4>2 DEF Made
    <3>4. QED
      BY <2>2, <3>1, <3>2, <3>3
  <2>6. QED
    BY <2>1, <2>5 DEF Made, path, slots, less
<1>6. CASE ~ComMethod(decl)
  <2> DEFINE kinded == Over(slots, [kind |-> IF path = "instance" THEN Instance ELSE Class])
             all == MethodSlots(kinded, less, i)
  <2>1. path \in {"instance", "class"}
    BY <1>3, <1>6 DEF OwnPaths
  <2>2. name = "class" /\ "class" \notin DOMAIN slots
    <3>1. name \in {"class", "image"}
      BY <1>1, <1>2, <1>6, ObjcContext
    <3>2. QED
      BY <3>1 DEF Unused, slots
  <2>3. MadeIn(decl, less, i, path, slots, {}) = HookObjc(all, i, {})
    BY <1>1, <2>1 DEF MadeIn
  <2>4. "class" \notin DOMAIN all
    <3>1. DOMAIN kinded = DOMAIN slots \cup {"kind"}
      BY DEF Over
    <3>2. DOMAIN all = DOMAIN kinded \cup ({"selector"} \cup (DOMAIN less \ {"image"}))
      BY DEF MethodSlots, Over, Without
    <3>3. QED
      BY <1>4, <2>2, <3>1, <3>2
  <2> HIDE DEF all
  <2>5. HookObjc(all, i, {}) = {}
    BY <2>4 DEF HookObjc
  <2>6. QED
    BY <1>3, <2>3, <2>5 DEF path, slots, less
<1>7. QED
  BY <1>5, <1>6

\* Every macro attribute of an acceptable declaration is dropped, as `Dropped`
\* says, or counts.
LEMMA AttributesKept ==
  ASSUME Declaration(decl), Acceptable(decl), Generated, Reported,
         NEW i \in Fns, NEW k \in Among(decl.fns[i].attrs, Macro), ~Dropped(i, k)
  PROVE  LET a == decl.fns[i].attrs[k]
         IN  \/ k \in Declaring(decl, i) /\ ArgumentsCount(i, k)
             \/ a.path = "observe"
                  /\ \E j \in DOMAIN hooks : hooks[j].fn = i /\ hooks[j].observe = {Meaning(a)}
             \/ a.path = "observer" /\ observers = <<Meaning(a)["default"]>>
<1> DEFINE list == decl.fns[i].attrs
           a == list[k]
<1>1. k \in DOMAIN list /\ a.path \in HookPath \cup {"observe", "observer"}
  BY DEF Among, Macro
<1>2. CASE a.path \in HookPath
  <2>1. CASE decl.group = <<>>
    <3>1. k \in Declaring(decl, i)
      BY <1>1, <1>2, <2>1 DEF Declaring, Among
    <3>2. QED
      BY <3>1, Counts
  <2>2. CASE decl.group # <<>>
    <3> DEFINE own == Among(list, OwnPaths(decl))
    <3>1. Among(list, (HookPath \cup {"observer"}) \ OwnPaths(decl)) = {}
      BY <2>2 DEF Acceptable, Fns
    <3>2. a.path \in OwnPaths(decl) /\ k \in own
      BY <1>1, <1>2, <3>1 DEF Among
    <3>3. own \in SUBSET Nat
      <4>1. DOMAIN list \in SUBSET Nat
        BY DeclarationProps DEF Fns
      <4>2. QED
        BY <4>1 DEF Among
    <3>4. Declaring(decl, i) = {l \in own : \A m \in own : l <= m}
      BY <2>2 DEF Declaring
    <3> HIDE DEF own
    <3>5. PICK l \in own : \A m \in own : l <= m
      BY <3>2, <3>3, LeastNumber
    <3>6. ~(l < k)
      BY <2>2, <3>2, <3>4, <3>5 DEF Dropped
    <3>7. l = k
      BY <3>2, <3>3, <3>5, <3>6
    <3>8. k \in Declaring(decl, i)
      BY <3>4, <3>5, <3>7
    <3>9. QED
      BY <3>8, Counts
  <2>3. QED
    BY <2>1, <2>2
<1>3. CASE a.path = "observe"
  <2>1. Hooked(decl, i)
    BY <1>3 DEF Dropped
  <2>2. Observed(decl, i) = {Meaning(a)}
    <3>1. k \in Watching(decl, i)
      BY <1>1, <1>3 DEF Watching, Among
    <3>2. FnAcceptable(decl, i)
      BY FnStatic DEF Acceptable, Fns
    <3>3. \A l, m \in Watching(decl, i) : l = m
      BY <2>1, <3>2 DEF FnAcceptable
    <3>4. QED
      BY <3>1, <3>3 DEF Observed
  <2> DEFINE made == Made(decl, i, LeadPath(i), LeadSlots(i), Observed(decl, i))
  <2>3. LeadPath(i) \in HookPath /\ made # {} /\ made \subseteq HooksOf(decl, i)
    BY <2>1, Leads
  <2>4. Single(made, i, GrammarOf(LeadPath(i)), Observed(decl, i))
    BY <2>3, MadeProps
  <2> HIDE DEF made
  <2>5. PICK h \in HooksOf(decl, i) : h.observe = {Meaning(a)}
    BY <2>2, <2>3, <2>4 DEF Single
  <2>6. \E j \in DOMAIN hooks : hooks[j].fn = i /\ hooks[j] = h
    <3>1. h \in {hooks[j] : j \in {j \in DOMAIN hooks : hooks[j].fn = i}}
      BY DEF Generated
    <3>2. QED
      BY <3>1
  <2>7. QED
    BY <1>3, <2>5, <2>6
<1>4. CASE a.path = "observer"
  <2>1. decl.group = <<>>
    <3>1. SUFFICES ASSUME decl.group # <<>> PROVE FALSE
      OBVIOUS
    <3>2. Among(list, (HookPath \cup {"observer"}) \ OwnPaths(decl)) = {}
      BY <3>1 DEF Acceptable, Fns
    <3>3. QED
      BY <1>1, <1>4, <3>2 DEF Among, OwnPaths
  <2>2. i = 1
    BY <2>1, FnStatic DEF Fns
  <2>3. k \in Defines
    BY <1>1, <1>4, <2>2 DEF Defines, Among, Written
  <2>4. QED
    BY <1>4, <2>1, <2>2, <2>3 DEF Reported, Written
<1>5. QED
  BY <1>1, <1>2, <1>3, <1>4

\* Whatever the items and their values, no argument that is accepted is lost but
\* those named: an impl block's that a hook has no use for, a hook's that nothing
\* reads, and those of the attributes that are dropped.
THEOREM CountsTheorem == Spec => []EveryArgumentCounts
<1>1. ASSUME Inv, status = "done" PROVE EveryArgumentCounts
  <2>1. Declaration(decl) /\ Acceptable(decl) /\ Generated /\ Reported
    BY <1>1, ItemsAssumption DEF Inv
  <2>2. BlockCounts
    BY <2>1, BlockKept DEF BlockCounts
  <2>3. QED
    BY <2>1, <2>2, AttributesKept DEF EveryArgumentCounts
<1>2. Inv => EveryArgumentCounts
  BY <1>1 DEF EveryArgumentCounts
<1>3. QED
  BY <1>2, InvAlways, PTL

=============================================================================
