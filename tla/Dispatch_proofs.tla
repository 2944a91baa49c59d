--------------------------- MODULE Dispatch_proofs ---------------------------
(***************************************************************************)
(* Proofs about Dispatch: a first hit is emitted once, forward!() runs its *)
(* fallback only in the window of its own installation, a call whose       *)
(* bodies all forward reaches everything it owes, stacks are bounded, and  *)
(* calls end.                                                              *)
(*                                                                         *)
(* A step is an installer's (a step of Install, which leaves the stacks    *)
(* alone) or a caller's (which leaves Install's variables alone). A        *)
(* caller's step pushes, pops or changes the innermost frame of one stack, *)
(* so every invariant is stated frame by frame.                            *)
(***************************************************************************)
EXTENDS Dispatch, InstallChain_proofs, FiniteSetTheorems, SequenceTheorems, WellFoundedInduction

Frame == [run : Impl \cup {Fallback}, at : {"head", "emit", "body", "done"},
          outer : BOOLEAN]

FramesOK ==
  /\ stack \in [Caller -> Seq(Frame)]
  /\ hit \subseteq Hook
  /\ emitted \in [Hook -> 0 .. 2]
  /\ owed \in [Caller -> SUBSET Impl]

\* A frame that has called another is past its gate.
PastGate ==
  \A c \in Caller : \A i \in 1 .. Len(stack[c]) - 1 : stack[c][i].at \in {"body", "done"}

\* The callers about to emit a hit of h.
Emitting(h) == {c \in Caller : Inside(c, "emit") /\ Run(c) = h}

\* The thread that closed the gate of h emits, or has emitted, once.
FirstHits ==
  \A h \in Hook : ModeOf[h] = "FirstHit" =>
    \/ h \notin hit /\ emitted[h] = 0 /\ Emitting(h) = {}
    \/ h \in hit /\ emitted[h] = 0 /\ \E c \in Caller : Emitting(h) = {c}
    \/ h \in hit /\ emitted[h] = 1 /\ Emitting(h) = {}

\* A hook that was never placed is nobody's original, published or about to be.
FreshUnpublished ==
  \A h \in Hook : below[h] = Unset =>
    (\A g \in Hook : original[g] # h) /\ (\A th \in Thread : held[th] # h)

\* Only a hook that was placed runs.
RunsPlaced ==
  \A c \in Caller : \A i \in 1 .. Len(stack[c]) :
    stack[c][i].run \in Hook => below[stack[c][i].run] # Unset

\* What is reached from x by going to what each hook displaced, which is b.
ClosedIn(b, S) == \A g \in S \cap Hook : b[g] # Unset => b[g] \in S
ReachedIn(b, x) == {y \in Impl : \A S \in SUBSET Impl : x \in S /\ ClosedIn(b, S) => y \in S}

\* The code at a target reaches the genuine implementation and every placed hook.
Rooted ==
  \A t \in Target :
    \A x \in {Real} \cup {h \in Hook : TargetOf[h] = t /\ below[h] # Unset} :
      x \in ReachedIn(below, entry[t])

\* The program's call and its forwards come before what an observer calls.
OuterFirst ==
  \A c \in Caller : \A i \in 1 .. Len(stack[c]) :
    /\ i = 1 => stack[c][i].outer
    /\ stack[c][i].outer => \A j \in 1 .. i : stack[c][j].outer

\* What a call owes, o, lies below its innermost outer frame, and nothing is owed
\* once that frame has handed the call on or answered it.
Due(b, o, frame) ==
  IF frame.run \in Hook /\ frame.at # "done"
  THEN o \subseteq ReachedIn(b, b[frame.run])
  ELSE o = {}

InnermostOuter(s, i) == s[i].outer /\ (i < Len(s) => ~s[i + 1].outer)

OwedBelow ==
  \A c \in Caller :
    /\ stack[c] = <<>> => owed[c] = {}
    /\ \A i \in 1 .. Len(stack[c]) :
         InnermostOuter(stack[c], i) => Due(below, owed[c], stack[c][i])

------------------------------------------------------------------------------
(* The parts of a step.                                                      *)

Label == {"head", "emit", "body", "done"}

\* The innermost frame of c goes to label; what is called, if anything, is callee.
Moved(c, label) ==
  /\ Len(stack[c]) \in Nat \ {0}
  /\ stack' \in [Caller -> Seq(Frame)]
  /\ Len(stack'[c]) >= Len(stack[c])
  /\ \A i \in 1 .. Len(stack[c]) - 1 : stack'[c][i] = stack[c][i]
  /\ stack'[c][Len(stack[c])] = [Top(c) EXCEPT !.at = label]
  /\ \A d \in Caller \ {c} : stack'[d] = stack[d]

LEMMA FrameParts ==
  ASSUME FramesOK, NEW c \in Caller
  PROVE  /\ stack[c] \in Seq(Frame) /\ Len(stack[c]) \in Nat
         /\ stack[c] # <<>> <=> Len(stack[c]) > 0
         /\ \A i \in 1 .. Len(stack[c]) : stack[c][i] \in Frame
         /\ stack[c] # <<>> => Top(c) \in Frame /\ Run(c) \in Impl \cup {Fallback}
<1>1. stack[c] \in Seq(Frame)
  BY DEF FramesOK
<1>2. Len(stack[c]) \in Nat /\ \A i \in 1 .. Len(stack[c]) : stack[c][i] \in Frame
  BY <1>1
<1>3. stack[c] # <<>> <=> Len(stack[c]) > 0
  BY <1>1, EmptySeq
<1>4. stack[c] # <<>> => Top(c) \in Frame
  BY <1>2, <1>3 DEF Top
<1>5. stack[c] # <<>> => Run(c) \in Impl \cup {Fallback}
  BY <1>4 DEF Run, Frame
<1>6. QED
  BY <1>1, <1>2, <1>3, <1>4, <1>5

LEMMA SettleParts ==
  ASSUME FramesOK, NEW c \in Caller, stack[c] # <<>>,
         NEW label \in Label, Advance(c, label, <<>>)
  PROVE  Moved(c, label) /\ Len(stack'[c]) = Len(stack[c])
<1> DEFINE n == Len(stack[c])
           moved == [stack[c] EXCEPT ![n].at = label]
<1>1. n \in Nat \ {0} /\ stack[c] \in Seq(Frame) /\ stack[c][n] \in Frame
  BY FrameParts
<1>2. moved \in Seq(Frame) /\ Len(moved) = n
  BY <1>1 DEF Frame, Label
<1>3. moved \o <<>> = moved
  BY <1>2
<1>4. stack' = [stack EXCEPT ![c] = moved]
  BY <1>3 DEF Advance, FramesOK
<1>5. QED
  BY <1>1, <1>2, <1>4 DEF Moved, FramesOK, Top

LEMMA CallParts ==
  ASSUME FramesOK, NEW c \in Caller, stack[c] # <<>>,
         NEW label \in Label, NEW f \in Frame, Advance(c, label, <<f>>)
  PROVE  /\ Moved(c, label)
         /\ Len(stack'[c]) = Len(stack[c]) + 1
         /\ stack'[c][Len(stack[c]) + 1] = f
<1> DEFINE n == Len(stack[c])
           moved == [stack[c] EXCEPT ![n].at = label]
<1>1. n \in Nat \ {0} /\ stack[c] \in Seq(Frame) /\ stack[c][n] \in Frame
  BY FrameParts
<1>2. moved \in Seq(Frame) /\ Len(moved) = n
  BY <1>1 DEF Frame, Label
<1>3. /\ moved \o <<f>> \in Seq(Frame)
      /\ Len(moved \o <<f>>) = n + 1
      /\ (moved \o <<f>>)[n + 1] = f
      /\ \A i \in 1 .. n : (moved \o <<f>>)[i] = moved[i]
  BY <1>2
<1>4. stack' = [stack EXCEPT ![c] = moved \o <<f>>]
  BY DEF Advance, FramesOK
<1>5. stack'[c] = moved \o <<f>> /\ stack' \in [Caller -> Seq(Frame)]
      /\ \A d \in Caller \ {c} : stack'[d] = stack[d]
  BY <1>3, <1>4 DEF FramesOK
<1>6. /\ \A i \in 1 .. n - 1 : stack'[c][i] = stack[c][i]
      /\ stack'[c][n] = [Top(c) EXCEPT !.at = label]
      /\ Len(stack'[c]) = n + 1
      /\ stack'[c][n + 1] = f
  BY <1>1, <1>2, <1>3, <1>5 DEF Top
<1>7. QED
  BY <1>1, <1>5, <1>6 DEF Moved

LEMMA ReturnParts ==
  ASSUME FramesOK, NEW c \in Caller, Return(c)
  PROVE  /\ Len(stack[c]) \in Nat \ {0}
         /\ stack' \in [Caller -> Seq(Frame)]
         /\ Len(stack'[c]) = Len(stack[c]) - 1
         /\ \A i \in 1 .. Len(stack[c]) - 1 : stack'[c][i] = stack[c][i]
         /\ \A d \in Caller \ {c} : stack'[d] = stack[d]
<1> DEFINE n == Len(stack[c])
           rest == SubSeq(stack[c], 1, n - 1)
<1>1. n \in Nat \ {0} /\ stack[c] \in Seq(Frame)
  BY FrameParts DEF Return
<1>2. rest \in Seq(Frame) /\ Len(rest) = n - 1 /\ \A i \in 1 .. n - 1 : rest[i] = stack[c][i]
  BY <1>1
<1>3. stack' = [stack EXCEPT ![c] = rest]
  BY DEF Return, FramesOK
<1>4. QED
  BY <1>1, <1>2, <1>3 DEF FramesOK

LEMMA OneFrame ==
  ASSUME NEW f \in Frame
  PROVE  <<f>> \in Seq(Frame) /\ Len(<<f>>) = 1 /\ <<f>>[1] = f
OBVIOUS

LEMMA EnterParts ==
  ASSUME FramesOK, TypeOK, NEW c \in Caller, NEW t \in Target, Enter(c, t)
  PROVE  /\ stack' \in [Caller -> Seq(Frame)]
         /\ Len(stack'[c]) = 1
         /\ stack'[c][1] = Start(entry[t], TRUE)
         /\ \A d \in Caller \ {c} : stack'[d] = stack[d]
<1> DEFINE f == Start(entry[t], TRUE)
<1>1. f \in Frame
  BY DEF TypeOK, Start, Frame
<1>2. <<f>> \in Seq(Frame) /\ Len(<<f>>) = 1 /\ <<f>>[1] = f
  BY <1>1, OneFrame
<1>3. stack' = [stack EXCEPT ![c] = <<f>>]
  BY DEF Enter
<1>4. QED
  BY <1>2, <1>3 DEF FramesOK

LEMMA PassParts ==
  ASSUME FramesOK, NEW c \in Caller, PassOff(c) \/ PassFirst(c) \/ PassEvery(c)
  PROVE  /\ Inside(c, "head") /\ stack[c] # <<>>
         /\ \E label \in {"emit", "body"} : Moved(c, label)
         /\ Len(stack'[c]) = Len(stack[c])
         /\ UNCHANGED <<vars, emitted, owed>>
         /\ hit' = hit \/ hit' = hit \cup {Run(c)}
<1>1. Inside(c, "head") /\ stack[c] # <<>>
  BY DEF PassOff, PassFirst, PassEvery, Inside
<1>2. \E label \in {"emit", "body"} : Advance(c, label, <<>>)
  BY DEF PassOff, PassFirst, PassEvery
<1>3. \E label \in {"emit", "body"} : Moved(c, label) /\ Len(stack'[c]) = Len(stack[c])
  BY <1>1, <1>2, SettleParts DEF Label
<1>4. QED
  BY <1>1, <1>3 DEF PassOff, PassFirst, PassEvery

LEMMA EmitParts ==
  ASSUME FramesOK, TypeOK, NEW c \in Caller, Emit(c)
  PROVE  /\ Inside(c, "emit") /\ stack[c] # <<>>
         /\ Moved(c, "body")
         /\ \/ Len(stack'[c]) = Len(stack[c])
            \/ /\ Len(stack'[c]) = Len(stack[c]) + 1
               /\ \E t \in Target : stack'[c][Len(stack[c]) + 1] = Start(entry[t], FALSE)
         /\ UNCHANGED <<vars, hit, owed>>
<1> DEFINE t == Observer[Run(c)]
<1>1. Inside(c, "emit") /\ stack[c] # <<>> /\ Run(c) \in Hook
  BY DEF Emit, Inside
<1>2. CASE t = Nothing
  <2>1. Advance(c, "body", <<>>)
    BY <1>2 DEF Emit
  <2>2. QED
    BY <1>1, <2>1, SettleParts DEF Label, Emit
<1>3. CASE t # Nothing
  <2>1. t \in Target
    BY <1>1, <1>3, DispatchAssumption
  <2>2. Start(entry[t], FALSE) \in Frame
    BY <2>1 DEF TypeOK, Start, Frame
  <2>3. Advance(c, "body", <<Start(entry[t], FALSE)>>)
    BY <1>3 DEF Emit
  <2>4. QED
    BY <1>1, <2>1, <2>2, <2>3, CallParts DEF Label, Emit
<1>4. QED
  BY <1>2, <1>3

LEMMA ForwardParts ==
  ASSUME FramesOK, TypeOK, NEW c \in Caller, Forward(c)
  PROVE  /\ Inside(c, "body") /\ stack[c] # <<>>
         /\ Moved(c, "done")
         /\ Len(stack'[c]) = Len(stack[c]) + 1
         /\ stack'[c][Len(stack[c]) + 1] = Start(Original(Run(c)), Top(c).outer)
         /\ UNCHANGED <<vars, hit, emitted>>
<1> DEFINE f == Start(Original(Run(c)), Top(c).outer)
<1>1. Inside(c, "body") /\ stack[c] # <<>> /\ Run(c) \in Hook
  BY DEF Forward, Inside
<1>2. Original(Run(c)) \in Impl \cup {Fallback}
  BY <1>1 DEF Original, Installed, TypeOK
<1>3. Top(c).outer \in BOOLEAN
  BY <1>1, FrameParts DEF Frame
<1>4. f \in Frame
  BY <1>2, <1>3 DEF Start, Frame
<1>5. Advance(c, "done", <<f>>)
  BY DEF Forward
<1>6. QED
  BY <1>1, <1>4, <1>5, CallParts DEF Label, Forward

LEMMA AnswerParts ==
  ASSUME FramesOK, NEW c \in Caller, Answer(c)
  PROVE  /\ Inside(c, "body") /\ stack[c] # <<>>
         /\ Moved(c, "done")
         /\ Len(stack'[c]) = Len(stack[c])
         /\ UNCHANGED <<vars, hit, emitted>>
<1>1. Inside(c, "body") /\ stack[c] # <<>>
  BY DEF Answer, Inside
<1>2. Advance(c, "done", <<>>)
  BY DEF Answer
<1>3. QED
  BY <1>1, <1>2, SettleParts DEF Label, Answer

\* A caller's step leaves the installation alone.
LEMMA DispatchKinds ==
  ASSUME [DispatchNext]_<<vars, calls>>
  PROVE  \/ [Next]_vars /\ UNCHANGED calls
         \/ UNCHANGED vars /\ \E c \in Caller :
              \/ \E t \in Target : Enter(c, t)
              \/ PassOff(c) \/ PassFirst(c) \/ PassEvery(c)
              \/ Emit(c) \/ Forward(c) \/ Answer(c) \/ Return(c)
BY DEF DispatchNext, CallStep, Enter, PassOff, PassFirst, PassEvery, Emit,
       Forward, Answer, Return

\* The callers do not disturb the installers (Dispatch implements Install).
THEOREM DispatchImplementsInstall == DispatchSpec => Spec
<1>1. DispatchInit => Init
  BY DEF DispatchInit
<1>2. [DispatchNext]_<<vars, calls>> => [Next]_vars
  BY DispatchKinds
<1>3. QED
  BY <1>1, <1>2, PTL DEF DispatchSpec, Spec

LEMMA DispatchTypeCorrect == DispatchSpec => []TypeOK
BY DispatchImplementsInstall, TypeCorrect, PTL

\* Stacks hold frames, and the gates and counters keep to their sets.
LEMMA FramesInvariant == DispatchSpec => []FramesOK
<1>1. DispatchInit => FramesOK
  BY EmptySeq DEF DispatchInit, FramesOK
<1>2. TypeOK /\ FramesOK /\ [DispatchNext]_<<vars, calls>> => FramesOK'
  <2> SUFFICES ASSUME TypeOK, FramesOK, [DispatchNext]_<<vars, calls>>
               PROVE  FramesOK'
    OBVIOUS
  <2>1. CASE UNCHANGED calls
    BY <2>1 DEF FramesOK, calls
  <2>2. ASSUME NEW c \in Caller, NEW t \in Target, Enter(c, t) PROVE FramesOK'
    BY <2>2, EnterParts DEF FramesOK, Enter, Impl
  <2>3. ASSUME NEW c \in Caller, PassOff(c) \/ PassFirst(c) \/ PassEvery(c)
        PROVE  FramesOK'
    BY <2>3, PassParts DEF FramesOK, Moved, Inside
  <2>4. ASSUME NEW c \in Caller, Emit(c) PROVE FramesOK'
    <3>1. emitted' \in [Hook -> 0 .. 2]
      <4>1. emitted' = [emitted EXCEPT ![Run(c)] = IF @ < 2 THEN @ + 1 ELSE @]
        BY <2>4 DEF Emit
      <4>2. \A h \in Hook : emitted[h] \in 0 .. 2 /\ (emitted[h] < 2 => emitted[h] + 1 \in 0 .. 2)
        BY DEF FramesOK
      <4>3. QED
        BY <4>1, <4>2 DEF FramesOK
    <3>2. QED
      BY <2>4, <3>1, EmitParts DEF FramesOK, Moved
  <2>5. ASSUME NEW c \in Caller, Forward(c) PROVE FramesOK'
    BY <2>5, ForwardParts DEF FramesOK, Moved, Forward
  <2>6. ASSUME NEW c \in Caller, Answer(c) PROVE FramesOK'
    BY <2>6, AnswerParts DEF FramesOK, Moved, Answer
  <2>7. ASSUME NEW c \in Caller, Return(c) PROVE FramesOK'
    BY <2>7, ReturnParts DEF FramesOK, Return
  <2>8. QED
    BY <2>1, <2>2, <2>3, <2>4, <2>5, <2>6, <2>7, DispatchKinds
<1>3. QED
  BY <1>1, <1>2, DispatchTypeCorrect, PTL DEF DispatchSpec

------------------------------------------------------------------------------
(* A first hit is emitted once.                                              *)

LEMMA MovedPast ==
  ASSUME FramesOK, PastGate, NEW c \in Caller, NEW label \in Label, Moved(c, label),
         \/ Len(stack'[c]) = Len(stack[c])
         \/ Len(stack'[c]) = Len(stack[c]) + 1 /\ label \in {"body", "done"}
  PROVE  PastGate'
<1> SUFFICES ASSUME NEW d \in Caller, NEW i \in 1 .. Len(stack'[d]) - 1
             PROVE  stack'[d][i].at \in {"body", "done"}
  BY DEF PastGate
<1>1. CASE d # c
  BY <1>1 DEF Moved, PastGate
<1>2. CASE d = c /\ i < Len(stack[c])
  BY <1>2, FrameParts DEF Moved, PastGate
<1>3. CASE d = c /\ i >= Len(stack[c])
  <2>1. i = Len(stack[c]) /\ label \in {"body", "done"}
    BY <1>3, FrameParts
  <2>2. stack'[c][i] = [Top(c) EXCEPT !.at = label] /\ Top(c) \in Frame
    BY <2>1, FrameParts DEF Moved
  <2>3. QED
    BY <1>3, <2>1, <2>2 DEF Frame
<1>4. QED
  BY <1>1, <1>2, <1>3, FrameParts

LEMMA PastGateStep ==
  ASSUME TypeOK, FramesOK, PastGate, [DispatchNext]_<<vars, calls>>
  PROVE  PastGate'
<1>1. CASE UNCHANGED calls
  BY <1>1 DEF calls, PastGate
<1>2. ASSUME NEW c \in Caller, NEW t \in Target, Enter(c, t) PROVE PastGate'
  <2>1. Len(stack'[c]) = 1 /\ \A d \in Caller \ {c} : stack'[d] = stack[d]
    BY <1>2, EnterParts
  <2>2. \A i \in 1 .. Len(stack'[c]) - 1 : FALSE
    BY <2>1
  <2>3. QED
    BY <2>1, <2>2 DEF PastGate
<1>3. ASSUME NEW c \in Caller, PassOff(c) \/ PassFirst(c) \/ PassEvery(c)
      PROVE  PastGate'
  BY <1>3, PassParts, MovedPast DEF Label
<1>4. ASSUME NEW c \in Caller, Emit(c) PROVE PastGate'
  BY <1>4, EmitParts, MovedPast DEF Label
<1>5. ASSUME NEW c \in Caller, Forward(c) PROVE PastGate'
  BY <1>5, ForwardParts, MovedPast DEF Label
<1>6. ASSUME NEW c \in Caller, Answer(c) PROVE PastGate'
  BY <1>6, AnswerParts, MovedPast DEF Label
<1>7. ASSUME NEW c \in Caller, Return(c) PROVE PastGate'
  <2>1. ASSUME NEW d \in Caller, NEW i \in 1 .. Len(stack'[d]) - 1
        PROVE  stack'[d][i].at \in {"body", "done"}
    <3>1. CASE d = c
      BY <1>7, <2>1, <3>1, ReturnParts DEF PastGate
    <3>2. CASE d # c
      BY <1>7, <2>1, <3>2, ReturnParts DEF PastGate
    <3>3. QED
      BY <3>1, <3>2
  <2>2. QED
    BY <2>1 DEF PastGate
<1>8. QED
  BY <1>1, <1>2, <1>3, <1>4, <1>5, <1>6, <1>7, DispatchKinds

LEMMA TopMoved ==
  ASSUME FramesOK, NEW c \in Caller, NEW label \in Label, Moved(c, label)
  PROVE  /\ stack'[c] # <<>>
         /\ Len(stack'[c]) = Len(stack[c])
              => /\ (Top(c)').at = label /\ (Top(c)').run = Run(c)
                 /\ (Top(c)').outer = Top(c).outer
         /\ Len(stack'[c]) = Len(stack[c]) + 1
              => Top(c)' = stack'[c][Len(stack[c]) + 1]
<1>1. Len(stack[c]) \in Nat \ {0} /\ Len(stack'[c]) >= Len(stack[c]) /\ stack[c] # <<>>
  BY FrameParts DEF Moved
<1>2. Top(c) \in Frame /\ stack'[c] \in Seq(Frame)
  BY <1>1, FrameParts DEF Moved
<1>3. stack'[c] # <<>>
  BY <1>1, <1>2, EmptySeq
<1>4. ASSUME Len(stack'[c]) = Len(stack[c]) PROVE Top(c)' = [Top(c) EXCEPT !.at = label]
  BY <1>4 DEF Moved, Top
<1>5. ASSUME Len(stack'[c]) = Len(stack[c]) + 1 PROVE Top(c)' = stack'[c][Len(stack[c]) + 1]
  BY <1>5 DEF Top
<1>6. QED
  BY <1>2, <1>3, <1>4, <1>5 DEF Frame, Run

\* Whether c emits after a step is a matter of its innermost frame.
LEMMA EmittingAfter ==
  ASSUME FramesOK, NEW c \in Caller, NEW h \in Hook,
         \A d \in Caller \ {c} : stack'[d] = stack[d]
  PROVE  /\ \A d \in Caller \ {c} : d \in Emitting(h)' <=> d \in Emitting(h)
         /\ c \in Emitting(h)' <=> /\ stack'[c] # <<>>
                                   /\ (Top(c)').run = h /\ (Top(c)').at = "emit"
         /\ c \in Emitting(h) <=> /\ stack[c] # <<>>
                                  /\ Run(c) = h /\ Top(c).at = "emit"
BY DEF Emitting, Inside, Run, Top

LEMMA EmittingSame ==
  ASSUME FramesOK, NEW c \in Caller, NEW h \in Hook,
         \A d \in Caller \ {c} : stack'[d] = stack[d],
         c \in Emitting(h)' <=> c \in Emitting(h)
  PROVE  Emitting(h)' = Emitting(h)
<1>1. \A d \in Caller : d \in Emitting(h)' <=> d \in Emitting(h)
  BY EmittingAfter
<1>2. Emitting(h) \subseteq Caller /\ Emitting(h)' \subseteq Caller
  BY DEF Emitting
<1>3. QED
  BY <1>1, <1>2

LEMMA FirstHitsStep ==
  ASSUME TypeOK, FramesOK, PastGate, FirstHits, [DispatchNext]_<<vars, calls>>
  PROVE  FirstHits'
<1> SUFFICES ASSUME NEW h \in Hook, ModeOf[h] = "FirstHit"
             PROVE  \/ h \notin hit' /\ emitted'[h] = 0 /\ Emitting(h)' = {}
                    \/ h \in hit' /\ emitted'[h] = 0 /\ \E c \in Caller : Emitting(h)' = {c}
                    \/ h \in hit' /\ emitted'[h] = 1 /\ Emitting(h)' = {}
  BY DEF FirstHits
<1> DEFINE Goal == \/ h \notin hit' /\ emitted'[h] = 0 /\ Emitting(h)' = {}
                   \/ h \in hit' /\ emitted'[h] = 0 /\ \E c \in Caller : Emitting(h)' = {c}
                   \/ h \in hit' /\ emitted'[h] = 1 /\ Emitting(h)' = {}
<1>1. \/ h \notin hit /\ emitted[h] = 0 /\ Emitting(h) = {}
      \/ h \in hit /\ emitted[h] = 0 /\ \E c \in Caller : Emitting(h) = {c}
      \/ h \in hit /\ emitted[h] = 1 /\ Emitting(h) = {}
  BY DEF FirstHits
<1>2. Emitting(h) \subseteq Caller /\ Emitting(h)' \subseteq Caller
  BY DEF Emitting
<1>3. CASE UNCHANGED calls
  BY <1>1, <1>3 DEF calls, Emitting, Inside, Run, Top
<1>4. ASSUME Emitting(h)' = Emitting(h), UNCHANGED <<hit, emitted>> PROVE Goal
  BY <1>1, <1>4
<1>5. ASSUME NEW c \in Caller, NEW t \in Target, Enter(c, t) PROVE Goal
  <2>1. Top(c)' = Start(entry[t], TRUE) /\ stack[c] = <<>>
    BY <1>5, EnterParts DEF Top, Enter
  <2>2. c \notin Emitting(h)' /\ c \notin Emitting(h)
    BY <1>5, <2>1, EnterParts, EmittingAfter DEF Start
  <2>3. Emitting(h)' = Emitting(h)
    BY <1>5, <2>2, EnterParts, EmittingSame
  <2>4. QED
    BY <1>4, <1>5, <2>3 DEF Enter
<1>6. ASSUME NEW c \in Caller, PassOff(c) \/ PassEvery(c) PROVE Goal
  <2>1. Run(c) # h /\ Top(c).at = "head"
    BY <1>6 DEF PassOff, PassEvery, Inside
  <2>2. c \notin Emitting(h)' /\ c \notin Emitting(h)
    BY <1>6, <2>1, PassParts, TopMoved, EmittingAfter, ZenonT(30) DEF Moved, Label
  <2>3. Emitting(h)' = Emitting(h)
    BY <1>6, <2>2, PassParts, EmittingSame DEF Moved
  <2>4. QED
    BY <1>4, <1>6, <2>3 DEF PassOff, PassEvery
<1>7. ASSUME NEW c \in Caller, PassFirst(c) PROVE Goal
  <2> DEFINE label == IF Run(c) \in hit THEN "body" ELSE "emit"
  <2>1. Top(c).at = "head" /\ stack[c] # <<>> /\ Run(c) \in Hook
    BY <1>7 DEF PassFirst, Inside
  <2>2. Moved(c, label) /\ Len(stack'[c]) = Len(stack[c])
    BY <1>7, <2>1, SettleParts DEF PassFirst, Label
  <2>3. /\ c \notin Emitting(h)
        /\ c \in Emitting(h)' <=> Run(c) = h /\ h \notin hit
        /\ \A d \in Caller \ {c} : d \in Emitting(h)' <=> d \in Emitting(h)
    <3>1. label \in Label /\ (label = "emit" <=> Run(c) \notin hit)
      BY DEF Label
    <3>2. stack'[c] # <<>> /\ (Top(c)').at = label /\ (Top(c)').run = Run(c)
      BY <2>2, <3>1, TopMoved
    <3>3. \A d \in Caller \ {c} : stack'[d] = stack[d]
      BY <2>2 DEF Moved
    <3>4. QED
      BY <2>1, <3>1, <3>2, <3>3, EmittingAfter
  <2>4. hit' = hit \cup {Run(c)} /\ emitted' = emitted
    BY <1>7 DEF PassFirst
  <2>5. CASE Run(c) = h /\ h \notin hit
    <3>1. Emitting(h)' = {c}
      BY <1>1, <1>2, <2>3, <2>5
    <3>2. QED
      BY <1>1, <2>4, <2>5, <3>1
  <2>6. CASE ~(Run(c) = h /\ h \notin hit)
    <3>1. Emitting(h)' = Emitting(h)
      BY <1>2, <2>3, <2>6
    <3>2. h \in hit' <=> h \in hit
      BY <2>4, <2>6
    <3>3. QED
      BY <1>1, <2>4, <3>1, <3>2
  <2>7. QED
    BY <2>5, <2>6
<1>8. ASSUME NEW c \in Caller, Emit(c) PROVE Goal
  <2>1. Top(c).at = "emit" /\ stack[c] # <<>> /\ Run(c) \in Hook
    BY <1>8 DEF Emit, Inside
  <2>2. (Top(c)').at # "emit"
    <3>1. CASE Len(stack'[c]) = Len(stack[c])
      BY <1>8, <3>1, EmitParts, TopMoved DEF Label
    <3>2. CASE Len(stack'[c]) = Len(stack[c]) + 1
      <4>1. \E t \in Target : stack'[c][Len(stack[c]) + 1] = Start(entry[t], FALSE)
        <5>1. Len(stack'[c]) # Len(stack[c])
          BY <3>2, FrameParts
        <5>2. QED
          BY <1>8, <5>1, EmitParts
      <4>2. Top(c)' = stack'[c][Len(stack[c]) + 1]
        BY <1>8, <3>2, EmitParts, TopMoved DEF Label
      <4>3. QED
        BY <4>1, <4>2 DEF Start
    <3>3. QED
      BY <1>8, <3>1, <3>2, EmitParts
  <2>3. /\ c \notin Emitting(h)'
        /\ c \in Emitting(h) <=> Run(c) = h
        /\ \A d \in Caller \ {c} : d \in Emitting(h)' <=> d \in Emitting(h)
    BY <1>8, <2>1, <2>2, EmitParts, EmittingAfter DEF Moved
  <2>4. hit' = hit /\ emitted'[h] = IF Run(c) = h /\ emitted[h] < 2
                                  THEN emitted[h] + 1 ELSE emitted[h]
    BY <1>8, <2>1 DEF Emit, FramesOK
  <2>5. CASE Run(c) = h
    <3>1. h \in hit /\ emitted[h] = 0 /\ Emitting(h) = {c}
      BY <1>1, <2>3, <2>5
    <3>2. Emitting(h)' = {} /\ emitted'[h] = 1
      BY <1>2, <2>3, <2>4, <2>5, <3>1
    <3>3. QED
      BY <2>4, <3>1, <3>2
  <2>6. CASE Run(c) # h
    <3>1. Emitting(h)' = Emitting(h)
      BY <1>2, <2>3, <2>6
    <3>2. QED
      BY <1>1, <2>4, <2>6, <3>1
  <2>7. QED
    BY <2>5, <2>6
<1>9. ASSUME NEW c \in Caller, Forward(c) \/ Answer(c) PROVE Goal
  <2>1. Top(c).at = "body"
    BY <1>9 DEF Forward, Answer, Inside
  <2>2. (Top(c)').at # "emit" /\ \A d \in Caller \ {c} : stack'[d] = stack[d]
    <3>1. CASE Answer(c)
      BY <3>1, AnswerParts, TopMoved DEF Label, Moved
    <3>2. CASE Forward(c)
      <4>1. Top(c)' = Start(Original(Run(c)), Top(c).outer)
        BY <3>2, ForwardParts, TopMoved DEF Label
      <4>2. (Top(c)').at = "head"
        BY <4>1 DEF Start
      <4>3. QED
        BY <3>2, <4>2, ForwardParts DEF Moved
    <3>3. QED
      BY <1>9, <3>1, <3>2
  <2>3. Emitting(h)' = Emitting(h)
    BY <2>1, <2>2, EmittingAfter, EmittingSame
  <2>4. QED
    BY <1>4, <1>9, <2>3, ForwardParts, AnswerParts
<1>10. ASSUME NEW c \in Caller, Return(c) PROVE Goal
  <2>1. ~(Run(c) = h /\ Top(c).at = "emit")
    BY <1>10 DEF Return
  <2>2. stack'[c] # <<>> => (Top(c)').at # "emit"
    <3>1. ASSUME stack'[c] # <<>>
          PROVE  /\ Len(stack[c]) - 1 \in 1 .. Len(stack[c]) - 1
                 /\ Top(c)' = stack[c][Len(stack[c]) - 1]
      BY <1>10, <3>1, ReturnParts, EmptySeq DEF Top
    <3>2. QED
      BY <3>1 DEF PastGate
  <2>3. Emitting(h)' = Emitting(h)
    BY <1>10, <2>1, <2>2, ReturnParts, EmittingAfter, EmittingSame
  <2>4. QED
    BY <1>4, <1>10, <2>3 DEF Return
<1>11. QED
  BY <1>3, <1>5, <1>6, <1>7, <1>8, <1>9, <1>10, DispatchKinds

LEMMA HitsInvariant == DispatchSpec => [](PastGate /\ FirstHits)
<1>1. DispatchInit => PastGate /\ FirstHits
  BY DEF DispatchInit, PastGate, FirstHits, Emitting, Inside
<1>2. TypeOK /\ FramesOK /\ PastGate /\ FirstHits /\ [DispatchNext]_<<vars, calls>>
        => PastGate' /\ FirstHits'
  BY PastGateStep, FirstHitsStep
<1>3. QED
  BY <1>1, <1>2, DispatchTypeCorrect, FramesInvariant, PTL DEF DispatchSpec

\* A FirstHit hook tells its observer of one hit per process: of the thread that
\* closed its gate, whoever else is in the hook and whatever the observer calls.
THEOREM FirstHitTheorem == DispatchSpec => []FirstHitExactlyOnce
<1>1. FramesOK /\ PastGate /\ FirstHits => FirstHitExactlyOnce
  <2> SUFFICES ASSUME FramesOK, PastGate, FirstHits, NEW h \in Hook, ModeOf[h] = "FirstHit"
               PROVE  emitted[h] + Cardinality({c \in Caller :
                        \E i \in DOMAIN stack[c] :
                          stack[c][i].run = h /\ stack[c][i].at = "emit"})
                        = IF h \in hit THEN 1 ELSE 0
    BY DEF FirstHitExactlyOnce
  <2> DEFINE E == {c \in Caller : \E i \in DOMAIN stack[c] :
                     stack[c][i].run = h /\ stack[c][i].at = "emit"}
  <2>1. ASSUME NEW c \in Caller
        PROVE  (\E i \in DOMAIN stack[c] : stack[c][i].run = h /\ stack[c][i].at = "emit")
                 <=> Inside(c, "emit") /\ Run(c) = h
    <3>1. DOMAIN stack[c] = 1 .. Len(stack[c]) /\ Len(stack[c]) \in Nat
      BY FrameParts
    <3>2. ASSUME NEW i \in 1 .. Len(stack[c]), stack[c][i].at = "emit"
          PROVE  i = Len(stack[c])
      BY <3>1, <3>2 DEF PastGate
    <3>3. QED
      BY <3>1, <3>2, FrameParts DEF Inside, Run, Top
  <2>2. E = Emitting(h)
    BY <2>1 DEF Emitting
  <2>3. Cardinality({}) = 0 /\ \A c \in Caller : Cardinality({c}) = 1
    BY FS_EmptySet, FS_Singleton
  <2>4. QED
    BY <2>2, <2>3 DEF FirstHits
<1>2. QED
  BY <1>1, HitsInvariant, FramesInvariant, PTL

------------------------------------------------------------------------------
(* forward!() runs its fallback only in the window of its own installation.   *)

LEMMA FallbackApart == Fallback \notin Impl /\ Fallback # Unset /\ Fallback \notin Hook
BY DEF Fallback, Impl, Hook, Real, Unset

\* What a hook has displaced may change, but it does not become nothing.
LEMMA BelowStays ==
  ASSUME TypeOK, [Next]_vars, NEW h \in Hook, below[h] # Unset
  PROVE  below'[h] # Unset
<1>1. CASE below'[h] = below[h]
  BY <1>1
<1>2. CASE below'[h] # below[h]
  <2>1. PICK th \in Thread : Placed(th) /\ idx[th] = h
    BY <1>2, BelowStep
  <2>2. below'[h] \in Impl
    BY <2>1, DisplaceParts
  <2>3. QED
    BY <2>2, ImplTypes
<1>3. QED
  BY <1>1, <1>2

LEMMA FreshUnpublishedStep ==
  ASSUME FaultsReported, TypeOK, FreshUnused, FreshUnpublished, [Next]_vars
  PROVE  FreshUnpublished'
<1> USE DEF FreshUnpublished
<1>1. CASE Plain
  BY <1>1 DEF Plain, Quietly
<1>2. ASSUME NEW th \in Thread, Placed(th) PROVE FreshUnpublished'
  BY <1>2, DisplaceParts, ImplTypes DEF FreshUnused
<1>3. ASSUME NEW th \in Thread, Publish(th) PROVE FreshUnpublished'
  BY <1>3, PublishParts
<1>4. QED
  BY <1>1, <1>2, <1>3, ReportedKinds

LEMMA MovedRuns ==
  ASSUME FramesOK, RunsPlaced, NEW c \in Caller, NEW label \in Label, Moved(c, label),
         UNCHANGED below,
         \/ Len(stack'[c]) = Len(stack[c])
         \/ /\ Len(stack'[c]) = Len(stack[c]) + 1
            /\ LET r == stack'[c][Len(stack[c]) + 1].run
               IN  r \in Hook => below[r] # Unset
  PROVE  RunsPlaced'
<1> SUFFICES ASSUME NEW d \in Caller, NEW i \in 1 .. Len(stack'[d]),
                    stack'[d][i].run \in Hook
             PROVE  below[stack'[d][i].run] # Unset
  BY DEF RunsPlaced
<1>1. CASE d # c
  BY <1>1 DEF Moved, RunsPlaced
<1>2. CASE d = c /\ i < Len(stack[c])
  BY <1>2, FrameParts DEF Moved, RunsPlaced
<1>3. CASE d = c /\ i = Len(stack[c])
  <2>1. Top(c) \in Frame /\ stack'[c][i] = [Top(c) EXCEPT !.at = label]
    BY <1>3, FrameParts DEF Moved
  <2>2. stack'[c][i].run = stack[c][i].run
    BY <1>3, <2>1 DEF Frame, Top
  <2>3. QED
    BY <1>3, <2>2, FrameParts DEF RunsPlaced, Moved
<1>4. CASE d = c /\ i > Len(stack[c])
  BY <1>4, FrameParts
<1>5. QED
  BY <1>1, <1>2, <1>3, <1>4, FrameParts

LEMMA StartParts ==
  \A impl, outer : /\ Start(impl, outer).run = impl
                   /\ Start(impl, outer).at = "head"
                   /\ Start(impl, outer).outer = outer
BY DEF Start

\* What a target or a published original leads to has been placed.
LEMMA PlacedStart ==
  ASSUME TypeOK, FreshUnused, FreshUnpublished
  PROVE  /\ \A t \in Target : entry[t] \in Hook => below[entry[t]] # Unset
         /\ \A h \in Hook : Original(h) \in Hook => below[Original(h)] # Unset
BY FallbackApart DEF FreshUnused, FreshUnpublished, Original, Installed

LEMMA RunsPlacedStep ==
  ASSUME TypeOK, FramesOK, FreshUnused, FreshUnpublished, RunsPlaced,
         [DispatchNext]_<<vars, calls>>
  PROVE  RunsPlaced'
<1>1. CASE [Next]_vars /\ UNCHANGED calls
  BY <1>1, BelowStays, FrameParts DEF calls, RunsPlaced
<1>2. ASSUME NEW c \in Caller, NEW t \in Target, Enter(c, t) PROVE RunsPlaced'
  <2>1. below' = below
    BY <1>2 DEF Enter, vars
  <2>2. stack'[c][1].run = entry[t]
    <3>1. stack'[c][1] = Start(entry[t], TRUE)
      BY <1>2, EnterParts
    <3>2. QED
      BY <3>1, StartParts
  <2>3. Len(stack'[c]) = 1 /\ \A d \in Caller \ {c} : stack'[d] = stack[d]
    BY <1>2, EnterParts
  <2>4. \A i \in 1 .. Len(stack'[c]) : i = 1
    BY <2>3
  <2>5. QED
    BY <2>1, <2>2, <2>3, <2>4, PlacedStart DEF RunsPlaced
<1>3. ASSUME NEW c \in Caller, PassOff(c) \/ PassFirst(c) \/ PassEvery(c) PROVE RunsPlaced'
  BY <1>3, PassParts, MovedRuns DEF Label, vars
<1>4. ASSUME NEW c \in Caller, Emit(c) PROVE RunsPlaced'
  <2>1. CASE Len(stack'[c]) = Len(stack[c])
    BY <1>4, <2>1, EmitParts, MovedRuns DEF Label, vars
  <2>2. CASE Len(stack'[c]) # Len(stack[c])
    <3>1. PICK t \in Target : stack'[c][Len(stack[c]) + 1] = Start(entry[t], FALSE)
      BY <1>4, <2>2, EmitParts
    <3>2. stack'[c][Len(stack[c]) + 1].run = entry[t]
      BY <3>1 DEF Start
    <3>3. QED
      BY <1>4, <2>2, <3>2, EmitParts, MovedRuns, PlacedStart DEF Label, vars
  <2>3. QED
    BY <2>1, <2>2
<1>5. ASSUME NEW c \in Caller, Forward(c) PROVE RunsPlaced'
  <2>1. stack'[c][Len(stack[c]) + 1].run = Original(Run(c)) /\ Run(c) \in Hook
    BY <1>5, ForwardParts, StartParts DEF Inside
  <2>2. QED
    BY <1>5, <2>1, ForwardParts, MovedRuns, PlacedStart DEF Label, vars
<1>6. ASSUME NEW c \in Caller, Answer(c) PROVE RunsPlaced'
  BY <1>6, AnswerParts, MovedRuns DEF Label, vars
<1>7. ASSUME NEW c \in Caller, Return(c) PROVE RunsPlaced'
  <2> SUFFICES ASSUME NEW d \in Caller, NEW i \in 1 .. Len(stack'[d]),
                      stack'[d][i].run \in Hook
               PROVE  below'[stack'[d][i].run] # Unset
    BY DEF RunsPlaced
  <2>1. below' = below
    BY <1>7 DEF Return, vars
  <2>2. stack'[d][i] = stack[d][i] /\ i \in 1 .. Len(stack[d])
    BY <1>7, ReturnParts
  <2>3. QED
    BY <2>1, <2>2 DEF RunsPlaced
<1>8. QED
  BY <1>1, <1>2, <1>3, <1>4, <1>5, <1>6, <1>7, DispatchKinds

\* Hooks that run have been placed, hence are published or about to be.
RunInv == FreshUnused /\ FreshUnpublished /\ Pending /\ RunsPlaced

LEMMA RunInvariant ==
  ASSUME FaultsReported PROVE DispatchSpec => []RunInv
<1>1. DispatchInit => RunInv
  BY ImplTypes DEF DispatchInit, Init, RunInv, FreshUnused, FreshUnpublished, Pending,
                   RunsPlaced
<1>2. TypeOK /\ FramesOK /\ RunInv /\ [DispatchNext]_<<vars, calls>> => RunInv'
  <2> SUFFICES ASSUME TypeOK, FramesOK, RunInv, [DispatchNext]_<<vars, calls>>
               PROVE  RunInv'
    OBVIOUS
  <2>1. [Next]_vars
    BY DispatchKinds
  <2>2. QED
    BY <2>1, FreshUnusedStep, FreshUnpublishedStep, PendingStep, RunsPlacedStep DEF RunInv
<1>3. QED
  BY <1>1, <1>2, DispatchTypeCorrect, FramesInvariant, PTL DEF DispatchSpec

LEMMA FallbackStep ==
  ASSUME TypeOK, FramesOK, RunInv, [DispatchNext]_<<vars, calls>>,
         NEW c \in Caller, Len(stack'[c]) > Len(stack[c]),
         stack'[c][Len(stack'[c])].run = Fallback
  PROVE  \E th \in Thread : pc[th] = "publish" /\ Current(th) = Run(c)
<1> Len(stack[c]) \in Nat /\ stack'[c] # stack[c]
  BY FrameParts
<1>1. CASE UNCHANGED calls
  BY <1>1 DEF calls
<1>2. ASSUME NEW d \in Caller, NEW t \in Target, Enter(d, t) PROVE FALSE
  <2>1. d = c
    BY <1>2, EnterParts
  <2>2. stack'[c][Len(stack'[c])].run = entry[t]
    <3>1. stack'[c][1] = Start(entry[t], TRUE) /\ Len(stack'[c]) = 1
      BY <1>2, <2>1, EnterParts
    <3>2. stack'[c][Len(stack'[c])] = Start(entry[t], TRUE)
      BY <3>1
    <3>3. QED
      BY <3>2, StartParts
  <2>3. QED
    BY <2>2, FallbackApart DEF TypeOK
<1>3. ASSUME NEW d \in Caller,
             PassOff(d) \/ PassFirst(d) \/ PassEvery(d) \/ Answer(d) \/ Return(d)
      PROVE  FALSE
  <2>1. CASE Return(d)
    <3>1. Len(stack'[d]) = Len(stack[d]) - 1 /\ \A e \in Caller \ {d} : stack'[e] = stack[e]
      BY <2>1, ReturnParts
    <3>2. QED
      BY <3>1
  <2>2. CASE Answer(d)
    <3>1. Len(stack'[d]) = Len(stack[d]) /\ \A e \in Caller \ {d} : stack'[e] = stack[e]
      BY <2>2, AnswerParts DEF Moved
    <3>2. QED
      BY <3>1
  <2>3. CASE PassOff(d) \/ PassFirst(d) \/ PassEvery(d)
    <3>1. Len(stack'[d]) = Len(stack[d]) /\ \A e \in Caller \ {d} : stack'[e] = stack[e]
      BY <2>3, PassParts DEF Moved
    <3>2. QED
      BY <3>1
  <2>4. QED
    BY <1>3, <2>1, <2>2, <2>3
<1>4. ASSUME NEW d \in Caller, Emit(d) PROVE FALSE
  <2>1. d = c /\ Len(stack'[c]) # Len(stack[c])
    <3>1. \A e \in Caller \ {d} : stack'[e] = stack[e]
      BY <1>4, EmitParts DEF Moved
    <3>2. QED
      BY <3>1
  <2>2. PICK t \in Target : stack'[c][Len(stack[c]) + 1] = Start(entry[t], FALSE)
    BY <1>4, <2>1, EmitParts
  <2>3. stack'[c][Len(stack[c]) + 1].run = entry[t]
    BY <2>2, StartParts
  <2>4. Len(stack'[c]) = Len(stack[c]) + 1
    BY <1>4, <2>1, EmitParts
  <2>5. QED
    BY <2>3, <2>4, FallbackApart DEF TypeOK
<1>5. ASSUME NEW d \in Caller, Forward(d)
      PROVE  \E th \in Thread : pc[th] = "publish" /\ Current(th) = Run(c)
  <2>1. d = c
    BY <1>5, ForwardParts DEF Moved
  <2>2. Run(c) \in Hook /\ Original(Run(c)) = Fallback
    BY <1>5, <2>1, ForwardParts, StartParts DEF Inside
  <2>3. ~Installed(Run(c))
    BY <2>2, FallbackApart DEF Original, TypeOK
  <2>4. below[Run(c)] # Unset
    BY <1>5, <2>1, <2>2, ForwardParts, FrameParts DEF RunInv, RunsPlaced, Run, Top
  <2>5. QED
    BY <2>2, <2>3, <2>4 DEF RunInv, Pending, Current
<1>6. QED
  BY <1>1, <1>2, <1>3, <1>4, <1>5, DispatchKinds

\* A hooked function never takes the fallback for want of an installation that
\* is over: only while the thread that placed its replacement has not published.
THEOREM FallbackTheorem ==
  ASSUME FaultsReported PROVE DispatchSpec => FallbackOnlyInWindow
<1>1. TypeOK /\ FramesOK /\ RunInv /\ [DispatchNext]_<<vars, calls>>
        => [\A c \in Caller :
              Len(stack'[c]) > Len(stack[c]) /\ stack'[c][Len(stack'[c])].run = Fallback
                => \E th \in Thread : pc[th] = "publish" /\ Current(th) = Run(c)]_<<vars, calls>>
  BY FallbackStep
<1>2. QED
  BY <1>1, RunInvariant, DispatchTypeCorrect, FramesInvariant, PTL
     DEF DispatchSpec, FallbackOnlyInWindow

------------------------------------------------------------------------------
(* A call whose bodies all forward reaches everything it owes.               *)

LEMMA ReachedSelf ==
  ASSUME NEW b, NEW x \in Impl PROVE x \in ReachedIn(b, x)
BY DEF ReachedIn

LEMMA ReachedReal ==
  ASSUME NEW b PROVE ReachedIn(b, Real) \subseteq {Real}
<1>1. {Real} \in SUBSET Impl /\ ClosedIn(b, {Real})
  BY ImplTypes DEF ClosedIn
<1>2. QED
  BY <1>1 DEF ReachedIn

\* What a hook reaches beyond itself, what it displaced reaches.
LEMMA ReachedNext ==
  ASSUME NEW b, NEW x \in Hook, b[x] # Unset,
         NEW y \in ReachedIn(b, x), y # x
  PROVE  y \in ReachedIn(b, b[x])
<1> SUFFICES ASSUME NEW S \in SUBSET Impl, b[x] \in S, ClosedIn(b, S)
             PROVE  y \in S
  BY DEF ReachedIn
<1>1. S \cup {x} \in SUBSET Impl /\ ClosedIn(b, S \cup {x})
  BY ImplTypes DEF ClosedIn
<1>2. y \in S \cup {x}
  BY <1>1 DEF ReachedIn
<1>3. QED
  BY <1>2

LEMMA ReachedBack ==
  ASSUME NEW b, NEW x \in Hook, b[x] # Unset
  PROVE  ReachedIn(b, b[x]) \subseteq ReachedIn(b, x)
BY DEF ReachedIn, ClosedIn

\* Placing more hooks cuts nothing off.
LEMMA ReachedMore ==
  ASSUME NEW b, NEW c, \A g \in Hook : b[g] # Unset => c[g] = b[g], NEW x
  PROVE  ReachedIn(b, x) \subseteq ReachedIn(c, x)
<1>1. \A S : ClosedIn(c, S) => ClosedIn(b, S)
  BY DEF ClosedIn
<1>2. QED
  BY <1>1 DEF ReachedIn

\* A frame that starts pays for its implementation and owes what is below it.
LEMMA DueAtStart ==
  ASSUME NEW b, NEW x \in Impl, x \in Hook => b[x] # Unset,
         NEW o, o \subseteq ReachedIn(b, x), NEW outer
  PROVE  Due(b, o \ {x}, Start(x, outer))
<1>1. CASE x \in Hook
  BY <1>1, ReachedNext, StartParts DEF Due
<1>2. CASE x = Real
  BY <1>2, ReachedReal, StartParts, ImplTypes DEF Due
<1>3. QED
  BY <1>1, <1>2 DEF Impl

LEMMA BelowFixed ==
  ASSUME TypeOK, Claims, [Next]_vars, NEW h \in Hook, below[h] # Unset
  PROVE  below'[h] = below[h]
BY BelowStep, PlacedFresh DEF Claims

LEMMA RootedStep ==
  ASSUME FaultsReported, TypeOK, Claims, Rooted, [Next]_vars
  PROVE  Rooted'
<1>1. CASE UNCHANGED <<entry, below>>
  BY <1>1 DEF Rooted
<1>2. ASSUME NEW th \in Thread, Placed(th), NEW t \in Target,
             NEW x \in {Real} \cup {h \in Hook : TargetOf[h] = t /\ below'[h] # Unset}
      PROVE  x \in ReachedIn(below', entry'[t])
  <2> DEFINE c == idx[th]
  <2>1. /\ c \in Hook /\ TargetOf[c] = Site(th) /\ below[c] = Unset
        /\ below'[c] = entry[Site(th)] /\ below'[c] # Unset
    BY <1>2, PlacedFresh, DisplaceParts, ImplTypes DEF Claims
  <2>2. \A y : ReachedIn(below, y) \subseteq ReachedIn(below', y)
    BY BelowFixed, ReachedMore
  <2>3. x # c => x \in ReachedIn(below', entry[t])
    <3>1. x # c => x \in {Real} \cup {h \in Hook : TargetOf[h] = t /\ below[h] # Unset}
      BY <1>2, DisplaceParts
    <3>2. QED
      BY <2>2, <3>1 DEF Rooted
  <2>4. CASE t = Site(th)
    <3>1. entry'[t] = c /\ entry[t] = below'[c]
      BY <1>2, <2>1, <2>4, DisplaceParts
    <3>2. CASE x = c
      BY <2>1, <3>1, <3>2, ReachedSelf, ImplTypes
    <3>3. CASE x # c
      BY <2>1, <2>3, <3>1, <3>3, ReachedBack
    <3>4. QED
      BY <3>2, <3>3
  <2>5. CASE t # Site(th)
    <3>1. entry'[t] = entry[t]
      BY <1>2, <2>5, DisplaceParts
    <3>2. x # c
      BY <2>1, <2>5, ImplTypes
    <3>3. QED
      BY <2>3, <3>1, <3>2
  <2>6. QED
    BY <2>4, <2>5
<1>3. ASSUME NEW th \in Thread, Publish(th) PROVE UNCHANGED <<entry, below>>
  BY <1>3, PublishParts
<1>4. ASSUME NEW th \in Thread, Placed(th) PROVE Rooted'
  BY <1>2, <1>4 DEF Rooted
<1>5. QED
  BY <1>1, <1>3, <1>4, ReportedKinds DEF Plain, Quietly

LEMMA MovedSame ==
  ASSUME FramesOK, NEW c \in Caller, NEW label \in Label, Moved(c, label)
  PROVE  /\ \A i \in 1 .. Len(stack[c]) :
              /\ stack'[c][i].run = stack[c][i].run
              /\ stack'[c][i].outer = stack[c][i].outer
         /\ stack'[c][Len(stack[c])].at = label
<1> DEFINE n == Len(stack[c])
<1>1. n \in Nat \ {0} /\ Top(c) \in Frame
  BY FrameParts DEF Moved
<1>2. stack'[c][n] = [Top(c) EXCEPT !.at = label]
  BY DEF Moved
<1>3. /\ stack'[c][n].run = stack[c][n].run
      /\ stack'[c][n].outer = stack[c][n].outer
      /\ stack'[c][n].at = label
  BY <1>1, <1>2 DEF Frame, Top
<1>4. \A i \in 1 .. n : i = n \/ i \in 1 .. n - 1
  BY <1>1
<1>5. QED
  BY <1>3, <1>4 DEF Moved

LEMMA MovedOuter ==
  ASSUME FramesOK, OuterFirst, NEW c \in Caller, NEW label \in Label, Moved(c, label),
         \/ Len(stack'[c]) = Len(stack[c])
         \/ /\ Len(stack'[c]) = Len(stack[c]) + 1
            /\ stack'[c][Len(stack[c]) + 1].outer => Top(c).outer
  PROVE  OuterFirst'
<1> DEFINE n == Len(stack[c])
<1> SUFFICES ASSUME NEW d \in Caller, NEW i \in 1 .. Len(stack'[d])
             PROVE  /\ i = 1 => stack'[d][i].outer
                    /\ stack'[d][i].outer => \A j \in 1 .. i : stack'[d][j].outer
  BY DEF OuterFirst
<1>1. CASE d # c
  BY <1>1 DEF Moved, OuterFirst
<1>2. CASE d = c /\ i <= n
  BY <1>2, MovedSame, FrameParts, SMTT(30) DEF OuterFirst
<1>3. CASE d = c /\ i > n
  <2>1. i = n + 1 /\ n \in Nat \ {0}
    BY <1>3, FrameParts DEF Moved
  <2>2. stack'[c][i].outer => Top(c).outer
    BY <1>3, <2>1
  <2>3. Top(c).outer => \A j \in 1 .. n : stack'[c][j].outer
    BY <2>1, MovedSame DEF OuterFirst, Top
  <2>4. QED
    BY <1>3, <2>1, <2>2, <2>3
<1>4. QED
  BY <1>1, <1>2, <1>3, FrameParts

LEMMA OuterFirstStep ==
  ASSUME TypeOK, FramesOK, OuterFirst, [DispatchNext]_<<vars, calls>>
  PROVE  OuterFirst'
<1>1. CASE UNCHANGED calls
  BY <1>1 DEF calls, OuterFirst
<1>2. ASSUME NEW c \in Caller, NEW t \in Target, Enter(c, t) PROVE OuterFirst'
  <2>1. Len(stack'[c]) = 1 /\ \A d \in Caller \ {c} : stack'[d] = stack[d]
    BY <1>2, EnterParts
  <2>2. stack'[c][1] = Start(entry[t], TRUE)
    BY <1>2, EnterParts
  <2>3. stack'[c][1].outer
    BY <2>2 DEF Start
  <2>4. \A i \in 1 .. Len(stack'[c]) : i = 1
    BY <2>1
  <2>5. QED
    BY <2>1, <2>3, <2>4 DEF OuterFirst
<1>3. ASSUME NEW c \in Caller, PassOff(c) \/ PassFirst(c) \/ PassEvery(c) PROVE OuterFirst'
  BY <1>3, PassParts, MovedOuter DEF Label
<1>4. ASSUME NEW c \in Caller, Emit(c) PROVE OuterFirst'
  <2>1. Len(stack'[c]) # Len(stack[c]) => ~stack'[c][Len(stack[c]) + 1].outer
    BY <1>4, EmitParts, StartParts
  <2>2. QED
    BY <1>4, <2>1, EmitParts, MovedOuter DEF Label
<1>5. ASSUME NEW c \in Caller, Forward(c) PROVE OuterFirst'
  <2>1. stack'[c][Len(stack[c]) + 1].outer = Top(c).outer
    BY <1>5, ForwardParts, StartParts
  <2>2. QED
    BY <1>5, <2>1, ForwardParts, MovedOuter DEF Label
<1>6. ASSUME NEW c \in Caller, Answer(c) PROVE OuterFirst'
  BY <1>6, AnswerParts, MovedOuter DEF Label
<1>7. ASSUME NEW c \in Caller, Return(c) PROVE OuterFirst'
  <2> SUFFICES ASSUME NEW d \in Caller, NEW i \in 1 .. Len(stack'[d])
               PROVE  /\ i = 1 => stack'[d][i].outer
                      /\ stack'[d][i].outer => \A j \in 1 .. i : stack'[d][j].outer
    BY DEF OuterFirst
  <2>1. \A j \in 1 .. i : stack'[d][j] = stack[d][j] /\ j \in 1 .. Len(stack[d])
    BY <1>7, ReturnParts, FrameParts
  <2>2. QED
    BY <2>1 DEF OuterFirst
<1>8. QED
  BY <1>1, <1>2, <1>3, <1>4, <1>5, <1>6, <1>7, DispatchKinds

\* Callers whose stack and debt are unchanged owe what they owed.
LEMMA OwedElsewhere ==
  ASSUME OwedBelow, NEW c \in Caller, UNCHANGED below,
         \A d \in Caller \ {c} : stack'[d] = stack[d] /\ owed'[d] = owed[d],
         stack'[c] = <<>> => owed'[c] = {},
         \A i \in 1 .. Len(stack'[c]) :
           InnermostOuter(stack'[c], i) => Due(below, owed'[c], stack'[c][i])
  PROVE  OwedBelow'
<1> SUFFICES ASSUME NEW d \in Caller
             PROVE  /\ stack'[d] = <<>> => owed'[d] = {}
                    /\ \A i \in 1 .. Len(stack'[d]) :
                         InnermostOuter(stack'[d], i) => Due(below', owed'[d], stack'[d][i])
  BY DEF OwedBelow, InnermostOuter, Due, ReachedIn, ClosedIn
<1>1. CASE d = c
  BY <1>1
<1>2. CASE d # c
  BY <1>2 DEF OwedBelow
<1>3. QED
  BY <1>1, <1>2

\* A step that leaves the debt alone, and the outer frames as they were but for
\* the gate of the innermost frame.
LEMMA OwedMoved ==
  ASSUME FramesOK, OwedBelow, NEW c \in Caller, NEW label \in Label, Moved(c, label),
         UNCHANGED <<below, owed>>,
         ~Top(c).outer \/ (label # "done" /\ Top(c).at # "done"),
         \/ Len(stack'[c]) = Len(stack[c])
         \/ /\ Len(stack'[c]) = Len(stack[c]) + 1
            /\ ~stack'[c][Len(stack[c]) + 1].outer
  PROVE  OwedBelow'
<1> DEFINE n == Len(stack[c])
<1>1. n \in Nat \ {0}
  BY DEF Moved
<1>2. stack'[c] # <<>> /\ \A d \in Caller \ {c} : stack'[d] = stack[d]
  BY TopMoved DEF Moved
<1>3. ASSUME NEW i \in 1 .. Len(stack'[c]), InnermostOuter(stack'[c], i)
      PROVE  Due(below, owed[c], stack'[c][i])
  <2>1. i \in 1 .. n
    BY <1>1, <1>3 DEF InnermostOuter
  <2>2. InnermostOuter(stack[c], i)
    <3>1. \A j \in 1 .. n : stack'[c][j].outer = stack[c][j].outer
      BY MovedSame
    <3>2. i < n => i + 1 \in 1 .. n /\ i < Len(stack'[c])
      BY <1>1, <2>1
    <3>3. QED
      BY <1>3, <2>1, <3>1, <3>2 DEF InnermostOuter
  <2>3. Due(below, owed[c], stack[c][i])
    BY <2>1, <2>2 DEF OwedBelow
  <2>4. CASE i < n
    <3>1. stack'[c][i] = stack[c][i]
      BY <1>1, <2>1, <2>4 DEF Moved
    <3>2. QED
      BY <2>3, <3>1
  <2>5. CASE i = n
    <3>1. stack'[c][n].run = stack[c][n].run /\ stack'[c][n].at = label
      BY <1>1, MovedSame
    <3>2. label # "done" /\ stack[c][n].at # "done"
      BY <2>2, <2>5 DEF InnermostOuter, Top
    <3>3. QED
      BY <2>3, <2>5, <3>1, <3>2 DEF Due
  <2>6. QED
    BY <2>1, <2>4, <2>5
<1>4. QED
  BY <1>2, <1>3, OwedElsewhere

\* The installers take nothing away that a call owes.
LEMMA OwedInstalled ==
  ASSUME TypeOK, FramesOK, Claims, RunsPlaced, OwedBelow, [Next]_vars, UNCHANGED calls
  PROVE  OwedBelow'
<1> SUFFICES ASSUME NEW c \in Caller, NEW i \in 1 .. Len(stack[c]),
                    InnermostOuter(stack[c], i)
             PROVE  Due(below', owed[c], stack[c][i])
  BY DEF calls, OwedBelow
<1>1. Due(below, owed[c], stack[c][i])
  BY DEF OwedBelow
<1>2. CASE stack[c][i].run \in Hook /\ stack[c][i].at # "done"
  <2>1. below'[stack[c][i].run] = below[stack[c][i].run]
    BY <1>2, BelowFixed DEF RunsPlaced
  <2>2. \A x : ReachedIn(below, x) \subseteq ReachedIn(below', x)
    BY BelowFixed, ReachedMore
  <2>3. QED
    BY <1>1, <1>2, <2>1, <2>2 DEF Due
<1>3. QED
  BY <1>1, <1>2 DEF Due

LEMMA OwedEnter ==
  ASSUME TypeOK, FramesOK, Claims, RunInv, Rooted, OwedBelow,
         NEW c \in Caller, NEW t \in Target, Enter(c, t)
  PROVE  OwedBelow'
<1> DEFINE o == {Real} \cup {h \in Hook : TargetOf[h] = t /\ Installed(h)}
<1>1. /\ Len(stack'[c]) = 1 /\ stack'[c][1] = Start(entry[t], TRUE)
      /\ \A d \in Caller \ {c} : stack'[d] = stack[d]
  BY EnterParts
<1>2. /\ owed'[c] = o \ {entry[t]} /\ \A d \in Caller \ {c} : owed'[d] = owed[d]
      /\ UNCHANGED below
  BY DEF Enter, FramesOK, vars
<1>3. \A h \in Hook : Installed(h) => below[h] # Unset
  BY DEF Claims, Published, Installed
<1>4. o \subseteq ReachedIn(below, entry[t])
  BY <1>3 DEF Rooted
<1>5. entry[t] \in Impl /\ (entry[t] \in Hook => below[entry[t]] # Unset)
  BY PlacedStart DEF TypeOK, RunInv
<1>6. Due(below, owed'[c], stack'[c][1])
  <2>1. Due(below, o \ {entry[t]}, Start(entry[t], TRUE))
    BY <1>4, <1>5, DueAtStart
  <2>2. QED
    BY <1>1, <1>2, <2>1
<1>7. stack'[c] # <<>> /\ \A i \in 1 .. Len(stack'[c]) : i = 1
  BY <1>1
<1>8. QED
  BY <1>1, <1>2, <1>6, <1>7, OwedElsewhere

LEMMA OwedEmit ==
  ASSUME TypeOK, FramesOK, OwedBelow, NEW c \in Caller, Emit(c)
  PROVE  OwedBelow'
<1>1. Top(c).at # "done" /\ UNCHANGED <<below, owed>> /\ Moved(c, "body")
  BY EmitParts DEF Inside, vars
<1>2. Len(stack'[c]) # Len(stack[c])
        => Len(stack'[c]) = Len(stack[c]) + 1 /\ ~stack'[c][Len(stack[c]) + 1].outer
  BY EmitParts, StartParts
<1>3. QED
  BY <1>1, <1>2, OwedMoved DEF Label

\* forward!() goes to what the hook displaced, and pays for it.
LEMMA OwedForward ==
  ASSUME TypeOK, FramesOK, Claims, RunInv, OuterFirst, OwedBelow,
         NEW c \in Caller, Forward(c)
  PROVE  OwedBelow'
<1> DEFINE n == Len(stack[c])
           h == Run(c)
           next == Original(h)
<1>1. /\ Inside(c, "body") /\ n \in Nat \ {0} /\ Moved(c, "done") /\ UNCHANGED below
      /\ Len(stack'[c]) = n + 1
      /\ stack'[c][n + 1] = Start(next, Top(c).outer)
  BY ForwardParts DEF Moved, vars
<1>2. CASE ~Top(c).outer
  <2>1. UNCHANGED owed
    BY <1>2 DEF Forward, FramesOK
  <2>2. ~stack'[c][n + 1].outer
    BY <1>1, <1>2, StartParts
  <2>3. QED
    BY <1>1, <1>2, <2>1, <2>2, OwedMoved DEF Label
<1>3. CASE Top(c).outer
  <2>1. /\ owed'[c] = IF next = Fallback THEN {} ELSE owed[c] \ {next}
        /\ \A d \in Caller \ {c} : stack'[d] = stack[d] /\ owed'[d] = owed[d]
    BY <1>1, <1>3 DEF Forward, FramesOK, Moved
  <2>2. h \in Hook /\ below[h] # Unset /\ owed[c] \subseteq ReachedIn(below, below[h])
    <3>1. h \in Hook /\ h = stack[c][n].run /\ stack[c][n].at = "body"
      BY <1>1 DEF Inside, Run, Top
    <3>2. below[h] # Unset
      BY <1>1, <3>1 DEF RunInv, RunsPlaced
    <3>3. InnermostOuter(stack[c], n)
      BY <1>1, <1>3 DEF InnermostOuter, Top
    <3>4. QED
      BY <1>1, <3>1, <3>2, <3>3 DEF OwedBelow, Due
  <2>3. Due(below, owed'[c], stack'[c][n + 1])
    <3>1. CASE next = Fallback
      BY <1>1, <2>1, <3>1, StartParts, FallbackApart DEF Due
    <3>2. CASE next # Fallback
      <4>1. next = below[h] /\ next \in Impl
        BY <2>2, <3>2 DEF Original, Claims, Published, Installed, TypeOK
      <4>2. next \in Hook => below[next] # Unset
        BY <2>2, PlacedStart DEF RunInv
      <4>3. Due(below, owed[c] \ {next}, Start(next, Top(c).outer))
        BY <2>2, <4>1, <4>2, DueAtStart
      <4>4. QED
        BY <1>1, <2>1, <3>2, <4>3
    <3>3. QED
      BY <3>1, <3>2
  <2>4. ASSUME NEW i \in 1 .. Len(stack'[c]), InnermostOuter(stack'[c], i)
        PROVE  i = n + 1
    <3>1. \A j \in 1 .. n : stack'[c][j].outer = stack[c][j].outer
      BY <1>1, MovedSame DEF Label
    <3>2. \A j \in 1 .. n : stack[c][j].outer
      BY <1>1, <1>3 DEF OuterFirst, Top
    <3>3. stack'[c][n + 1].outer
      BY <1>1, <1>3, StartParts
    <3>4. \A j \in 1 .. n + 1 : stack'[c][j].outer
      BY <1>1, <3>1, <3>2, <3>3
    <3>5. i < n + 1 => i + 1 \in 1 .. n + 1
      BY <1>1, <2>4
    <3>6. QED
      BY <1>1, <2>4, <3>4, <3>5 DEF InnermostOuter
  <2>5. stack'[c] # <<>>
    BY <1>1, TopMoved DEF Label
  <2>6. QED
    BY <1>1, <2>1, <2>3, <2>4, <2>5, OwedElsewhere
<1>4. QED
  BY <1>2, <1>3

LEMMA OwedAnswer ==
  ASSUME FramesOK, OuterFirst, OwedBelow, NEW c \in Caller, Answer(c)
  PROVE  OwedBelow'
<1> DEFINE n == Len(stack[c])
<1>1. n \in Nat \ {0} /\ Moved(c, "done") /\ Len(stack'[c]) = n /\ UNCHANGED below
  BY AnswerParts DEF Moved, vars
<1>2. CASE ~Top(c).outer
  <2>1. UNCHANGED owed
    BY <1>2 DEF Answer, FramesOK
  <2>2. QED
    BY <1>1, <1>2, <2>1, OwedMoved DEF Label
<1>3. CASE Top(c).outer
  <2>1. /\ owed'[c] = {}
        /\ \A d \in Caller \ {c} : stack'[d] = stack[d] /\ owed'[d] = owed[d]
    BY <1>1, <1>3 DEF Answer, FramesOK, Moved
  <2>2. \A frame : Due(below, {}, frame)
    BY DEF Due
  <2>3. QED
    BY <1>1, <2>1, <2>2, OwedElsewhere
<1>4. QED
  BY <1>2, <1>3

LEMMA OwedReturn ==
  ASSUME FramesOK, OuterFirst, OwedBelow, NEW c \in Caller, Return(c)
  PROVE  OwedBelow'
<1> DEFINE n == Len(stack[c])
<1>1. /\ n \in Nat \ {0} /\ Len(stack'[c]) = n - 1
      /\ \A i \in 1 .. n - 1 : stack'[c][i] = stack[c][i]
      /\ \A d \in Caller \ {c} : stack'[d] = stack[d]
      /\ UNCHANGED <<below, owed>>
  BY ReturnParts DEF Return, vars
<1>2. CASE stack[c][n].outer
  <2>1. InnermostOuter(stack[c], n)
    BY <1>1, <1>2 DEF InnermostOuter
  <2>2. stack[c][n].run \in Hook => stack[c][n].at = "done"
    BY DEF Return, Run, Top
  <2>3. owed[c] = {}
    BY <1>1, <2>1, <2>2 DEF OwedBelow, Due
  <2>4. \A frame : Due(below, {}, frame)
    BY DEF Due
  <2>5. QED
    BY <1>1, <2>3, <2>4, OwedElsewhere
<1>3. CASE ~stack[c][n].outer
  <2>1. n > 1
    BY <1>1, <1>3 DEF OuterFirst
  <2>2. stack'[c] # <<>>
    BY <1>1, <2>1
  <2>3. ASSUME NEW i \in 1 .. Len(stack'[c]), InnermostOuter(stack'[c], i)
        PROVE  Due(below, owed[c], stack'[c][i])
    <3>1. i \in 1 .. n - 1 /\ stack'[c][i] = stack[c][i]
      BY <1>1, <2>3
    <3>2. InnermostOuter(stack[c], i)
      <4>1. CASE i = n - 1
        BY <1>1, <1>3, <2>3, <3>1, <4>1 DEF InnermostOuter
      <4>2. CASE i < n - 1
        <5>1. i + 1 \in 1 .. n - 1 /\ i < Len(stack'[c])
          BY <1>1, <3>1, <4>2
        <5>2. QED
          BY <1>1, <2>3, <3>1, <5>1 DEF InnermostOuter
      <4>3. QED
        BY <1>1, <3>1, <4>1, <4>2
    <3>3. QED
      BY <1>1, <3>1, <3>2 DEF OwedBelow
  <2>4. QED
    BY <1>1, <2>2, <2>3, OwedElsewhere
<1>4. QED
  BY <1>2, <1>3

LEMMA OwedBelowStep ==
  ASSUME TypeOK, FramesOK, Claims, RunInv, Rooted, OuterFirst, OwedBelow,
         [DispatchNext]_<<vars, calls>>
  PROVE  OwedBelow'
<1>1. CASE [Next]_vars /\ UNCHANGED calls
  BY <1>1, OwedInstalled DEF RunInv
<1>2. ASSUME NEW c \in Caller, PassOff(c) \/ PassFirst(c) \/ PassEvery(c) PROVE OwedBelow'
  <2>1. Top(c).at = "head" /\ UNCHANGED <<below, owed>>
    BY <1>2, PassParts DEF Inside, vars
  <2>2. QED
    BY <1>2, <2>1, PassParts, OwedMoved DEF Label
<1>3. QED
  BY <1>1, <1>2, OwedEnter, OwedEmit, OwedForward, OwedAnswer, OwedReturn, DispatchKinds

\* While hooks come to a target, each of its calls that is forwarded throughout runs
\* the genuine implementation and every hook installed when the call began.
THEOREM OwedTheorem ==
  ASSUME FaultsReported PROVE DispatchSpec /\ []Orderly => []OwedPaid
<1> DEFINE Inv == Rooted /\ OuterFirst /\ OwedBelow
<1>1. DispatchInit => Inv
  <2> SUFFICES ASSUME DispatchInit PROVE Inv
    OBVIOUS
  <2>1. Rooted
    BY ReachedSelf, ImplTypes DEF DispatchInit, Init, Rooted
  <2>2. OuterFirst /\ OwedBelow
    BY DEF DispatchInit, OuterFirst, OwedBelow
  <2>3. QED
    BY <2>1, <2>2
<1>2. TypeOK /\ FramesOK /\ Claims /\ RunInv /\ Inv /\ [DispatchNext]_<<vars, calls>>
        => Inv'
  <2> SUFFICES ASSUME TypeOK, FramesOK, Claims, RunInv, Inv, [DispatchNext]_<<vars, calls>>
               PROVE  Inv'
    OBVIOUS
  <2>1. [Next]_vars
    BY DispatchKinds
  <2>2. QED
    BY <2>1, RootedStep, OuterFirstStep, OwedBelowStep
<1>3. Inv => OwedPaid
  BY DEF OwedBelow, OwedPaid
<1>4. QED
  BY <1>1, <1>2, <1>3, RunInvariant, ClaimsInvariant, DispatchImplementsInstall,
     DispatchTypeCorrect, FramesInvariant, PTL DEF DispatchSpec

------------------------------------------------------------------------------
(* The stack is bounded.                                                     *)

\* Frame i of c waits for the observer that it has called.
Calling(c, i) == i < Len(stack[c]) /\ stack[c][i].at = "body"

\* Only hooks that are observed call their observer.
Observed ==
  \A c \in Caller : \A i \in 1 .. Len(stack[c]) :
    stack[c][i].at = "emit" \/ Calling(c, i) => ModeOf[stack[c][i].run] # "Off"

\* The observer of a first hit is called by one frame.
SpentHits ==
  \A c \in Caller : \A i \in 1 .. Len(stack[c]) :
    Calling(c, i) /\ ModeOf[stack[c][i].run] = "FirstHit" =>
      /\ emitted[stack[c][i].run] = 1
      /\ \A j \in 1 .. Len(stack[c]) :
           Calling(c, j) /\ stack[c][j].run = stack[c][i].run => j = i

\* Hooks are in front of their own target, and displace what was there.
Homed ==
  /\ \A t \in Target : entry[t] \in Hook => TargetOf[entry[t]] = t
  /\ \A h \in Hook : below[h] \in Hook => TargetOf[below[h]] = TargetOf[h]

\* A frame that has called another is a hook's, and went on to what the hook
\* displaced or to the target its observer calls.
Led ==
  \A c \in Caller : \A i \in 1 .. Len(stack[c]) - 1 :
    /\ stack[c][i].run \in Hook
    /\ stack[c][i + 1].run \in Hook =>
         IF stack[c][i].at = "done" THEN stack[c][i + 1].run = below[stack[c][i].run]
         ELSE TargetOf[stack[c][i + 1].run] = Observer[stack[c][i].run]

LEMMA HomedStep ==
  ASSUME TypeOK, Homed, [Next]_vars
  PROVE  Homed'
<1>1. CASE UNCHANGED <<entry, below>>
  BY <1>1 DEF Homed
<1>2. ASSUME NEW th \in Thread, Placed(th) PROVE Homed'
  BY <1>2, DisplaceParts, ImplTypes DEF Homed
<1>3. ASSUME NEW th \in Thread, Relocated(th) PROVE Homed'
  <2>1. entry' = [entry EXCEPT ![Site(th)] = idx[th]] /\ below' = below
    BY <1>3 DEF Relocated, Quietly, FailRelocate, At, Current
  <2>2. idx[th] \in Hook /\ TargetOf[idx[th]] = Site(th)
    BY TargetAssumption DEF TypeOK, Site, Current
  <2>3. QED
    BY <2>1, <2>2 DEF Homed, TypeOK
<1>4. QED
  BY <1>1, <1>2, <1>3, StepKinds, PublishParts DEF Plain, Quietly

\* The frames below the innermost one after a step that moves it.
LEMMA MovedInner ==
  ASSUME FramesOK, NEW c \in Caller, NEW label \in Label, Moved(c, label),
         \/ Len(stack'[c]) = Len(stack[c])
         \/ Len(stack'[c]) = Len(stack[c]) + 1
  PROVE  /\ \A d \in Caller \ {c} : stack'[d] = stack[d]
         /\ \A i \in 1 .. Len(stack'[c]) - 1 :
              \/ i \in 1 .. Len(stack[c]) - 1 /\ stack'[c][i] = stack[c][i]
              \/ /\ i = Len(stack[c]) /\ Len(stack'[c]) = Len(stack[c]) + 1
                 /\ stack'[c][i].run = Run(c) /\ stack'[c][i].at = label
<1>1. Len(stack[c]) \in Nat \ {0}
  BY DEF Moved
<1>2. \A d \in Caller \ {c} : stack'[d] = stack[d]
  BY DEF Moved
<1>3. ASSUME NEW i \in 1 .. Len(stack'[c]) - 1
      PROVE  \/ i \in 1 .. Len(stack[c]) - 1
             \/ i = Len(stack[c]) /\ Len(stack'[c]) = Len(stack[c]) + 1
  BY <1>1, <1>3
<1>4. \A i \in 1 .. Len(stack[c]) - 1 : stack'[c][i] = stack[c][i]
  BY DEF Moved
<1>5. LET i == Len(stack[c]) IN stack'[c][i].run = Run(c) /\ stack'[c][i].at = label
  BY <1>1, MovedSame DEF Run, Top
<1>6. QED
  BY <1>2, <1>3, <1>4, <1>5

\* The frame that an observer's call adds.
LEMMA EmitCalled ==
  ASSUME FramesOK, TypeOK, NEW c \in Caller, Emit(c), Len(stack'[c]) # Len(stack[c])
  PROVE  /\ Observer[Run(c)] \in Target
         /\ Len(stack'[c]) = Len(stack[c]) + 1
         /\ stack'[c][Len(stack'[c])].run = entry[Observer[Run(c)]]
         /\ stack'[c][Len(stack'[c])].at = "head"
<1> DEFINE t == Observer[Run(c)]
           f == Start(entry[t], FALSE)
<1>1. Inside(c, "emit") /\ stack[c] # <<>> /\ Run(c) \in Hook
  BY DEF Emit, Inside
<1>2. CASE t = Nothing
  <2>1. Advance(c, "body", <<>>)
    BY <1>2 DEF Emit
  <2>2. QED
    BY <1>1, <2>1, SettleParts DEF Label
<1>3. CASE t # Nothing
  <2>1. t \in Target
    BY <1>1, <1>3, DispatchAssumption
  <2>2. f \in Frame
    BY <2>1 DEF TypeOK, Start, Frame
  <2>3. Advance(c, "body", <<f>>)
    BY <1>3 DEF Emit
  <2>4. Len(stack'[c]) = Len(stack[c]) + 1 /\ stack'[c][Len(stack[c]) + 1] = f
    BY <1>1, <2>2, <2>3, CallParts DEF Label
  <2>5. f.run = entry[t] /\ f.at = "head"
    BY DEF Start
  <2>6. QED
    BY <2>1, <2>4, <2>5
<1>4. QED
  BY <1>2, <1>3

LEMMA ObservedStep ==
  ASSUME TypeOK, FramesOK, Observed, [DispatchNext]_<<vars, calls>>
  PROVE  Observed'
<1> USE DEF Observed, Calling
<1>1. CASE UNCHANGED calls
  BY <1>1 DEF calls
<1>2. ASSUME NEW c \in Caller, NEW t \in Target, Enter(c, t) PROVE Observed'
  <2>1. Len(stack'[c]) = 1 /\ \A d \in Caller \ {c} : stack'[d] = stack[d]
    BY <1>2, EnterParts
  <2>2. stack'[c][1].at = "head"
    <3>1. stack'[c][1] = Start(entry[t], TRUE)
      BY <1>2, EnterParts
    <3>2. Start(entry[t], TRUE).at = "head"
      BY StartParts
    <3>3. QED
      BY <3>1, <3>2
  <2>3. \A i \in 1 .. Len(stack'[c]) : i = 1
    BY <2>1
  <2>4. QED
    BY <2>1, <2>2, <2>3
<1>3. ASSUME NEW c \in Caller, NEW label \in Label, Moved(c, label),
             label = "emit" => ModeOf[Run(c)] # "Off",
             \/ Len(stack'[c]) = Len(stack[c])
             \/ /\ Len(stack'[c]) = Len(stack[c]) + 1
                /\ stack'[c][Len(stack'[c])].at = "head"
                /\ label = "body" => Top(c).at = "emit"
      PROVE  Observed'
  <2> DEFINE n == Len(stack[c])
  <2>1. n \in Nat \ {0} /\ \A d \in Caller \ {c} : stack'[d] = stack[d]
    BY <1>3 DEF Moved
  <2>2. stack'[c][n].run = Run(c) /\ stack'[c][n].at = label /\ Top(c) = stack[c][n]
    BY <1>3, <2>1, MovedSame DEF Run, Top
  <2>3. ASSUME NEW i \in 1 .. Len(stack'[c]), stack'[c][i].at = "emit" \/ Calling(c, i)'
        PROVE  ModeOf[stack'[c][i].run] # "Off"
    <3>1. CASE i < n
      <4>1. stack'[c][i] = stack[c][i] /\ i \in 1 .. n
        BY <1>3, <2>1, <3>1 DEF Moved
      <4>2. QED
        BY <2>3, <3>1, <4>1
    <3>2. CASE i = n
      <4>1. label = "emit" \/ (label = "body" /\ Len(stack'[c]) = n + 1)
        BY <1>3, <2>1, <2>2, <2>3, <3>2
      <4>2. CASE label = "emit"
        BY <1>3, <2>2, <3>2, <4>2
      <4>3. CASE label = "body" /\ Len(stack'[c]) = n + 1
        <5>1. stack[c][n].at = "emit"
          BY <1>3, <2>1, <2>2, <4>3
        <5>2. QED
          BY <2>1, <2>2, <3>2, <5>1 DEF Run
      <4>4. QED
        BY <4>1, <4>2, <4>3
    <3>3. CASE i > n
      <4>1. i = Len(stack'[c]) /\ i = n + 1
        BY <1>3, <2>1, <3>3
      <4>2. QED
        BY <1>3, <2>3, <4>1
    <3>4. QED
      BY <2>1, <3>1, <3>2, <3>3
  <2>4. QED
    BY <2>1, <2>3
<1>4. ASSUME NEW c \in Caller, PassOff(c) \/ PassFirst(c) \/ PassEvery(c) PROVE Observed'
  <2>1. PICK label \in {"emit", "body"} :
          Advance(c, label, <<>>) /\ (label = "emit" => ModeOf[Run(c)] # "Off")
    BY <1>4 DEF PassOff, PassFirst, PassEvery
  <2>2. Moved(c, label) /\ Len(stack'[c]) = Len(stack[c])
    BY <1>4, <2>1, PassParts, SettleParts DEF Label
  <2>3. QED
    BY <1>3, <2>1, <2>2 DEF Label
<1>5. ASSUME NEW c \in Caller, Emit(c) PROVE Observed'
  <2>1. Top(c).at = "emit" /\ Moved(c, "body")
    BY <1>5, EmitParts DEF Inside
  <2>2. Len(stack'[c]) # Len(stack[c])
          => /\ Len(stack'[c]) = Len(stack[c]) + 1
             /\ stack'[c][Len(stack'[c])].at = "head"
    BY <1>5, EmitCalled
  <2>3. QED
    BY <1>3, <2>1, <2>2 DEF Label
<1>6. ASSUME NEW c \in Caller, Forward(c) PROVE Observed'
  <2>1. stack'[c][Len(stack'[c])].at = "head"
    BY <1>6, ForwardParts, StartParts
  <2>2. QED
    BY <1>3, <1>6, <2>1, ForwardParts DEF Label
<1>7. ASSUME NEW c \in Caller, Answer(c) PROVE Observed'
  BY <1>3, <1>7, AnswerParts DEF Label
<1>8. ASSUME NEW c \in Caller, Return(c) PROVE Observed'
  <2> SUFFICES ASSUME NEW d \in Caller, NEW i \in 1 .. Len(stack'[d]),
                      stack'[d][i].at = "emit" \/ Calling(d, i)'
               PROVE  ModeOf[stack'[d][i].run] # "Off"
    OBVIOUS
  <2>1. CASE d = c
    BY <1>8, <2>1, ReturnParts
  <2>2. CASE d # c
    BY <1>8, <2>2, ReturnParts
  <2>3. QED
    BY <2>1, <2>2
<1>9. QED
  BY <1>1, <1>2, <1>4, <1>5, <1>6, <1>7, <1>8, DispatchKinds

\* A step that calls no observer spends no hit.
LEMMA SpentElsewhere ==
  ASSUME SpentHits, NEW c \in Caller, UNCHANGED emitted,
         \A d \in Caller \ {c} : stack'[d] = stack[d],
         \A i \in 1 .. Len(stack'[c]) : Calling(c, i)' =>
           i \in 1 .. Len(stack[c]) /\ Calling(c, i) /\ stack'[c][i] = stack[c][i]
  PROVE  SpentHits'
<1> SUFFICES ASSUME NEW d \in Caller, NEW i \in 1 .. Len(stack'[d]),
                    Calling(d, i)', ModeOf[stack'[d][i].run] = "FirstHit"
             PROVE  /\ emitted[stack'[d][i].run] = 1
                    /\ \A j \in 1 .. Len(stack'[d]) :
                         Calling(d, j)' /\ stack'[d][j].run = stack'[d][i].run => j = i
  BY DEF SpentHits
<1>1. CASE d = c
  BY <1>1 DEF SpentHits
<1>2. CASE d # c
  BY <1>2 DEF SpentHits, Calling
<1>3. QED
  BY <1>1, <1>2

\* The caller that emits a first hit of h is the only one, and its first.
LEMMA SpentEmit ==
  ASSUME TypeOK, FramesOK, FirstHits, SpentHits, NEW c \in Caller, Emit(c)
  PROVE  SpentHits'
<1> DEFINE n == Len(stack[c])
           h == Run(c)
<1>1. /\ Inside(c, "emit") /\ h \in Hook /\ n \in Nat \ {0} /\ Moved(c, "body")
      /\ Len(stack'[c]) = n \/ Len(stack'[c]) = n + 1
  BY EmitParts DEF Inside, Moved
<1>2. /\ emitted' = [emitted EXCEPT ![h] = IF @ < 2 THEN @ + 1 ELSE @]
      /\ emitted \in [Hook -> 0 .. 2]
  BY DEF Emit, FramesOK
<1>3. /\ \A d \in Caller \ {c} : stack'[d] = stack[d]
      /\ \A i \in 1 .. Len(stack'[c]) - 1 :
           \/ i \in 1 .. n - 1 /\ stack'[c][i] = stack[c][i]
           \/ i = n /\ stack'[c][i].run = h
  BY <1>1, MovedInner DEF Label
<1>4. ModeOf[h] = "FirstHit" => emitted[h] = 0
  BY <1>1 DEF FirstHits, Emitting
<1>5. ModeOf[h] = "FirstHit" => emitted'[h] = 1
  BY <1>1, <1>2, <1>4
<1>6. \A d \in Caller : \A i \in 1 .. Len(stack[d]) :
        Calling(d, i) /\ ModeOf[stack[d][i].run] = "FirstHit" =>
          stack[d][i].run # h /\ emitted'[stack[d][i].run] = 1
  BY <1>2, <1>4 DEF SpentHits
<1> SUFFICES ASSUME NEW d \in Caller, NEW i \in 1 .. Len(stack'[d]),
                    Calling(d, i)', ModeOf[stack'[d][i].run] = "FirstHit"
             PROVE  /\ emitted'[stack'[d][i].run] = 1
                    /\ \A j \in 1 .. Len(stack'[d]) :
                         Calling(d, j)' /\ stack'[d][j].run = stack'[d][i].run => j = i
  BY DEF SpentHits
<1>7. CASE d # c
  BY <1>3, <1>6, <1>7 DEF SpentHits, Calling
<1>8. CASE d = c
  <2>1. ASSUME NEW j \in 1 .. Len(stack'[c]), Calling(c, j)'
        PROVE  \/ j \in 1 .. n /\ Calling(c, j) /\ stack'[c][j] = stack[c][j]
               \/ j = n /\ stack'[c][j].run = h
    <3>1. j \in 1 .. Len(stack'[c]) - 1
      BY <1>1, <2>1 DEF Calling
    <3>2. QED
      BY <1>1, <1>3, <2>1, <3>1 DEF Calling
  <2>2. CASE i = n /\ stack'[c][i].run = h
    BY <1>5, <1>6, <1>8, <2>1, <2>2
  <2>3. CASE i \in 1 .. n /\ Calling(c, i) /\ stack'[c][i] = stack[c][i]
    BY <1>6, <1>8, <2>1, <2>3 DEF SpentHits
  <2>4. QED
    BY <1>8, <2>1, <2>2, <2>3
<1>9. QED
  BY <1>7, <1>8

LEMMA SpentHitsStep ==
  ASSUME TypeOK, FramesOK, FirstHits, SpentHits, [DispatchNext]_<<vars, calls>>
  PROVE  SpentHits'
<1>1. CASE UNCHANGED calls
  BY <1>1 DEF calls, SpentHits, Calling
<1>2. ASSUME NEW c \in Caller, NEW t \in Target, Enter(c, t) PROVE SpentHits'
  <2>1. Len(stack'[c]) = 1 /\ \A d \in Caller \ {c} : stack'[d] = stack[d]
    BY <1>2, EnterParts
  <2>2. \A i \in 1 .. Len(stack'[c]) : ~Calling(c, i)'
    BY <2>1 DEF Calling
  <2>3. QED
    BY <1>2, <2>1, <2>2, SpentElsewhere DEF Enter
<1>3. ASSUME NEW c \in Caller, NEW label \in Label, Moved(c, label), UNCHANGED emitted,
             \/ Len(stack'[c]) = Len(stack[c])
             \/ Len(stack'[c]) = Len(stack[c]) + 1 /\ label = "done"
      PROVE  SpentHits'
  <2>1. Len(stack[c]) \in Nat \ {0}
    BY <1>3 DEF Moved
  <2>2. ASSUME NEW i \in 1 .. Len(stack'[c]), Calling(c, i)'
        PROVE  i \in 1 .. Len(stack[c]) /\ Calling(c, i) /\ stack'[c][i] = stack[c][i]
    <3>1. i \in 1 .. Len(stack'[c]) - 1 /\ stack'[c][i].at # "done"
      BY <1>3, <2>1, <2>2 DEF Calling
    <3>2. i \in 1 .. Len(stack[c]) - 1 /\ stack'[c][i] = stack[c][i]
      BY <1>3, <2>1, <3>1, MovedInner
    <3>3. QED
      BY <2>1, <2>2, <3>2 DEF Calling
  <2>3. QED
    BY <1>3, <2>2, SpentElsewhere DEF Moved
<1>4. ASSUME NEW c \in Caller, PassOff(c) \/ PassFirst(c) \/ PassEvery(c) PROVE SpentHits'
  BY <1>3, <1>4, PassParts DEF Label
<1>5. ASSUME NEW c \in Caller, Forward(c) PROVE SpentHits'
  BY <1>3, <1>5, ForwardParts DEF Label
<1>6. ASSUME NEW c \in Caller, Answer(c) PROVE SpentHits'
  BY <1>3, <1>6, AnswerParts DEF Label
<1>7. ASSUME NEW c \in Caller, Return(c) PROVE SpentHits'
  <2>1. /\ Len(stack[c]) \in Nat \ {0} /\ Len(stack'[c]) = Len(stack[c]) - 1
        /\ \A i \in 1 .. Len(stack[c]) - 1 : stack'[c][i] = stack[c][i]
        /\ \A d \in Caller \ {c} : stack'[d] = stack[d]
        /\ UNCHANGED emitted
    BY <1>7, ReturnParts DEF Return
  <2>2. \A i \in 1 .. Len(stack'[c]) : Calling(c, i)' =>
          i \in 1 .. Len(stack[c]) /\ Calling(c, i) /\ stack'[c][i] = stack[c][i]
    BY <2>1 DEF Calling
  <2>3. QED
    BY <2>1, <2>2, SpentElsewhere
<1>8. QED
  BY <1>1, <1>2, <1>4, <1>5, <1>6, <1>7, SpentEmit, DispatchKinds

LEMMA LedMoved ==
  ASSUME FramesOK, Led, NEW c \in Caller, NEW label \in Label, Moved(c, label),
         UNCHANGED below,
         \/ Len(stack'[c]) = Len(stack[c])
         \/ /\ Len(stack'[c]) = Len(stack[c]) + 1
            /\ Run(c) \in Hook
            /\ LET r == stack'[c][Len(stack[c]) + 1].run
               IN  r \in Hook => IF label = "done" THEN r = below[Run(c)]
                                 ELSE TargetOf[r] = Observer[Run(c)]
  PROVE  Led'
<1> DEFINE n == Len(stack[c])
<1>1. n \in Nat \ {0} /\ \A d \in Caller \ {c} : stack'[d] = stack[d]
  BY DEF Moved
<1>2. ASSUME NEW i \in 1 .. Len(stack'[c]) - 1
      PROVE  /\ stack'[c][i].run \in Hook
             /\ stack'[c][i + 1].run \in Hook =>
                  IF stack'[c][i].at = "done"
                  THEN stack'[c][i + 1].run = below[stack'[c][i].run]
                  ELSE TargetOf[stack'[c][i + 1].run] = Observer[stack'[c][i].run]
  <2>1. CASE i \in 1 .. n - 1
    <3>1. stack'[c][i] = stack[c][i] /\ i + 1 \in 1 .. n
      BY <1>1, <2>1 DEF Moved
    <3>2. stack'[c][i + 1].run = stack[c][i + 1].run
      BY <1>1, <3>1, MovedSame
    <3>3. QED
      BY <2>1, <3>1, <3>2 DEF Led
  <2>2. CASE i = n /\ Len(stack'[c]) = n + 1
    <3>1. stack'[c][i].run = Run(c) /\ stack'[c][i].at = label
      BY <1>1, <2>2, MovedSame DEF Run, Top
    <3>2. QED
      BY <1>1, <2>2, <3>1
  <2>3. QED
    BY <1>1, <1>2, <2>1, <2>2
<1>3. QED
  BY <1>1, <1>2 DEF Led

LEMMA LedStep ==
  ASSUME TypeOK, FramesOK, Claims, RunInv, Homed, Led, [DispatchNext]_<<vars, calls>>
  PROVE  Led'
<1>1. CASE [Next]_vars /\ UNCHANGED calls
  <2> SUFFICES ASSUME NEW c \in Caller, NEW i \in 1 .. Len(stack[c]) - 1
               PROVE  /\ stack[c][i].run \in Hook
                      /\ stack[c][i + 1].run \in Hook =>
                           IF stack[c][i].at = "done"
                           THEN stack[c][i + 1].run = below'[stack[c][i].run]
                           ELSE TargetOf[stack[c][i + 1].run] = Observer[stack[c][i].run]
    BY <1>1 DEF calls, Led
  <2>1. i \in 1 .. Len(stack[c]) /\ stack[c][i].run \in Hook
    BY FrameParts DEF Led
  <2>2. below'[stack[c][i].run] = below[stack[c][i].run]
    BY <1>1, <2>1, BelowFixed DEF RunInv, RunsPlaced
  <2>3. QED
    BY <2>2 DEF Led
<1>2. ASSUME NEW c \in Caller, NEW t \in Target, Enter(c, t) PROVE Led'
  <2>1. /\ Len(stack'[c]) = 1 /\ \A d \in Caller \ {c} : stack'[d] = stack[d]
        /\ UNCHANGED below
    BY <1>2, EnterParts DEF Enter, vars
  <2>2. \A i \in 1 .. Len(stack'[c]) - 1 : FALSE
    BY <2>1
  <2> SUFFICES ASSUME NEW d \in Caller, NEW i \in 1 .. Len(stack'[d]) - 1
               PROVE  /\ stack'[d][i].run \in Hook
                      /\ stack'[d][i + 1].run \in Hook =>
                           IF stack'[d][i].at = "done"
                           THEN stack'[d][i + 1].run = below[stack'[d][i].run]
                           ELSE TargetOf[stack'[d][i + 1].run] = Observer[stack'[d][i].run]
    BY <2>1 DEF Led
  <2>3. stack'[d] = stack[d]
    BY <2>1, <2>2
  <2>4. QED
    BY <2>3 DEF Led
<1>3. ASSUME NEW c \in Caller, PassOff(c) \/ PassFirst(c) \/ PassEvery(c) PROVE Led'
  BY <1>3, PassParts, LedMoved DEF Label, vars
<1>4. ASSUME NEW c \in Caller, Emit(c) PROVE Led'
  <2>1. Moved(c, "body") /\ UNCHANGED below /\ Run(c) \in Hook
    BY <1>4, EmitParts DEF Inside, vars
  <2>2. CASE Len(stack'[c]) = Len(stack[c])
    BY <2>1, <2>2, LedMoved DEF Label
  <2>3. CASE Len(stack'[c]) # Len(stack[c])
    <3>1. /\ Observer[Run(c)] \in Target
          /\ Len(stack'[c]) = Len(stack[c]) + 1
          /\ stack'[c][Len(stack[c]) + 1].run = entry[Observer[Run(c)]]
      BY <1>4, <2>3, EmitCalled
    <3>2. QED
      BY <2>1, <3>1, LedMoved DEF Label, Homed
  <2>4. QED
    BY <2>2, <2>3
<1>5. ASSUME NEW c \in Caller, Forward(c) PROVE Led'
  <2>1. /\ Moved(c, "done") /\ UNCHANGED below /\ Run(c) \in Hook
        /\ Len(stack'[c]) = Len(stack[c]) + 1
    BY <1>5, ForwardParts DEF Inside, vars
  <2>2. stack'[c][Len(stack[c]) + 1].run = Original(Run(c))
    BY <1>5, ForwardParts, StartParts
  <2>3. Original(Run(c)) \in Hook => Original(Run(c)) = below[Run(c)]
    BY <2>1, FallbackApart DEF Original, Claims, Published, Installed, TypeOK
  <2>4. QED
    BY <2>1, <2>2, <2>3, LedMoved DEF Label
<1>6. ASSUME NEW c \in Caller, Answer(c) PROVE Led'
  BY <1>6, AnswerParts, LedMoved DEF Label, vars
<1>7. ASSUME NEW c \in Caller, Return(c) PROVE Led'
  <2> SUFFICES ASSUME NEW d \in Caller, NEW i \in 1 .. Len(stack'[d]) - 1
               PROVE  /\ stack'[d][i].run \in Hook
                      /\ stack'[d][i + 1].run \in Hook =>
                           IF stack'[d][i].at = "done"
                           THEN stack'[d][i + 1].run = below[stack'[d][i].run]
                           ELSE TargetOf[stack'[d][i + 1].run] = Observer[stack'[d][i].run]
    BY <1>7 DEF Led, Return, vars
  <2>1. CASE d = c
    <3>1. i \in 1 .. Len(stack[c]) - 1 /\ i + 1 \in 1 .. Len(stack[c]) - 1
      BY <1>7, <2>1, ReturnParts
    <3>2. stack'[c][i] = stack[c][i] /\ stack'[c][i + 1] = stack[c][i + 1]
      BY <1>7, <3>1, ReturnParts
    <3>3. QED
      BY <2>1, <3>1, <3>2 DEF Led
  <2>2. CASE d # c
    BY <1>7, <2>2, ReturnParts DEF Led
  <2>3. QED
    BY <2>1, <2>2
<1>8. QED
  BY <1>1, <1>2, <1>3, <1>4, <1>5, <1>6, <1>7, DispatchKinds

\* The frames before i whose observer is called for a first hit; those since the
\* last of them whose observer is called for every hit; and those since the last
\* of either, which forwarded.
Hits(c, i)     == {j \in 1 .. i - 1 : Calling(c, j) /\ ModeOf[stack[c][j].run] = "FirstHit"}
Everies(c, i)  == {j \in 1 .. i - 1 : /\ Calling(c, j)
                                      /\ ModeOf[stack[c][j].run] = "EveryHit"
                                      /\ Hits(c, j) = Hits(c, i)}
Forwarded(c, i) == {j \in 1 .. i - 1 : /\ ~Calling(c, j)
                                       /\ Hits(c, j) = Hits(c, i)
                                       /\ Everies(c, j) = Everies(c, i)}

\* The observers of every hit lead out of every set of targets: none of them
\* calls, by way of others, the target it reports.
ObserversLeave ==
  \A U \in SUBSET Target : U # {} =>
    \E t \in U : \A h \in Hook :
      TargetOf[h] = t /\ ModeOf[h] = "EveryHit" => Observer[h] \notin U

StackInv == FramesOK /\ PastGate /\ Observed /\ SpentHits /\ Homed /\ Led

\* Between two positions with the same hits behind them no first hit is reported;
\* if the same hits of every kind are behind them, none is.
LEMMA Since ==
  ASSUME StackInv, NEW c \in Caller, NEW p \in 1 .. Len(stack[c]),
         NEW q \in p .. Len(stack[c]), Hits(c, p) = Hits(c, q),
         NEW k \in p .. q - 1
  PROVE  /\ Hits(c, k) = Hits(c, p)
         /\ k < Len(stack[c])
         /\ stack[c][k].at = "done" \/ (Calling(c, k) /\ ModeOf[stack[c][k].run] = "EveryHit")
         /\ Everies(c, p) = Everies(c, q) => stack[c][k].at = "done" /\ Everies(c, k) = Everies(c, p)
<1>1. Len(stack[c]) \in Nat /\ p \in Nat /\ q \in Nat /\ k \in Nat /\ k < Len(stack[c])
  BY FrameParts DEF StackInv
<1>2. k \in 1 .. Len(stack[c]) - 1
  BY <1>1
<1>3. stack[c][k].at \in {"body", "done"} /\ stack[c][k].run \in Hook
  BY <1>2 DEF StackInv, PastGate, Led
<1>4. Calling(c, k) => ModeOf[stack[c][k].run] # "Off"
  BY <1>2 DEF StackInv, Observed
<1>5. Hits(c, p) \subseteq Hits(c, k) /\ Hits(c, k) \subseteq Hits(c, q)
  BY <1>1 DEF Hits
<1>6. Hits(c, k) = Hits(c, p)
  BY <1>5
<1>7. Calling(c, k) => ModeOf[stack[c][k].run] # "FirstHit"
  <2>1. k \notin Hits(c, p)
    BY <1>1 DEF Hits
  <2>2. k \in 1 .. q - 1 /\ k \notin Hits(c, q)
    BY <1>1, <2>1
  <2>3. QED
    BY <2>2 DEF Hits
<1>8. Calling(c, k) => ModeOf[stack[c][k].run] = "EveryHit"
  BY <1>3, <1>4, <1>7, DispatchAssumption DEF Mode
<1>9. ASSUME Everies(c, p) = Everies(c, q)
      PROVE  ~Calling(c, k) /\ Everies(c, k) = Everies(c, p)
  <2>1. k \notin Everies(c, p)
    BY <1>1 DEF Everies
  <2>2. k \in 1 .. q - 1 /\ k \notin Everies(c, q)
    BY <1>1, <1>9, <2>1
  <2>3. ~Calling(c, k)
    BY <1>6, <1>8, <2>2 DEF Everies
  <2>4. Everies(c, p) \subseteq Everies(c, k) /\ Everies(c, k) \subseteq Everies(c, q)
    BY <1>1, <1>6 DEF Everies
  <2>5. QED
    BY <1>9, <2>3, <2>4
<1>10. QED
  BY <1>1, <1>3, <1>6, <1>8, <1>9 DEF Calling

\* No hook forwards twice within one chain.
LEMMA ForwardedOnce ==
  ASSUME StackInv, BelowAcyclic, NEW c \in Caller, NEW i \in 1 .. Len(stack[c]),
         NEW p \in Forwarded(c, i), NEW q \in Forwarded(c, i),
         stack[c][p].run = stack[c][q].run
  PROVE  ~(p < q)
<1> SUFFICES ASSUME p < q PROVE FALSE
  OBVIOUS
<1> DEFINE S == {stack[c][k].run : k \in p .. q - 1}
<1>1. /\ Len(stack[c]) \in Nat /\ p \in 1 .. Len(stack[c]) /\ q \in p .. Len(stack[c])
      /\ q < Len(stack[c]) /\ Hits(c, p) = Hits(c, q) /\ Everies(c, p) = Everies(c, q)
  BY FrameParts DEF StackInv, Forwarded
<1>2. \A k \in p .. q - 1 : stack[c][k].at = "done"
  BY <1>1, Since
<1>3. \A k \in p .. q : stack[c][k].run \in Hook
  BY <1>1 DEF StackInv, Led
<1>4. ASSUME NEW k \in p .. q - 1 PROVE below[stack[c][k].run] \in S
  <2>1. k \in 1 .. Len(stack[c]) - 1 /\ k + 1 \in p .. q
    BY <1>1
  <2>2. stack[c][k + 1].run = below[stack[c][k].run]
    BY <1>2, <1>3, <2>1 DEF StackInv, Led
  <2>3. stack[c][k + 1].run \in S
    <3>1. CASE k + 1 = q
      BY <1>1, <3>1
    <3>2. CASE k + 1 # q
      <4>1. k + 1 \in p .. q - 1
        BY <1>1, <2>1, <3>2
      <4>2. QED
        BY <4>1
    <3>3. QED
      BY <3>1, <3>2
  <2>4. QED
    BY <2>2, <2>3
<1>5. S \in SUBSET Hook /\ S # {}
  <2>1. p \in p .. q - 1
    BY <1>1
  <2>2. \A k \in p .. q - 1 : stack[c][k].run \in Hook
    BY <1>1, <1>3
  <2>3. QED
    BY <2>1, <2>2
<1>6. QED
  BY <1>4, <1>5 DEF BelowAcyclic

\* No hook reports two hits on one stack, unless a first hit lies between: the
\* targets in between would be called from one another in a circle.
LEMMA EveriesOnce ==
  ASSUME StackInv, BelowAcyclic, ObserversLeave,
         NEW c \in Caller, NEW i \in 1 .. Len(stack[c]),
         NEW p \in Everies(c, i), NEW q \in Everies(c, i),
         stack[c][p].run = stack[c][q].run
  PROVE  ~(p < q)
<1> SUFFICES ASSUME p < q PROVE FALSE
  OBVIOUS
<1> DEFINE S == {stack[c][k].run : k \in p .. q - 1}
           U == {TargetOf[h] : h \in S}
<1>1. /\ Len(stack[c]) \in Nat /\ p \in 1 .. Len(stack[c]) /\ q \in p .. Len(stack[c])
      /\ q < Len(stack[c]) /\ Hits(c, p) = Hits(c, q)
  BY FrameParts DEF StackInv, Everies
<1>2. \A k \in p .. q - 1 :
        stack[c][k].at = "done" \/ (Calling(c, k) /\ ModeOf[stack[c][k].run] = "EveryHit")
  BY <1>1, Since
<1>3. \A k \in p .. q : stack[c][k].run \in Hook
  BY <1>1, SMTT(30) DEF StackInv, Led
<1>4. ASSUME NEW k \in p .. q - 1 PROVE stack[c][k + 1].run \in S
  <2>1. CASE k + 1 = q
    BY <1>1, <2>1
  <2>2. CASE k + 1 # q
    <3>1. k + 1 \in p .. q - 1
      BY <1>1, <2>2
    <3>2. QED
      BY <3>1
  <2>3. QED
    BY <2>1, <2>2
<1>5. S \in SUBSET Hook /\ S # {}
  <2>1. p \in p .. q - 1
    BY <1>1
  <2>2. \A k \in p .. q - 1 : stack[c][k].run \in Hook
    BY <1>1, <1>3
  <2>3. QED
    BY <2>1, <2>2
<1>6. U \in SUBSET Target /\ U # {}
  BY <1>5, TargetAssumption
<1>7. PICK t \in U : \A h \in Hook :
        TargetOf[h] = t /\ ModeOf[h] = "EveryHit" => Observer[h] \notin U
  BY <1>6 DEF ObserversLeave
<1> DEFINE St == {h \in S : TargetOf[h] = t}
<1>8. ASSUME NEW h \in St PROVE below[h] \in St
  <2>1. PICK k \in p .. q - 1 : h = stack[c][k].run
    OBVIOUS
  <2>2. k \in 1 .. Len(stack[c]) - 1 /\ k + 1 \in p .. q
    BY <1>1
  <2>3. h \in Hook /\ stack[c][k + 1].run \in Hook /\ stack[c][k + 1].run \in S
    BY <1>3, <1>4, <1>5, <2>2
  <2>4. CASE stack[c][k].at = "done"
    <3>1. stack[c][k + 1].run = below[h]
      BY <2>1, <2>2, <2>3, <2>4 DEF StackInv, Led
    <3>2. TargetOf[below[h]] = TargetOf[h]
      BY <2>3, <3>1 DEF StackInv, Homed
    <3>3. QED
      BY <2>3, <3>1, <3>2
  <2>5. CASE stack[c][k].at # "done"
    <3>1. ModeOf[h] = "EveryHit"
      BY <1>2, <2>1, <2>5
    <3>2. TargetOf[stack[c][k + 1].run] = Observer[h]
      BY <2>1, <2>2, <2>3, <2>5 DEF StackInv, Led
    <3>3. Observer[h] \in U
      BY <2>3, <3>2
    <3>4. QED
      BY <1>7, <2>3, <3>1, <3>3
  <2>6. QED
    BY <2>4, <2>5
<1>9. St \in SUBSET Hook /\ St # {}
  BY <1>5, <1>7
<1>10. QED
  BY <1>8, <1>9 DEF BelowAcyclic

LEMMA HitsOnce ==
  ASSUME StackInv, NEW c \in Caller, NEW i \in 1 .. Len(stack[c]),
         NEW p \in Hits(c, i), NEW q \in Hits(c, i),
         stack[c][p].run = stack[c][q].run
  PROVE  ~(p < q)
<1>1. /\ p \in 1 .. Len(stack[c]) /\ q \in 1 .. Len(stack[c])
      /\ Calling(c, p) /\ Calling(c, q) /\ ModeOf[stack[c][p].run] = "FirstHit"
  BY FrameParts DEF StackInv, Hits
<1>2. QED
  BY <1>1 DEF StackInv, SpentHits

\* Frames that run different hooks are no more than there are hooks.
LEMMA FramesCounted ==
  ASSUME StackInv, NEW c \in Caller, NEW i \in 1 .. Len(stack[c]),
         NEW P \in SUBSET (1 .. i - 1),
         \A p, q \in P : stack[c][p].run = stack[c][q].run => ~(p < q)
  PROVE  IsFiniteSet(P) /\ Cardinality(P) \in 0 .. N
<1> DEFINE f == [p \in P |-> stack[c][p].run]
<1>1. Len(stack[c]) \in Nat /\ P \subseteq Nat
  BY FrameParts DEF StackInv
<1>2. \A p \in P : stack[c][p].run \in Hook
  <2>1. \A p \in P : p \in 1 .. Len(stack[c]) - 1
    BY <1>1
  <2>2. QED
    BY <2>1 DEF StackInv, Led
<1>3. \A p, q \in P : f[p] = f[q] => p = q
  <2>1. \A p, q \in P : p < q \/ q < p \/ p = q
    BY <1>1
  <2>2. QED
    BY <2>1
<1>4. f \in Injection(P, Hook)
  BY <1>2, <1>3 DEF Injection, IsInjective
<1>5. IsFiniteSet(Hook) /\ Cardinality(Hook) = N
  BY FS_Interval, CountAssumption DEF Hook
<1>6. IsFiniteSet(P) /\ Cardinality(P) <= N
  BY <1>4, <1>5, FS_Injection
<1>7. Cardinality(P) \in Nat
  BY <1>6, FS_CardinalityType
<1>8. QED
  BY <1>6, <1>7, CountAssumption

Places(c, i) == <<Cardinality(Hits(c, i)), Cardinality(Everies(c, i)),
                  Cardinality(Forwarded(c, i))>>

\* What is behind a position tells it from every later one.
LEMMA PlacesDiffer ==
  ASSUME StackInv, BelowAcyclic, ObserversLeave, NEW c \in Caller,
         NEW i \in 1 .. Len(stack[c]), NEW j \in 1 .. Len(stack[c]), i < j,
         Places(c, i) = Places(c, j)
  PROVE  FALSE
<1>1. Len(stack[c]) \in Nat /\ j \in i .. Len(stack[c]) /\ i \in i .. j - 1
  BY FrameParts DEF StackInv
<1>2. ASSUME NEW k \in 1 .. Len(stack[c])
      PROVE  IsFiniteSet(Hits(c, k)) /\ IsFiniteSet(Everies(c, k))
             /\ IsFiniteSet(Forwarded(c, k))
  <2>1. Hits(c, k) \in SUBSET (1 .. k - 1) /\ Everies(c, k) \in SUBSET (1 .. k - 1)
        /\ Forwarded(c, k) \in SUBSET (1 .. k - 1)
    BY DEF Hits, Everies, Forwarded
  <2>2. QED
    BY <2>1, HitsOnce, EveriesOnce, ForwardedOnce, FramesCounted
<1>3. Hits(c, i) = Hits(c, j)
  <2>1. Hits(c, i) \in SUBSET Hits(c, j)
    BY <1>1 DEF Hits
  <2>2. QED
    BY <1>2, <2>1, FS_Subset DEF Places
<1>4. Everies(c, i) = Everies(c, j)
  <2>1. Everies(c, i) \in SUBSET Everies(c, j)
    BY <1>1, <1>3 DEF Everies
  <2>2. QED
    BY <1>2, <2>1, FS_Subset DEF Places
<1>5. Forwarded(c, i) = Forwarded(c, j)
  <2>1. Forwarded(c, i) \in SUBSET Forwarded(c, j)
    BY <1>1, <1>3, <1>4 DEF Forwarded
  <2>2. QED
    BY <1>2, <2>1, FS_Subset DEF Places
<1>6. stack[c][i].at = "done"
  BY <1>1, <1>3, <1>4, Since
<1>7. i \in Forwarded(c, j)
  BY <1>1, <1>3, <1>4, <1>6 DEF Forwarded, Calling
<1>8. i \notin Forwarded(c, i)
  BY <1>1 DEF Forwarded
<1>9. QED
  BY <1>5, <1>7, <1>8

LEMMA StackCounted ==
  ASSUME StackInv, BelowAcyclic, ObserversLeave, NEW c \in Caller
  PROVE  Len(stack[c]) <= (N + 1) * ((N + 1) * (N + 1))
<1> DEFINE n == Len(stack[c])
           K == 0 .. N
           key == [i \in 1 .. n |-> <<Cardinality(Hits(c, i)),
                    <<Cardinality(Everies(c, i)), Cardinality(Forwarded(c, i))>>>>]
<1>1. n \in Nat
  BY FrameParts DEF StackInv
<1>2. IsFiniteSet(K) /\ Cardinality(K) = N + 1
  BY FS_Interval, CountAssumption
<1>3. IsFiniteSet(K \X K) /\ Cardinality(K \X K) = (N + 1) * (N + 1)
  BY <1>2, FS_Product
<1>4. IsFiniteSet(K \X (K \X K))
      /\ Cardinality(K \X (K \X K)) = (N + 1) * ((N + 1) * (N + 1))
  BY <1>2, <1>3, FS_Product
<1>5. ASSUME NEW i \in 1 .. n PROVE key[i] \in K \X (K \X K)
  <2>1. Hits(c, i) \in SUBSET (1 .. i - 1) /\ Everies(c, i) \in SUBSET (1 .. i - 1)
        /\ Forwarded(c, i) \in SUBSET (1 .. i - 1)
    BY DEF Hits, Everies, Forwarded
  <2>2. Cardinality(Hits(c, i)) \in K /\ Cardinality(Everies(c, i)) \in K
        /\ Cardinality(Forwarded(c, i)) \in K
    BY <2>1, HitsOnce, EveriesOnce, ForwardedOnce, FramesCounted
  <2>3. QED
    BY <2>2
<1>6. ASSUME NEW i \in 1 .. n, NEW j \in 1 .. n, key[i] = key[j] PROVE i = j
  <2>1. Places(c, i) = Places(c, j)
    BY <1>6 DEF Places
  <2>2. i < j \/ j < i \/ i = j
    BY <1>1
  <2>3. QED
    BY <2>1, <2>2, PlacesDiffer
<1>7. key \in Injection(1 .. n, K \X (K \X K))
  BY <1>5, <1>6 DEF Injection, IsInjective
<1>8. Cardinality(1 .. n) <= Cardinality(K \X (K \X K))
  BY <1>4, <1>7, FS_Injection
<1>9. Cardinality(1 .. n) = n
  BY <1>1, FS_Interval
<1>10. QED
  BY <1>4, <1>8, <1>9

\* Calls take bounded stack, however observers call hooked targets: a first hit is
\* reported once, because its gate is closed before its observer runs, and forwards
\* come to an end.
THEOREM StackTheorem ==
  ASSUME FaultsReported, ObserversLeave, Depth >= (N + 1) * ((N + 1) * (N + 1))
  PROVE  DispatchSpec /\ []Orderly => []StackBounded
<1> DEFINE Inv == Observed /\ SpentHits /\ Homed /\ Led
<1>1. DispatchInit => Inv
  <2> SUFFICES ASSUME DispatchInit PROVE Inv
    OBVIOUS
  <2>1. Observed /\ SpentHits /\ Led
    BY DEF DispatchInit, Observed, SpentHits, Led
  <2>2. Homed
    BY ImplTypes DEF DispatchInit, Init, Homed, Unset, Hook
  <2>3. QED
    BY <2>1, <2>2
<1>2. TypeOK /\ FramesOK /\ FirstHits /\ Claims /\ RunInv /\ Inv
        /\ [DispatchNext]_<<vars, calls>> => Inv'
  <2> SUFFICES ASSUME TypeOK, FramesOK, FirstHits, Claims, RunInv, Inv,
                      [DispatchNext]_<<vars, calls>>
               PROVE  Inv'
    OBVIOUS
  <2>1. [Next]_vars
    BY DispatchKinds
  <2>2. QED
    BY <2>1, ObservedStep, SpentHitsStep, HomedStep, LedStep
<1>3. FramesOK /\ PastGate /\ Inv /\ Chain => StackBounded
  <2> SUFFICES ASSUME FramesOK, PastGate, Inv, Chain, NEW c \in Caller
               PROVE  Len(stack[c]) <= Depth
    BY DEF StackBounded
  <2>1. Len(stack[c]) <= (N + 1) * ((N + 1) * (N + 1))
    BY StackCounted DEF StackInv, Chain
  <2>2. /\ Len(stack[c]) \in Nat /\ Depth \in Nat
        /\ (N + 1) * ((N + 1) * (N + 1)) \in Nat
    BY FrameParts, DispatchAssumption, CountAssumption
  <2>3. QED
    BY <2>1, <2>2
<1>4. QED
  BY <1>1, <1>2, <1>3, RunInvariant, HitsInvariant, ClaimsInvariant, ChainInvariant,
     DispatchImplementsInstall, DispatchTypeCorrect, FramesInvariant, PTL DEF DispatchSpec

------------------------------------------------------------------------------
(* Every call of a target ends, as far as that can be said without fairness: *)
(* each step inside a call makes smaller what its frames, outermost first,   *)
(* have left to do. A frame that calls another has done part of its own work. *)

WorkOf(label) == CASE label = "head" -> 4
                   [] label = "emit" -> 3
                   [] label = "body" -> 2
                   [] label = "done" -> 1

Work(c) == [i \in 1 .. Depth |->
              IF i \in 1 .. Len(stack[c]) THEN WorkOf(stack[c][i].at) ELSE 0]

\* The outermost frame in which two stacks differ tells which has more to do.
NatOrder  == {ss \in Nat \X Nat : ss[1] < ss[2]}
WorkOrder == LexProductOrdering(NatOrder, Nat, Depth)

LEMMA WorkOrderEnds == IsWellFoundedOn(WorkOrder, [1 .. Depth -> Nat])
<1>1. IsWellFoundedOn(NatOrder, Nat)
  BY NatLessThanWellFounded DEF NatOrder, OpToRel
<1>2. Depth \in Nat
  BY DispatchAssumption
<1>3. QED
  BY <1>1, <1>2, WFLexProductOrdering DEF WorkOrder

LEMMA WorkOrderMeans ==
  ASSUME NEW v \in [1 .. Depth -> Nat], NEW w \in [1 .. Depth -> Nat], NEW n \in 1 .. Depth,
         \A i \in 1 .. n - 1 : v[i] = w[i], v[n] < w[n]
  PROVE  <<v, w>> \in WorkOrder
<1>1. <<v[n], w[n]>> \in NatOrder
  BY DispatchAssumption DEF NatOrder
<1>2. QED
  BY <1>1 DEF WorkOrder, LexProductOrdering

WorkOK == \A c \in Caller : Work(c) \in [1 .. Depth -> Nat]

LEMMA WorkTypes == FramesOK => WorkOK
<1> SUFFICES ASSUME FramesOK, NEW c \in Caller, NEW i \in 1 .. Len(stack[c])
             PROVE  WorkOf(stack[c][i].at) \in Nat
  BY DEF WorkOK, Work
<1>1. stack[c][i].at \in Label
  BY FrameParts DEF Frame, Label
<1>2. QED
  BY <1>1 DEF Label, WorkOf

\* A step inside a call leaves its innermost frame with less to do, and those
\* outside that with the same.
Falls(c) ==
  LET n == Len(stack[c])
  IN  /\ n \in 1 .. Depth
      /\ \A i \in 1 .. n - 1 : Work(c)'[i] = Work(c)[i]
      /\ Work(c)'[n] < Work(c)[n]

\* A frame that goes on to a later label has less to do, whatever it calls.
LEMMA MovedFalls ==
  ASSUME FramesOK, NEW c \in Caller, stack[c] # <<>>, Len(stack[c]) <= Depth,
         NEW label \in Label, Moved(c, label), WorkOf(label) < WorkOf(Top(c).at)
  PROVE  Falls(c)
<1> DEFINE n == Len(stack[c])
<1>1. n \in Nat \ {0} /\ Depth \in Nat /\ n \in 1 .. Depth
  BY FrameParts, DispatchAssumption
<1>2. Len(stack'[c]) \in Nat /\ Len(stack'[c]) >= n
  BY DEF Moved
<1>3. ASSUME NEW i \in 1 .. n - 1 PROVE Work(c)'[i] = Work(c)[i]
  <2>1. i \in 1 .. Depth /\ i \in 1 .. n /\ i \in 1 .. Len(stack'[c])
    BY <1>1, <1>2
  <2>2. stack'[c][i] = stack[c][i]
    BY DEF Moved
  <2>3. QED
    BY <2>1, <2>2 DEF Work
<1>4. Work(c)'[n] = WorkOf(label) /\ Work(c)[n] = WorkOf(Top(c).at)
  <2>1. n \in 1 .. Len(stack[c]) /\ n \in 1 .. Len(stack'[c])
    BY <1>1, <1>2
  <2>2. stack'[c][n].at = label
    <3>1. Top(c) \in Frame /\ stack'[c][n] = [Top(c) EXCEPT !.at = label]
      BY FrameParts DEF Moved
    <3>2. QED
      BY <3>1 DEF Frame
  <2>3. QED
    BY <1>1, <2>1, <2>2 DEF Work, Top
<1>5. QED
  BY <1>1, <1>3, <1>4 DEF Falls

LEMMA ReturnFalls ==
  ASSUME FramesOK, NEW c \in Caller, Return(c), Len(stack[c]) <= Depth
  PROVE  Falls(c)
<1> DEFINE n == Len(stack[c])
<1>1. n \in Nat \ {0} /\ Depth \in Nat /\ n \in 1 .. Depth
  BY ReturnParts, DispatchAssumption
<1>2. Len(stack'[c]) = n - 1
  BY ReturnParts
<1>3. ASSUME NEW i \in 1 .. n - 1 PROVE Work(c)'[i] = Work(c)[i]
  <2>1. i \in 1 .. Depth /\ i \in 1 .. n /\ i \in 1 .. Len(stack'[c])
    BY <1>1, <1>2
  <2>2. stack'[c][i] = stack[c][i]
    BY ReturnParts
  <2>3. QED
    BY <2>1, <2>2 DEF Work
<1>4. Work(c)'[n] = 0
  <2>1. n \notin 1 .. Len(stack'[c])
    BY <1>1, <1>2
  <2>2. QED
    BY <1>1, <2>1 DEF Work
<1>5. Work(c)[n] \in 1 .. 4
  <2>1. stack[c][n].at \in Label
    BY <1>1, FrameParts DEF Frame, Label
  <2>2. WorkOf(stack[c][n].at) \in 1 .. 4
    BY <2>1 DEF Label, WorkOf
  <2>3. QED
    BY <1>1, <2>2 DEF Work
<1>6. QED
  BY <1>1, <1>3, <1>4, <1>5 DEF Falls

LEMMA StepFalls ==
  ASSUME TypeOK, FramesOK, StackBounded, NEW c \in Caller, CallStep(c)
  PROVE  Falls(c)
<1>1. Len(stack[c]) <= Depth
  BY DEF StackBounded
<1>2. /\ WorkOf("head") = 4 /\ WorkOf("emit") = 3
      /\ WorkOf("body") = 2 /\ WorkOf("done") = 1
  BY DEF WorkOf
<1>3. CASE PassOff(c) \/ PassFirst(c) \/ PassEvery(c)
  <2>1. stack[c] # <<>> /\ Top(c).at = "head" /\ \E label \in {"emit", "body"} : Moved(c, label)
    BY <1>3, PassParts DEF Inside
  <2>2. QED
    BY <1>1, <1>2, <2>1, MovedFalls DEF Label
<1>4. CASE Emit(c)
  <2>1. stack[c] # <<>> /\ Top(c).at = "emit" /\ Moved(c, "body")
    BY <1>4, EmitParts DEF Inside
  <2>2. QED
    BY <1>1, <1>2, <2>1, MovedFalls DEF Label
<1>5. CASE Forward(c)
  <2>1. stack[c] # <<>> /\ Top(c).at = "body" /\ Moved(c, "done")
    BY <1>5, ForwardParts DEF Inside
  <2>2. QED
    BY <1>1, <1>2, <2>1, MovedFalls DEF Label
<1>6. CASE Answer(c)
  <2>1. stack[c] # <<>> /\ Top(c).at = "body" /\ Moved(c, "done")
    BY <1>6, AnswerParts DEF Inside
  <2>2. QED
    BY <1>1, <1>2, <2>1, MovedFalls DEF Label
<1>7. CASE Return(c)
  BY <1>1, <1>7, ReturnFalls
<1>8. QED
  BY <1>3, <1>4, <1>5, <1>6, <1>7 DEF CallStep

\* A call is moved on by its own thread alone.
LEMMA OthersLeave ==
  ASSUME TypeOK, FramesOK, [DispatchNext]_<<vars, calls>>,
         NEW c \in Caller, stack[c] # <<>>, ~CallStep(c)
  PROVE  stack'[c] = stack[c]
<1>1. CASE UNCHANGED calls
  BY <1>1 DEF calls
<1>2. ASSUME NEW d \in Caller, NEW t \in Target, Enter(d, t) PROVE stack'[c] = stack[c]
  <2>1. d # c
    BY <1>2 DEF Enter
  <2>2. QED
    BY <1>2, <2>1, EnterParts
<1>3. ASSUME NEW d \in Caller, CallStep(d) PROVE stack'[c] = stack[c]
  <2>1. d # c
    BY <1>3
  <2>2. \A e \in Caller \ {d} : stack'[e] = stack[e]
    BY <1>3, PassParts, EmitParts, ForwardParts, AnswerParts, ReturnParts DEF CallStep, Moved
  <2>3. QED
    BY <2>1, <2>2
<1>4. QED
  BY <1>1, <1>2, <1>3 DEF DispatchNext, calls

\* A call of a target takes finitely many steps, whatever the installers and the
\* other callers do, and so do the calls that its observers make.
THEOREM DispatchEndsTheorem ==
  ASSUME FaultsReported, ObserversLeave, Depth >= (N + 1) * ((N + 1) * (N + 1))
  PROVE  /\ IsWellFoundedOn(WorkOrder, [1 .. Depth -> Nat])
         /\ DispatchSpec /\ []Orderly
              => [][\A c \in Caller : stack[c] # <<>> =>
                      /\ Work(c) \in [1 .. Depth -> Nat]
                      /\ IF CallStep(c) THEN <<Work(c)', Work(c)>> \in WorkOrder
                         ELSE stack'[c] = stack[c]]_<<vars, calls>>
<1>1. TypeOK /\ FramesOK /\ WorkOK /\ WorkOK' /\ StackBounded /\ [DispatchNext]_<<vars, calls>>
        => \A c \in Caller : stack[c] # <<>> =>
             /\ Work(c) \in [1 .. Depth -> Nat]
             /\ IF CallStep(c) THEN <<Work(c)', Work(c)>> \in WorkOrder
                ELSE stack'[c] = stack[c]
  <2> SUFFICES ASSUME TypeOK, FramesOK, WorkOK, WorkOK',
                      StackBounded, [DispatchNext]_<<vars, calls>>,
                      NEW c \in Caller, stack[c] # <<>>
               PROVE  /\ Work(c) \in [1 .. Depth -> Nat]
                      /\ IF CallStep(c) THEN <<Work(c)', Work(c)>> \in WorkOrder
                         ELSE stack'[c] = stack[c]
    OBVIOUS
  <2>1. Work(c) \in [1 .. Depth -> Nat] /\ Work(c)' \in [1 .. Depth -> Nat]
    BY DEF WorkOK
  <2>2. CASE CallStep(c)
    <3>1. Falls(c)
      BY <2>2, StepFalls
    <3>2. <<Work(c)', Work(c)>> \in WorkOrder
      BY <2>1, <3>1, WorkOrderMeans DEF Falls
    <3>3. QED
      BY <2>1, <2>2, <3>2
  <2>3. CASE ~CallStep(c)
    BY <2>1, <2>3, OthersLeave
  <2>4. QED
    BY <2>2, <2>3
<1>2. DispatchSpec /\ []Orderly => []StackBounded
  BY StackTheorem
<1>3. DispatchSpec /\ []Orderly
        => [][\A c \in Caller : stack[c] # <<>> =>
                /\ Work(c) \in [1 .. Depth -> Nat]
                /\ IF CallStep(c) THEN <<Work(c)', Work(c)>> \in WorkOrder
                   ELSE stack'[c] = stack[c]]_<<vars, calls>>
  BY <1>1, <1>2, DispatchTypeCorrect, FramesInvariant, WorkTypes, PTL DEF DispatchSpec
<1>4. QED
  BY <1>3, WorkOrderEnds
=============================================================================
