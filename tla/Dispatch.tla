------------------------------ MODULE Dispatch ------------------------------
(***************************************************************************)
(* Calls of hooked targets while hooks are being installed.                *)
(*                                                                         *)
(* A thread of the program that calls a target runs whatever the engine    *)
(* has put in front of it. A generated hook body first passes its          *)
(* observation gate, may hand the hit to the observer (which can itself    *)
(* call hooked targets), and then runs the user's statements, where        *)
(* `forward!()` reads the hook's OnceLock and calls the original, or the   *)
(* generated fallback if there is none yet.                                *)
(*                                                                         *)
(* A thread is a stack of the implementations it is inside; one step reads *)
(* or writes one shared static.                                            *)
(***************************************************************************)
EXTENDS Install, Sequences, FiniteSets

CONSTANTS
  Caller,    \* threads of the program that call targets
  ModeOf,    \* Hook -> InterceptionMode
  Observer,  \* Hook -> the target its observer calls, or Nothing
  Nothing,
  Forwards,  \* hooks whose body uses forward!()
  Depth      \* calls that fit on a thread's stack

Fallback == -2
Mode     == {"Off", "FirstHit", "EveryHit"}

ASSUME DispatchAssumption == /\ ModeOf \in [Hook -> Mode]
                             /\ Observer \in [Hook -> Target \cup {Nothing}]
                             /\ Nothing \notin Target
                             /\ Forwards \subseteq Hook
                             /\ Depth \in Nat

VARIABLES
  stack,    \* the implementations each thread is inside, innermost last
  hit,      \* hooks whose first-hit OnceLock is set
  emitted,  \* history: observer calls per hook, up to 2
  owed      \* history: what a thread's call has still to reach, see OwedPaid

calls == <<stack, hit, emitted, owed>>

DispatchInit == /\ Init
                /\ stack = [c \in Caller |-> <<>>]
                /\ hit = {}
                /\ emitted = [h \in Hook |-> 0]
                /\ owed = [c \in Caller |-> {}]

\* A frame. outer: it is the program's call or a forward of it, and not part of
\* a call that an observer makes.
Start(impl, outer) == [run |-> impl, at |-> "head", outer |-> outer]
Top(c)     == stack[c][Len(stack[c])]
Run(c)     == Top(c).run
Inside(c, label) == stack[c] # <<>> /\ Run(c) \in Hook /\ Top(c).at = label

\* The innermost frame of c moves on, and calls the frames in callee.
Advance(c, label, callee) ==
  stack' = [stack EXCEPT ![c] =
              [@ EXCEPT ![Len(@)].at = label] \o callee]

\* The program calls a target: the code there decides what runs.
Enter(c, t) ==
  /\ stack[c] = <<>>
  /\ stack' = [stack EXCEPT ![c] = <<Start(entry[t], TRUE)>>]
  /\ owed' = [owed EXCEPT ![c] =
                ({Real} \cup {h \in Hook : TargetOf[h] = t /\ Installed(h)})
                  \ {entry[t]}]
  /\ UNCHANGED <<vars, hit, emitted>>

\* The observation gate at the function head.
PassOff(c) == /\ Inside(c, "head")
              /\ ModeOf[Run(c)] = "Off"
              /\ Advance(c, "body", <<>>)
              /\ UNCHANGED <<vars, hit, emitted, owed>>

\* Mutant: the result of set() is not looked at.
PassFirstAlways(c) == /\ Inside(c, "head")
                      /\ ModeOf[Run(c)] = "FirstHit"
                      /\ hit' = hit \cup {Run(c)}
                      /\ Advance(c, "emit", <<>>)
                      /\ UNCHANGED <<vars, emitted, owed>>

\* Mutant: the gate is left open.
PassFirstOpen(c) == /\ Inside(c, "head")
                    /\ ModeOf[Run(c)] = "FirstHit"
                    /\ Advance(c, IF Run(c) \in hit THEN "body" ELSE "emit", <<>>)
                    /\ UNCHANGED <<vars, hit, emitted, owed>>

\* `intercept_once.set(()).is_ok()`: the gate closes before the emission.
PassFirst(c) == /\ Inside(c, "head")
                /\ ModeOf[Run(c)] = "FirstHit"
                /\ hit' = hit \cup {Run(c)}
                /\ Advance(c, IF Run(c) \in hit THEN "body" ELSE "emit", <<>>)
                /\ UNCHANGED <<vars, emitted, owed>>

PassEvery(c) == /\ Inside(c, "head")
                /\ ModeOf[Run(c)] = "EveryHit"
                /\ Advance(c, "emit", <<>>)
                /\ UNCHANGED <<vars, hit, emitted, owed>>

\* The observer gets the hit and may call a target before it returns.
Emit(c) ==
  LET t == Observer[Run(c)]
  IN  /\ Inside(c, "emit")
      /\ emitted' = [emitted EXCEPT ![Run(c)] = IF @ < 2 THEN @ + 1 ELSE @]
      /\ Advance(c, "body",
                 IF t = Nothing THEN <<>> ELSE <<Start(entry[t], FALSE)>>)
      /\ UNCHANGED <<vars, hit, owed>>

\* `accessor().unwrap_or(fallback)`
Original(h) == IF Installed(h) THEN original[h] ELSE Fallback

\* Mutant: forward!() waits for the original.
ForwardWaiting(c) ==
  /\ Inside(c, "body")
  /\ Run(c) \in Forwards
  /\ Installed(Run(c))
  /\ Advance(c, "done", <<Start(original[Run(c)], Top(c).outer)>>)
  /\ owed' = [owed EXCEPT ![c] = IF Top(c).outer THEN @ \ {original[Run(c)]} ELSE @]
  /\ UNCHANGED <<vars, hit, emitted>>

\* `forward!()`. A call that is cut short owes nothing any more.
Forward(c) ==
  LET next == Original(Run(c))
  IN  /\ Inside(c, "body")
      /\ Run(c) \in Forwards
      /\ Advance(c, "done", <<Start(next, Top(c).outer)>>)
      /\ owed' = [owed EXCEPT ![c] =
                    IF ~Top(c).outer THEN @
                    ELSE IF next = Fallback THEN {} ELSE @ \ {next}]
      /\ UNCHANGED <<vars, hit, emitted>>

\* A body that does not forward returns its own value.
Answer(c) == /\ Inside(c, "body")
             /\ Run(c) \notin Forwards
             /\ Advance(c, "done", <<>>)
             /\ owed' = [owed EXCEPT ![c] = IF Top(c).outer THEN {} ELSE @]
             /\ UNCHANGED <<vars, hit, emitted>>

Return(c) == /\ stack[c] # <<>>
             /\ Run(c) \in Hook => Top(c).at = "done"
             /\ stack' = [stack EXCEPT ![c] = SubSeq(@, 1, Len(@) - 1)]
             /\ UNCHANGED <<vars, hit, emitted, owed>>

CallStep(c) == \/ PassOff(c) \/ PassFirst(c) \/ PassEvery(c)
               \/ Emit(c) \/ Forward(c) \/ Answer(c) \/ Return(c)

DispatchNext == \/ Next /\ UNCHANGED calls
                \/ \E c \in Caller, t \in Target : Enter(c, t)
                \/ \E c \in Caller : CallStep(c)

DispatchSpec == DispatchInit /\ [][DispatchNext]_<<vars, calls>>

\* A thread that is inside a call runs on; no installer has to.
FairDispatchSpec ==
  DispatchSpec /\ \A c \in Caller : WF_<<vars, calls>>(CallStep(c))

------------------------------------------------------------------------------
(* Properties.                                                               *)

\* lib.rs 312-315: a FirstHit hook emits once per process, by the thread that
\* closed its gate, whoever else is in the hook or in its observer.
FirstHitExactlyOnce ==
  \A h \in Hook : ModeOf[h] = "FirstHit" =>
    emitted[h] + Cardinality({c \in Caller :
                   \E i \in DOMAIN stack[c] :
                     stack[c][i].run = h /\ stack[c][i].at = "emit"})
      = IF h \in hit THEN 1 ELSE 0

\* Forwards and re-entrant observers use bounded stack: an observer that calls
\* the target it observes does not recurse, because the gate is closed first.
StackBounded == \A c \in Caller : Len(stack[c]) <= Depth

\* A call in which every body forwards reaches the genuine implementation and
\* every hook of its target that was installed when the call began.
OwedPaid == \A c \in Caller : stack[c] = <<>> => owed[c] = {}

\* `forward!()` runs the fallback only while the thread that is installing
\* the hook is between the replacement and the OnceLock.
FallbackOnlyInWindow ==
  [][\A c \in Caller :
       Len(stack'[c]) > Len(stack[c]) /\ stack'[c][Len(stack'[c])].run = Fallback
         => \E th \in Thread : pc[th] = "publish" /\ Current(th) = Run(c)]_<<vars, calls>>

\* Every call of a target returns, at whatever point an installer stands.
CallsReturn == \A c \in Caller : stack[c] # <<>> ~> stack[c] = <<>>
=============================================================================
