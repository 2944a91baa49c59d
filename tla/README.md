# retarget in TLA+

`retarget` puts replacement functions in front of functions, COM methods and
Objective-C methods of the running process. A macro turns each hook into a
function, two `OnceLock`s and an installer; `install_registered_hooks` runs the
installers; a platform engine (the Objective-C runtime, Dobby, Detours, a vtable
write) does the replacing; `forward!()` in a hook body calls what was displaced.
These modules model that machinery: who installs what in which order, what is
live between two steps, what a failure leaves behind, and where a call of a
hooked target ends up. Paths below are relative to the repository, so that
`src/lib.rs` is written `src/src/lib.rs` in PROJECT.json.

## The system

| Part | State | Operations | Talks to |
|---|---|---|---|
| Registry and loop, `src/lib.rs` | `HOOKS`, a slice filled by the linker | `install_registered_hooks`, `finish_install` | calls each installer in slice order, stops at the first error |
| Installers of functions and Objective-C methods, `macros/src/expand.rs` | per hook: the `OnceLock` of the original | guard, resolve, replace, publish | resolution, engine |
| Installers of COM methods, `macros/src/expand.rs` | the same | the same, with three ways to resolve | COM vtables, symbols of images, engine |
| Hook bodies, `macros/src/support.rs`, `observe.rs`, `callable.rs` | per hook: the first-hit `OnceLock` | observation gate, `forward!()` | observer, original, fallback |
| Function targets, `src/function.rs`, `src/imp/function` | the loader's list of images, and its reference counts | `into_function`, `into_module`, `Module::resolve`, `Symbol::resolve_in_modules`, owner of an address, name of a handle, auto-prime | `dlopen`, `dlsym`, `dladdr`, dyld's list; `GetModuleHandleW`, `GetProcAddress`, `DetourEnumerateModules` |
| Objective-C targets, `src/objc.rs`, `src/imp/objc` | the runtime's classes and method lists | `into_objc_class`, `into_objc_selector`, `resolve_method`, `localize_inherited_method`, `replace_method` | Objective-C runtime |
| COM targets, `src/com.rs`, `src/imp/com` | none of its own: the vtables of live objects | `ComMethodId::resolve_on`, `ComInstance::from_out_ptr` | interface pointers, the owner of an address |
| Dobby, `vendor/dobby` | `gInterceptor`, the patched code | `DobbyHook` under `gDobbyMutex` | code pages |
| Detours, `vendor/detours`, and the shim in `build.rs` | `s_nPendingThreadId`, pending operations | begin, update, attach, commit, abort | code pages, threads |
| Screenshot agent, `examples/screenshot_agent` | `INSTALL_STATUS`, `LOG_PATH` | `hook_inject_entry`, `install_hooks`, the hooks' log lines | the loop, a log file |
| Hook macros, `macros/src/args.rs`, `lib.rs`, `expand.rs`, `observe.rs`, `callable.rs`, `support.rs` | the item, with the attributes that are left and the body as rewritten so far | each attribute: parse its arguments, name the hook and its target, take the observation, rewrite the body, emit | the compiler, which expands one attribute at a time |

What is hard about it:

* Any thread may call `install_registered_hooks`, at any time, again. Each
  installer tests its `OnceLock` first and sets it last, and nothing holds the
  steps in between together.
* The replacement is live before the original is published, so other threads
  enter a hook that does not know yet what it displaced.
* Hooks share targets. Each keeps what it displaced, and the order in which
  failures, late images and retries install them is not the slice's.
* Engines fail half-way, and not all of them undo what they did.
* Observers run inside hooks and may call hooked targets themselves.
* An agent is injected by whoever likes to, repeatedly and concurrently.
* Images and COM objects come and go while installers run, and an installer
  looks at them several times. dyld's list is read by index, Windows' handles
  are addresses without a reference, and the scan for a name opens every image.
* Attributes stack. Each is expanded on what the ones before it left, so that
  what a declaration means could depend on the order it is written in.

PROJECT.json lists each of these hazards at the line where it bites.

What makes each part correct: the loop is honest (Ok means installed), resumable
(a retry finishes what a failure interrupted) and applies a hook at most once;
chains of hooks over one target lose nobody and never loop; `forward!()` reaches
the original and every call returns; a first hit is reported once; an absent
optional target is no error; a COM hook lands in an image its declaration names
whenever one of them has the symbol; a lookup keeps to its scope, calls absent
only what is absent and keeps no image that it was not about; an Objective-C hook stays
on its class; a declaration is accepted exactly when it can be read and generates
what it says, whatever the order; an agent's injections agree and end.

## Modules

| Module | Models |
|---|---|
| `HookOnce` | the abstract promise: each hook goes in front of its target in one step, once |
| `Install` | the loop, the generated installers, resolution by outcome, and the three engines; properties and the refinement of `HookOnce` |
| `Dispatch` | calls of hooked targets while `Install` runs: gate, observer, `forward!()` |
| `ScreenshotAgent` | the agent's entry point around `Install` |
| `ObjcRuntime` | from the name of a class to a replaced method, one runtime call at a time, over a class hierarchy |
| `ComInstall` | the installers of COM hooks, over a loader whose images, objects and pointers come and go |
| `Loader` | lookups of functions, images, vtable slots and addresses, one loader call at a time, on macOS and on Windows |
| `HookArgs` | the arguments of every attribute: how entries become slots, and what a list of entries says |
| `Expansion` | the expansion of a function or an impl block, one attribute or method at a time; what a declaration means |
| `MCInstall`, `MCDispatch`, `MCAgent`, `MCObjc`, `MCCom`, `MCLoader`, `MCExpansion` | the instances for TLC |
| `Install_proofs`, `InstallChain_proofs`, `Dispatch_proofs`, `ScreenshotAgent_proofs`, `ObjcRuntime_proofs`, `ComInstall_proofs`, `Loader_proofs`, `Expansion_proofs` | the theorems |

`Dispatch` and `ScreenshotAgent` extend `Install` and share its variables: a step
of either is a step of `Install` that leaves their own state alone, or a step of
theirs that leaves `Install` alone, or (`BeginInstall`) both at once.
`ObjcRuntime`, `ComInstall`, `Loader` and `Expansion` stand by themselves. The
first opens up what is one `Resolve` and one `SwapMethod` in `Install`. The
second opens up the resolution that `Install` reduces to its outcome, for the one
kind of hook whose resolution has several stages, and reduces the engine to an
outcome in turn. The third opens up a single resolution, which is one step of
either: `Install` and `ComInstall` take its outcome. The fourth is what happens
before there is a program to run.

### Install

A hook is its place in `HOOKS`; 0 is the genuine implementation of a target and
-1 an empty `OnceLock`. Constants say which target a hook is for, which engine
the target's platform has, which image exports it and which hooks are optional
or name an image. `original[h]` is the `OnceLock`, `entry[t]` what a call of `t`
runs, `registered` the addresses in `gInterceptor`, `transaction` the owner of
Detours' pending transaction, and `pc`, `idx`, `held`, `result` the locals of
each caller. `below` is history: what each hook displaced last.

One action is one access to shared state. `Guard` is the test of the `OnceLock`,
`Resolve` the lookup with `finish_install` behind it, `SwapMethod`,
`HookInline`, `RefuseInline`, `FailPatch`, `FailRelocate`, `BeginDetour`,
`RefuseDetour`, `FailBegin`, `CommitDetour` and `AbortDetour` the outcomes of
`replace_with`, `Publish` the `set`. `HookOk` and `HookErr` are the two ways out
of an installer, into the loop and out of it. Dobby's operation is one step
because `gDobbyMutex` is held throughout; Detours' is two because a second caller
is refused while the first is in its transaction. Failures of the engines are
chosen freely among the members of `Faults`.

### Dispatch

A thread is a stack of the implementations it is in. `PassOff`, `PassFirst` and
`PassEvery` are the gate's three arms, `Emit` the call of the observer, which may
call a target, `Forward` the read of the `OnceLock` with its fallback, `Answer` a
body that does not forward. `owed` is history: the implementations a call that
has begun must still reach if every body forwards.

### ScreenshotAgent

`status` is `INSTALL_STATUS`, with "running" for a `get_or_init` whose closure
has not returned. `Inject` is the entry point up to `install_hooks`;
`BeginInstall`, `InstallStep` and `EndInstall` the closure; `ReuseStatus` every
other caller, which blocks while the cell is "running"; `Report` the log line.
`Capture` is a hooked call of the victim, which also writes the log and may be the
first to settle its path. The shipped agent has one hook per platform; the
instance gives it three, since nothing in the agent depends on there being one.

### ObjcRuntime

One selector; `Above` is the hierarchy of class objects and `method[c]` the
implementation in `c`'s own list, the one it came with going by the name of the
class. `Named` are the classes proper, `MetaOf` their metaclasses: a hook of kind
"Class" is for the metaclass of its class, and the root's metaclass inherits from
the root class, so that a class method may be found among instance methods.
Each hook is installed once, by a thread of its own: `FindClass` and
`TakeSelector` (the conversions of names), `Lookup`, `Check`
(`has_direct_method`), `Copy` and `Add` (`localize_inherited_method`), `Again`,
`Swap`. A name with a NUL in it ends the installation for good; a class or a
method that is not there is absence, and `Retry` starts over. `Finds` is the
runtime's lookup, stated as the nearest ancestor that has the method. `Register`
and `Define` are the program, loading classes and adding methods. The test for a
null type encoding is left out: the runtime stores an empty encoding for a method
that is added without one.

### ComInstall

One thread runs the loop; the races of several are `Install`'s subject. `Call`,
`Guard`, `OpenDone` and `Publish` are the loop and the `OnceLock`. `Open` is one
`into_module(..).expect(..)`: an image that is mapped is used as it is, one that
is not is loaded and kept if the crate is built with auto-prime, and otherwise,
or if loading it fails, the thread panics. The panic unwinds through
`install_registered_hooks`; the program may catch it and call again.
`ResolvePreferred` and `ResolveSymbol` are the hook's preferred route, `Fallback`
the second lookup of the symbol with `finish_install` behind it, `Replace` and
`FailReplace` the engine.

`mapped` and `primed` are the loader: the images of the process and those of
them that hold a reference the crate took. `known` says which hooks' expressions
and instances are non-null. `Load`, `Unload`, `Learn` and `Forget` are the
program. A live object keeps its server mapped, a bare pointer does not. An
expression that yields a name (`Named`) and fails to resolve is absence; one that
yields a pointer into an image that is gone is an error. A handle of an image
that has been unmapped finds nothing, since `GetProcAddress` rejects it; that
another image is mapped at the same address is `Loader`'s subject. Patches disappear
with their image while the `OnceLock` stays set: such a hook is not installed
again by this code, and no property says it is. `late` is history: the images
loaded since the preferred route was asked; and so is `lent`: those that the
program, not the crate, brought in last.

### Loader

There is one symbol, and one thread that looks something up at a time. `request`
is what it converts: a symbol, a symbol in an image, a symbol in a list of images
(as `com_install_body` asks for it), an address, a slot of a COM instance, or a
module handle. The text of a symbol may hold a NUL, an address may be null or
belong to nothing. `build` is the platform, the auto-prime feature and the images
that export the symbol.

`base[i]` is where image `i` is mapped, `order` dyld's list, `held` the images
the program holds and `pinned` those the crate does. A base is free again when
its image is unmapped, and may become another image's. On macOS a handle is an
image and `dlopen` takes a reference (a handle that is passed in may also have been
opened without `RTLD_FIRST` and is then `None`, which no handle of the crate's is); on Windows it is a base, and
`GetModuleHandleW` takes none. An action is one call of the loader: `OpenLoaded`,
`Prime`; `CountImages`, `NameAt`, `Probe` and `Close` for the scan that recovers
a name from a handle; `Find`, `FindGlobal`; `Owner`, `Retain`, `OwnerName`;
`Walk`, `Export`, `WalkName` for the search of a Windows process. `Load` and
`Release` are the program, between any two of them.

`Fail` sorts errors into absence, which skips an optional hook, and the rest.
`got`, `steady`, `unmapped` and `asked` are history: whose code is at the address
that is returned, which images were there throughout, whether one has gone, and
the images that lookups were about.

Lookups run no code at the addresses they handle, so an address or a handle whose
image has gone is one the loader knows nothing of. The labels that addresses get in
messages are left out.

### HookArgs and Expansion

An expression is what the parsers distinguish: a string, an identifier, a path
(by its last segment), a tuple, an array, or something else. `HookArgs` has the
step of each parser, which takes one entry (`TakeHookArg`, `TakeNestedArg` over the
table of an attribute's slots, `TakeObserveArg`). `Parse` goes through a list with
the steps of a `Grammar`, as a recursive function, and stops at the first refusal.
Beside it `Readable` and `Says` read the same list as a set of statements: which
slot each entry is for, whether two are for the same, and what is in the end said
of each slot.

`Expansion` starts with an item as it is written (`Declaration`: lists are lists,
there is at most one attribute on a block, one function without one, nobody writes
the macros' own marker by hand, and no expression is a part of itself). `attrs[i]`
are the attributes of function `i` that are left, each at the position where it was
written, `body[i]` the layers that expansion has put around its statements, `hooks`
and `observers` what has been generated. On a function, the compiler's turn is with
the first attribute that is one of the macros: `ExpandObserve` replaces itself by a
marker (a doc comment, `observe.rs`), `ExpandC`, `ExpandInstance`, `ExpandClass`,
`ExpandCom` generate a hook, take the observation and rewrite the body,
`ExpandObserver` defines an observer. The marker keeps the position of its
`observe`, though the doc comment really comes first: no expansion looks at where it
is. An impl block is opened once (`OpenImpl`) and its methods are gone through in
order (`ExpandComMethod`, `ExpandObjcMethod`, `SkipMethod`). `Compile` is the
compiler on what is emitted: it refuses two generated statics of one name, an
observer that is not an ordinary function, and a hook attribute left in an impl
block. The order that actions have in a behaviour is the compiler's, so an item has
one behaviour; what varies is the item. What a declaration means is stated of the
item alone: `Declaring`, the attributes that declare hooks, `MadeAt`, what each
makes, `HooksOf` a function, and `Acceptable` for the whole.

## Runs

| Run | Instance | Shows |
|---|---|---|
| `install_serial` | 1 caller; 4 hooks, two on each of two targets in two images; hooks 1 and 3 optional, hook 1 scoped; Detours with failing begins and attaches; no auto-prime | the type invariant, `OkMeansInstalled`, `ChainComplete`, and `RetryInstalls` under fairness |
| `install_mac` | 1 caller; two hooks on a function over Dobby, the second one scoped, and two on an Objective-C method, both in images that may come late; all of Dobby's faults; auto-prime | `DamageStaysLocal`, and `RetryInstalls` under fairness |
| `install_race` | 3 callers; 2 hooks; Dobby; the second hook optional and primed | `NoOrphanReplacement`, `ForwardAcyclic`, and refinement of `HookOnce` |
| `dispatch_calls` | 1 installer, 2 callers; hooks 1 and 3 on `f`, 2 on `g`; 1 reports its first hit to an observer that calls `f`, 3 every hit to one that calls `g` | `FirstHitExactlyOnce`, `StackBounded`, `OwedPaid`, `FallbackOnlyInWindow`, and `CallsReturn` under fairness |
| `agent_injection` | 2 threads, with and without a path; 3 hooks over Dobby and Objective-C; all of Dobby's faults | `AgentTypeOK`, `InstallsAlone`, `AnswersAgree`, `AppliedAtMostOnce`, `ErrorsAreGenuine`, `OneLog`, and `InjectionReturns` under fairness |
| `objc_scope` | three classes in a line with their metaclasses; 5 hooks, on instance and class methods of different generations, one with a bad class name and one with a bad selector; classes are registered at any time, the root may get its method late, any other class object may have one at first | `ObjcTypeOK`, `Scoped`, `HookInFront`, `OriginalInLine` |
| `objc_race` | the same classes, two hooks on one | violated: "stays scoped to that class instead of mutating the shared ancestor slot" |
| `applied_twice` | 2 callers, one Objective-C hook | violated: "applies each hook at most once" |
| `optional_absent` | 1 caller, an optional hook of an image that does not exist, auto-prime | violated: "Optional hooks are ignored when their target is absent" |
| `expansion` | 32,944 items: every attribute with all lists of up to 3 entries, arguments that spell out what would be taken without them, stacks of up to 3 attributes on functions with sound and unsound signatures, impl blocks of one method with lists of up to 2 and of two methods with stacks of up to 2, lists that end in a comma | `AcceptsExactly`, `GeneratesWhatIsDeclared`, `EveryArgumentCounts`, `FirstHookOwnsBody` |
| `com_routes` | a server with a method and a factory, another image with a namesake of the factory that the program also unloads; 5 hooks: a symbol that no image in its lists has, a vtable slot with a symbol to fall back on, an optional name, a pointer, and a symbol to be resolved in one image and installed in the other; auto-prime | `ComTypeOK`, `AtMostOneFunction`, `LandsInScope`, `PrimedOutlives`, `SecondLookupIsLate`, and `SettledInstalls` under fairness |
| `loader` | two images, one of which the loader finds on disk, two bases; the symbol in one or in both; macOS and Windows, with and without auto-prime; every request in any sequence | `ScopeHonoured`, `AbsenceIsReal`, `NameRecovered`, `KeepsOnlyAsked`, and `LookupReturns` under fairness |

The bounds. Two hooks on one target are the least that can be stacked, displace
each other or be installed out of order, and two targets in two images the least
for one to be late. Two callers are the least that race; the third of
`install_race` meets a hook while one caller is between replacing and publishing
and another has been refused. `Depth` is 5 because the deepest nesting is a
forward through both hooks of `f` (3) whose second observer is inside the hook of
`g` (2). No counter is unbounded: `emitted` stops at 2, one more than what
it must not pass. Two images are the least of which one can be outside a
hook's lists, and five hooks cover each route, an expression of either kind and lists that
differ.
In `loader`, two images and two bases are the least for one image to take the
other's place, in memory and in dyld's list; a list of two is the least that has
an order. In `expansion`, three entries are the least for a contradiction that is
not a repetition (`function`, `image`, `symbol`) and for a repetition around
another entry; three attributes are the least for two hooks with an `observe`
before, between and after them. Three classes in a line are the least with a
class between a hook and the method it inherits.
Symmetry is not used where a run checks liveness.

### What the violations mean

`applied_twice` is a race. The guard is read when the installer starts and
written when it ends. Two callers that both read it unset go on to replace: the
Objective-C runtime lets the second swap, and gives it the replacement as the
original (which is lost when the first caller's value is already in the cell,
and would be a forward to itself otherwise). Dobby refuses the second, and that
caller returns an error for a hook that is in place without trying the ones
after it. The agent is not exposed: its `get_or_init` keeps callers apart
(`agent_injection` checks there that hooks are applied once and that errors are
genuine).

`objc_race` is a handle that is looked up before the class's own methods are
listed, and used after: the answer to the second question need not be about the
method the first one found. `objc_scope` shows that this takes two hooks (or two
installations of one hook) on the same class, or a method the program adds to it
in that moment.

`optional_absent` is a classification: priming reports an image that is not
there as `LoadFailed`, and only `NotFound` is absence.

### What the passing runs say in passing

Some of what the code does is weaker than a reader might expect, and the
properties say by how much. A call that enters a hook between its replacement and
`Publish` finds the `OnceLock` empty and gets the fallback:
`FallbackOnlyInWindow` bounds this to the steps in which the installing thread
stands between the two. A failed relocation leaves the hook in front of its target
with nothing to forward to; a retry that succeeds installs it on top of itself, so
that its `forward!()` runs itself (`DamageStaysLocal` says that it gets no worse).
The images of a COM hook are opened, with an `expect`,
before there is anything that `finish_install` could classify, so that an
optional hook whose image is not there panics; `AtMostOneFunction` and
`SettledInstalls` hold across the panics, and that the optional hook panics, where
lib.rs:237 would have it ignored, no property forbids. A symbol that macOS finds in an image
that is unmapped before `dladdr` is reported absent even if another image has it
(the last line of `AbsenceIsReal`), and a handle may then go without its own name
(`NameRecovered`). On macOS a handle from a plain `dlopen` is refused even though
nothing has been unmapped, since the scan compares it with handles opened under
`RTLD_FIRST`, which have other values. On Windows a scope holds as long as nothing
is unmapped (`ScopeHonoured`).

Some of what is written in attributes is accepted and has no effect.
`EveryArgumentCounts` lists it: `Ignored` has the arguments of a hook (the image of
an Objective-C hook is one), `Unused` those of an impl block (again the image), and
`Dropped` whole attributes, namely `com`, `instance` and `class` on a method that has
one already, which are taken off without being parsed, and `observe` on what is no
hook. A comma after the last argument is accepted except in an `instance` or `class`
on a method, where the expansion adds another (`Combinable`).

### Fairness

`RetryInstalls` assumes that a thread inside `install_registered_hooks` runs on,
that the program calls again after an error (weak fairness of each thread's
steps) and that the engine does not fail every time it is asked (strong fairness
of the successful outcomes). The second is the retry the documentation invites
("Repeated calls are allowed"); without the third, no retry can succeed. It
excludes nothing else: a failed begin that has taken the transaction is in the
model, and so is a hook that Dobby refuses for good because it has another for the
same function. They are the exceptions the property names. `CallsReturn` assumes that a
thread in a call runs on, and nothing of the installers, so that a call returns
even if the installer stops for good at its worst point. `InjectionReturns`
assumes that a thread inside `hook_inject_entry` runs on. Nobody is assumed to
call a target or to inject. `SettledInstalls` assumes that the thread runs on
and calls again after errors and panics, and that the engine does not fail every
time; of the program it assumes nothing, and speaks only of those that settle,
with every image mapped and every hook's route open. `LookupReturns` assumes that
a thread in a lookup runs on, whatever the program maps and unmaps.

## Proofs

For every number of hooks and all sets of threads, targets, images, classes
and paths, finite or not, that meet the modules' assumptions:

| Theorem | States |
|---|---|
| `TypeCorrect`, `OkTheorem` | `Spec => []TypeOK` and `[]OkMeansInstalled` of `Install` |
| `NoOrphanTheorem` | `Spec => []NoOrphanReplacement`, given `FaultsReported` |
| `AppliedOnceTheorem`, `DamageTheorem` | `Spec /\ []Orderly` implies `AppliedAtMostOnce` and `[]DamageStaysLocal`, with every fault |
| `GenuineErrorsTheorem` | `Spec /\ []Serial => ErrorsAreGenuine`, with every fault |
| `ForwardTheorem`, `ChainTheorem`, `InstallsOnceTheorem` | `Spec /\ []Orderly` implies `[]ForwardAcyclic`, `[]ChainComplete` and the refinement of `HookOnce`, given `FaultsReported` |
| `DobbyNeedsNoOrder`, `OneCallerNeedsNoOrder` | the same three without `[]Orderly`, over Dobby alone, or with one caller |
| `DispatchImplementsInstall` | `DispatchSpec => Spec` |
| `FirstHitTheorem` | `DispatchSpec => []FirstHitExactlyOnce` |
| `FallbackTheorem` | `DispatchSpec => FallbackOnlyInWindow`, given `FaultsReported` |
| `OwedTheorem` | `DispatchSpec /\ []Orderly => []OwedPaid`, given `FaultsReported` |
| `StackTheorem` | `DispatchSpec /\ []Orderly => []StackBounded`, given `FaultsReported`, `ObserversLeave` and room for (N+1)^3 frames |
| `AgentImplementsInstall` | `AgentSpec => Spec` |
| `AgentTypes`, `AgentInstallsAlone`, `AgentAnswersAgree`, `AgentOneLog` | the agent's own safety properties |
| `AgentAppliesOnce` | `AgentSpec => AppliedAtMostOnce /\ ErrorsAreGenuine /\ []DamageStaysLocal`, on every engine, with every fault |
| `AgentInstallsOnce` | `AgentSpec` implies the three chain properties, on every engine, given `FaultsReported` |
| `ObjcTypes` | `Spec => []ObjcTypeOK` of `ObjcRuntime` |
| `ScopedTheorem`, `HookInFrontTheorem`, `OriginalInLineTheorem` | `Spec => []Scoped`, `[]HookInFront`, `[]OriginalInLine`, given `Apart` |
| `ComTypes` | `Spec => []ComTypeOK` of `ComInstall` |
| `AtMostOneTheorem`, `ScopeTheorem`, `PrimedTheorem` | `Spec => []AtMostOneFunction`, `[]LandsInScope`, `[]PrimedOutlives` |
| `SecondLookupTheorem` | `Spec => SecondLookupIsLate` |
| `ScopeTheorem`, `KeepsTheorem`, `AbsenceTheorem`, `NameTheorem` of `Loader_proofs` | `Spec => []ScopeHonoured`, `[]KeepsOnlyAsked`, `[]AbsenceIsReal`, `[]NameRecovered` of `Loader` |
| `ParserExact` | of `HookArgs`, for every grammar and list: `Parse` is ok if and only if the list is `Readable`, and its slots are then what the list `Says` |
| `MarkerFaithful` | the marker that replaces an `observe` parses to what the attribute said |
| `AcceptsTheorem`, `GeneratesTheorem`, `BodyTheorem`, `CountsTheorem` | `Spec => []AcceptsExactly`, `[]GeneratesWhatIsDeclared`, `[]FirstHookOwnsBody`, `[]EveryArgumentCounts` of `Expansion`, for items of any size and any values |
| `InstallEndsTheorem` | in `Install`, each step of a call of `install_registered_hooks` makes smaller a number between 0 and 5N that nobody else changes |
| `ComEndsTheorem` | in `ComInstall`, the same of a pair of numbers, in an order that is well-founded |
| `DispatchEndsTheorem` | in `Dispatch`, the same of what the frames of a stack have left to do, under the hypotheses of `StackTheorem` |
| `LookupEndsTheorem` | in `Loader`, the same of three numbers, when no base is beyond some limit |

`FaultsReported` excludes "relocate", the failure after which Dobby has patched
the target without registering it. `Serial` says that callers do not overlap;
`Orderly`, that they do not or that every target is Dobby's. These provisos are
necessary: `applied_twice` is a behaviour that is not orderly, on Dobby a second
caller is refused for a hook that is in place (so `ErrorsAreGenuine` needs
`Serial`), and a relocation failure makes `NoOrphanReplacement` false in one step.
`ObserversLeave` says that the observers of every hit do not lead back, by way of
one another, to the target they are called for. That is the user's to see to; with
an observer of every hit that calls its own target TLC finds a stack of any depth.

### Installation

`OkMeansInstalled` is not inductive: it says nothing of the
middle of the loop. The strengthening says that a caller at hook `i` has every
required hook below `i` installed (`LoopTurn`: the loop moves past a hook only
if it is installed or optional and absent) and that an `OnceLock` once set stays
set (`PublishedStays`).

For the rest, `StepKinds` sorts every step into a placement (`Placed`), a
publication, a relocation failure (`Relocated`: `entry` moves and nothing else
does), or one that touches neither `entry`, `below` nor `original`, so that each
invariant has four cases. `Claims` is what holds whatever Dobby reports:
`Pending`, that a hook that has displaced something without publishing is some
thread's to publish; `PlacedOnce`, that a thread about to replace is the first
to do so (registration gives this on Dobby, `Orderly` elsewhere); and `Published`,
that an `OnceLock` holds what was displaced. It gives `AppliedAtMostOnce`, and
`DamageStaysLocal` with `Damage`: a target either is whole or has been patched by a
relocation that failed (`Ruined`). `AloneUnclaimed`, that a caller past its guard
has a hook nobody has placed, gives `ErrorsAreGenuine`. `Chain` adds what holds if
Dobby hides no patch: `FreshUnused`, that a hook that has displaced nothing is
nowhere in front of a target and nobody's original; `BelowAcyclic` and `Complete`,
the two chain properties stated of what was displaced instead of what was
published.

`AppliedAtMostOnce` is about hooks that an engine has reported in place: such a hook
keeps what it displaced, and no step brings it in front of its target again. A hook
whose relocation failed is in front without having been reported, and a retry puts
it there once more; given `FaultsReported` that cannot be, and `InstallsOnceTheorem`
has the promise without the qualification.

`DamageStaysLocal` says how far the damage goes. As long as Dobby does not know the
address, no hook of the target is installed (`Registered`), and whoever is in front
has only its fallback. Once it accepts a hook, that one forwards to what it
displaced: to itself, if it is the one whose relocation failed, or to another hook
of the target that has only its fallback. The latter takes two hooks on one
function, of which the first is passed over as absent when the relocation of the
second fails; `install_mac` has two for this reason. Dobby never takes both, which
is why `RetryInstalls` excepts a hook that comes second (`Crowded`), and those after
it in the loop, which its error keeps from being tried.

### Calls

A caller's step moves the innermost frame of one stack, so the invariants of
`Dispatch_proofs` are stated frame by frame. `PastGate` and `FirstHits` say that
only the innermost frame can be about to emit, and that for each hook the gate is
open, or one thread is about to emit, or one has: this is `FirstHitExactlyOnce`.
`RunsPlaced`, that a hook that runs has displaced something, with `Pending` gives
`FallbackOnlyInWindow`. For `OwedPaid`, `Rooted` says that from what is in front of
a target every hook placed there and the genuine implementation can be reached by
going down; `OuterFirst` that the program's call and its forwards are the outer
part of a stack; `OwedBelow` that what a call still owes lies below its innermost
outer frame, and that nothing is owed once that frame has handed over. Reaching
is stated by closed sets (`ReachedIn`), which needs no induction.

For `StackBounded`, `Led` says where each frame went: to what its hook displaced,
or to the target its observer calls. `SpentHits` says that one frame at most
waits for the observer of a first hit of a hook. A position in a stack is told
from all others by three numbers (`Places`): the frames before it that wait for a
first hit's observer, those since the last of them that wait for an observer of
every hit, and those since the last of either, which have forwarded. Within each of
the three no hook occurs twice: by `SpentHits`; because a repetition would lead a set
of targets nowhere but to itself, against `ObserversLeave` (`EveriesOnce`, where
`BelowAcyclic` excludes that forwards alone keep it there); and by
`BelowAcyclic`. So each number is at most `N`, and a stack has no more than
(N+1)^3 frames. The bound is coarse (the instance of `dispatch_calls` needs 5); what
it shows is that there is one, whatever the threads and the installers do.

### Objective-C, COM and the agent

In `ObjcRuntime`, `Apart` says that no two hooks share a class and
that the program adds no method to a hooked class; without it `objc_race` is the
counterexample. `Aimed` says whose slot a handle points into at each step,
`Fresh` that a hook that is not installed is in no list and no copy, `Line` that
lists and copies keep to their class's ancestors. The hierarchy is any relation
that is reflexive, transitive, antisymmetric and linear above each class; since
lookup is stated as the nearest ancestor, no induction over it is needed. For
the agent, `Admitted` (whoever is in the loop is the one inside `get_or_init`)
gives `Serial`, and so `Orderly`, and with them the theorems about the bare loop;
`Logged`, that all lines so far are in the file of `LOG_PATH`, gives `OneLog`. In
`ComInstall`, `Fresh` says that a hook
between its guard and its replacement is in front of nothing, and gives
`AtMostOneFunction`. For `LandsInScope`, `Opened` says that the images opened so
far are still mapped, or are ones the program unloads, and `OutOfScope` that a
symbol hook gets to its second lookup only if no image it names, except those,
has the symbol; `Aimed` carries either from the lookup to the replacement.
`SeenLate` says that whatever is visible when the second lookup of a symbol hook
runs was loaded since the first, and `Held` that an image the crate primed stays
and that any other was brought in by the program.

### Lookups

In `Loader`, `KeepsOnlyAsked` rests on `Kept`: whatever the crate holds is mapped
and was asked for, and the image that the scan has open is mapped. `ScopeHonoured`
says what was found, after the list of modules it was found from has been used
up, so `Scope` follows the list while it is: as long as names are converted, every
image of the list still waits or has its module (`Convert`); as long as modules
are searched, every image of the list that has the symbol still has its module
ahead (`Search`); and only a list none of whose images has it gets to the search
of the process (`Everywhere`). On macOS a module is an image the crate holds and
so cannot be gone; on Windows it is a base, and each of the three is excused once
something has been unmapped. `Apart`, no two images at one address, makes the
image that is found at a base the one that was asked for. `Lasting` collects what
no step of the lookup takes away, so that most actions have one case.

`AbsenceIsReal` and `NameRecovered` are about dyld's list, which is read by index
while images come and go. `Listed` says that the list holds each mapped image once,
`Steady` that an image that was there throughout is mapped, `Routes` which labels a
request of each kind can be at. `Held` says that while the image of a pair stays,
its handle is its own, `Owned` that while no image is unmapped a symbol that dyld
found has an owner, and `Ahead` that the walk over the bases passes no image that
exports the symbol and stays. For the names, `Scan` says that as long as nothing was
unmapped the image that is sought stands at or after the scan's index (images are
added at the end and removing one is what shifts the rest), `NamesStand` that
modules keep the names they were given, and `RefusedRightly` that a handle is
refused only if it stands for nothing that was there throughout. `Foreign` is for the
handles that are not the crate's kind: nothing the scan opens compares equal to one,
so that it runs to its end.

### Declarations

The theorems hold for argument lists and stacks of attributes of any length and
with any values, though the provers have no induction over data. `Counting` takes
the place of it: a predicate of a natural number that fails somewhere has a least
place where it fails, by the well-foundedness of the naturals, which the library
states without a schema. `ParserExact` says what the parser has after `n`
entries in closed form (`After`: the slots that the first `n` entries name, filled
by the last of each) and excludes the least `n` at which it does not; `Stop` is
where a list that cannot be read is refused, after which nothing changes.

For functions, `FnInv` has a part for each thing that expansion leaves behind.
`FnShape`: what is left of the attributes stands where it was written, a marker
where its `observe` did. `FnDone`: the hook attributes that are gone were well
formed, the first of all is among them, and with it every `observe` is gone, of
which there was at most one. `FnHooks`: the hooks generated can be assigned to
positions (`Accounts`), each to another one, so that each is what the attribute at
its position makes; this carries both that all are there and that none is there
twice. `FnObservers` says that the observers are those of the `observer` attributes
that are gone, each with the mode its attribute says, and `FnBody` that the layers at the statements are the first hook's.
The delicate step is the first hook's: `Taken` looks for an `observe` or a marker
among all other attributes, and finds what `Observed` says, whether the `observe`
has been expanded or not, by `MarkerFaithful`; the later hooks find nothing because
the first has taken it.

For impl blocks, `MethodInv` says that each method before `at` is `Passed` (`Expanded`
with the hooks it declares, or `Untouched` because it declares none) and each from
`at` on is untouched. `AcceptsExactly` follows in one direction from what
`Compile` finds (`Compiles`) together with what has been expanded, and in the other
from what made an expansion fail, an attribute at a time.

`EveryArgumentCounts` follows from `AcceptsExactly` and `GeneratesWhatIsDeclared` for
whole attributes (`AttributesKept`): one that is not `Dropped` declares a hook, is the
observation of one (`Leads`), or defines the observer (`Reported`). For the arguments
of a hook, and for those of a block at each of its methods (`BlockKept`), it is about
two expansions, one with an argument and one without.
If they make the same hooks, what stands in the place of the argument is
the same in both, and then the argument spelled out what is taken without it
(`SpellsOut`: `optional = false`, or the name of the function itself), or nothing
reads it (`Ignored`). The one slot that could be lost is the `image` beside a
`symbol`, whose target is the pair of the two and without it the `symbol` alone: that
would have to be a pair with itself as a member, which no expression is. Hence the
last clause of `Declaration`.

The property used to name no defaults, and was checked on items that spell none
out. Proving it for all values meant saying what a default is, and the instance
now has such items.

### Calls end

That something eventually happens takes fairness, which the provers do not
handle. What they do is the part without: a call has no infinite sequence of
steps of its own, whatever others do between any two. Each theorem names a measure, shows
that it stays in a set with a well-founded order, that every step of the call
takes it down and that nobody else's step changes it. With weak fairness of the
call's steps, and a step always being possible, the call returns; this remainder
is what TLC checks (`InjectionReturns`, `CallsReturn`, `LookupReturns`).

* In `Install` a caller has five steps for each hook it has not passed, less those
  it has made for the one at hand (`StepsLeft`). No failure is retried within a call.
* In `ComInstall` the pair is the hooks to come and what the installer at hand has
  left (`InstallerLeft`): the images it has yet to open, then a lookup, a second
  lookup, the engine. Nothing waits for an image, an export or an instance.
* In `Dispatch` the measure is the stack itself, outermost frame first (`Work`): a
  frame that calls another has done part of its own work, so that what comes deeper
  may be anything. `StackTheorem` bounds its length, and so makes the lexicographic
  order well-founded.
* In `Loader` the first number is what is still to be converted and searched, the
  second how many calls come after this one, and the third how far the scan or the
  walk has got. The scan stops at the count it took at the start however long the
  list grows, and the walk of a Windows process goes up through the
  addresses. Without a highest address it could go on for ever behind images that
  are mapped ever higher: `limit` is the end of the address space.
  The measure needs the types of a lookup's locals (`Typed`), which no other
  theorem about `Loader` did.

### Only model-checked

The liveness properties (`RetryInstalls`, `CallsReturn`, `InjectionReturns`,
`SettledInstalls`, `LookupReturns`) are out of the prover's reach, as is whether a
step is possible (ENABLED, and so the absence of deadlocks). Every
safety property that a passing run checks is stated by a theorem, some of them
under the hypotheses above.

## Not modelled, and plan

Kept out for good: the generated tokens themselves, instruction relocation and
page protection below the engines, thread updates of Detours, the wording of
errors and the labels of addresses in them, the demo binaries and the resolver
probes under `tools`, which keep no state the library depends on. What the index
of a vtable slot selects is data that `Loader` reduces to an address.

Known and left open:

* The `OnceLock` of a hook outlives the patch when the program unloads the image
  and loads it again. `ComInstall` has the behaviour, and the documentation
  promises nothing about images that go.
* Another thread that runs code on a page while Dobby has it writable faults.
  This is a property of pages, and the model has one step for the patch.
* A payload whose path ends in `Off`, `FirstHit` or `EveryHit` is read as a mode.

Next would be what `resolve_on` does with the index of a slot, which would make the
COM component whole.
