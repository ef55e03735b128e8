# Specifications of gwkjs

gwkjs is a port of gjs, the JavaScript bindings of GNOME, from SpiderMonkey to
JavaScriptCore. It embeds an interpreter in a process full of reference-counted
GObjects, wraps those objects for JavaScript, calls C from JavaScript and
JavaScript from C through libffi, and ships a small JavaScript library. These
modules specify the parts of it where ordering, nesting, ownership or counting
is easy to get wrong, check them with TLC and prove what can be proved with
TLAPS. The port is unfinished: much of the original is commented out. The
models follow the code that is compiled.

`PROJECT.json` maps every definition to source lines, and lists components,
runs, mutants, hazards and theorems.

## 1. Inventory

| Part | State | Operations | Interacts with | Hard behaviour | Correct when |
|---|---|---|---|---|---|
| Wrappers (`gi/object.cpp`) | qdata links, toggle reference, `keep_alive`, queued operations, `pending_idle_toggles` | make, find, toggle up/down, queue, dispatch, finalize | keep-alive, main loop, GObject on any thread, collector | notifications of several threads out of order; collection between steps | every reference is given back; root and count agree |
| Properties and methods (`gi/object.cpp`) | table of names asked for (`priv->modules`), what JavaScriptCore stores, construction parameters | get, set, resolve, construct | GObject, values | a name is remembered before it is resolved; values live twice | a method is found, a write is read back |
| Keep-alive (`gi/keep-alive.cpp`) | table of children | add, remove, iterate | wrappers, collector | the tracer is compiled out | a child in the table is alive |
| C calls and callbacks (`gi/function.cpp`) | cached argument counts and types; per call, what was converted | cache, convert, call, release; collect, call back, write back | marshalling, trampolines | counts made once, used by two loops; failure half-way | counts agree, everything converted is released, results go where they belong |
| Trampolines (`gi/function.cpp`) | reference counts, completed list | new, ref, unref, callback, destroy notify, deferred release | C calls, C libraries | C calls back, destroys or nests at any time | no use after free, no leak |
| Marshalling (`gi/arg.cpp`, `gi/value.cpp`) | none of its own | convert in, out, release | C calls, wrappers | transfer modes, nested containers, number ranges | each buffer is freed once; a value survives the round trip |
| Wrappers of types and parameters (`gi/gtype.cpp`, `gi/param.cpp`, `gi/enumeration.cpp`) | qdata of types, references on GParamSpecs, members | make, find, finalize, define | collector, classes | weak caches | one wrapper a type |
| Repository (`gi/repo.cpp`, `gi/ns.cpp`), foreign structures (`gi/foreign.cpp`) | names being resolved, namespace objects, classes; registered structures | resolve, require, define class, run override, load module | importer | lazy, re-entrant resolution; overrides that import | everybody gets the object the override is applied to; a class is defined once |
| Importer (`gwkjs/importer.cpp`, `gwkjs/native.cpp`) | names marked (`priv->modules`), properties, search paths, native registry | resolve, import file, directory, native; enumerate | evaluation of module code | circular and failing imports | one evaluation per module, failures leave nothing |
| Context (`gwkjs/context.cpp`) | current context, global object | construct, eval, GC, dispose | all | one current context | |
| Signals (`modules/signals.js`) | connections, ids | connect, disconnect, disconnectAll, emit | all JS code | callbacks re-enter and throw | a disconnected handler never runs, all others do |
| Tweener (`modules/tweener/`) | tween list, engine, times | add, remove, pause, resume, frame | signals, main loop | callbacks change the list being walked | a live tween is not lost or updated twice |
| Main loop (`modules/mainloop.js`) | loops by name | run, quit | GLib | nested runs | quit stops a loop that runs |
| D-Bus (`modules/overrides/Gio.js`, `libgwkjs-private/`) | property cache, exported objects, outstanding calls and changes | call, reply, set property, emit, flush | GDBus, main loop | replies late, missing or failing; handlers that throw | one answer for each call; the cache becomes what the object holds |
| Classes (`modules/lang.js`) | class objects, `__caller__` | construct, inherit, check, wrap, parent() | wrappers | super-calls, interfaces in any order, exceptions | interfaces are implemented, parent() goes up |
| Variants (`modules/overrides/GLib.js`) | none | read a signature, pack, unpack | marshalling | nested types | what is packed is unpacked |
| Utilities (`coverage.js`, `jsUnit.js`, cairo, system, console, `util/`) | counters, forwards | | | little | |

Calls go downwards in this table's order of layers: JavaScript code uses
modules of JavaScript (signals, tweener, lang, Gio), which the importer
evaluates; both call C through namespaces of the repository, whose classes are
defined when they are first read; a call converts its arguments (marshalling),
passes callbacks as trampolines, and hands out wrappers; GObject calls back
about references, GDBus and GLib about sources and messages, and the collector
at any time.

## 2. Modules

```
RootMirror            what the toggle machinery promises (abstract)
  ^ implemented by                                         (Objects_proofs)
ToggleRef             gi/object.cpp, gi/keep-alive.cpp     MCToggleRef, ToggleRef_proofs
Properties            gi/object.cpp, hooks                 MCProperties, Objects_proofs
Trampoline            gi/function.cpp, ownership        \
FunctionInvoke        gi/function.cpp, argument counts   } MCTrampoline, MCFunctionInvoke,
CallbackInvoke        gi/function.cpp, closures         /  Invoke_proofs
Numbers, Values       gwkjs/jsapi-util.cpp, gi/value.cpp
Marshal               gi/arg.cpp, gi/function.cpp       \  MCMarshal,
Variants              modules/overrides/GLib.js         /  Objects_proofs
Classes               gi/repo.cpp, gi/ns.cpp, gi/object.cpp,
                      gwkjs/jsapi-dynamic-class.cpp     \
Wrappers              gi/gtype.cpp, gi/param.cpp,        } MCClasses, Repository_proofs
                      gi/enumeration.cpp
Imports               gwkjs/importer.cpp, gwkjs/native.cpp,
                      gi/repo.cpp, gi/foreign.cpp          MCImports, Imports_proofs
Signals               modules/signals.js                \
Lang                  modules/lang.js                    } Modules_proofs, MCLang
Tweener               modules/tweener/                     MCTweener, Tweener_proofs
MainLoop              modules/mainloop.js               \
DBus                  modules/overrides/Gio.js,          } MCDBus, DBus_proofs
                      libgwkjs-private/
```

The MC modules give constants their values and define symmetry sets and
constraints. MCFunctionInvoke, MCMarshal and MCClasses each put two models that
share no state into one run: a behaviour is one of either. Variants extends
Marshal, Marshal and Properties extend Values, Values extends Numbers, and DBus
extends MainLoop: there the parts are composed.

An operator whose name begins with `mutant_` is not part of a specification: it
is a plausible mistake in the definition after it, and `PROJECT.json` says which
property that mistake breaks.

In this port a failing C call throws nothing: `gwkjs_throw` only warns,
`gwkjs_throw_g_error` is a stub and `function_call` sets no exception
(`jsapi-util-error.cpp:44`, 178). C code follows that in every module, and so
does the client in DBus: `call_finish` of a failed call gives `undefined`, at
which `asyncCallback` ends before it calls anybody, and `init_finish` looks like
a success. Two things are taken from the contract the JavaScript was written for
and not from the port: that building a variant that cannot be packed throws
(Variants, and the service in DBus), and that boxed types have methods and error
domains classes, without which no call could be packed or told from a
GLib.Error at all.

### ToggleRef and RootMirror

`refs`, `held` and `toggleRef` are GObject's side: the count, who owns it, and
whether the wrapper's toggle reference is there. `wrapper`, `jsHeld` are
JavaScript's. `keepAlive` is `priv->keep_alive != NULL`, `children` the table of
the keep-alive object, `qdata` the two source pointers on each object, `queue`
the idle sources of the main context in attach order, `pending` the counter.
`stack[t]` is what thread `t` has still to do inside calls it began.

* g_object_ref and g_object_unref change the count first and notify after
  that. The notification is a step of its own, and so is the queueing of the
  source after the reference that TOGGLE_UP takes, so that any thread may run in
  between. `pending_idle_toggles`, the qdata and the attachment are changed in
  one step: no other step looks at only one of them.
* `gwkjs_eval_thread` is declared and never assigned, so `is_main_thread` in
  `wrapped_gobj_toggle_notify` is always FALSE: the synchronous branches and
  their `g_error`s are dead code and are not in the model. `destroying` is never
  set, and `gwkjs_object_prepare_shutdown` and `release_native_object` are never
  called, so shutdown is not in the model.
* The keep-alive's tracer is compiled out, and the finalizer is a stub. So
  `object_instance_finalize` is enabled for any wrapper JavaScript cannot reach,
  and leaves everything in place. What `JSObjectGetPrivate` does to a collected
  wrapper is undefined: the model lets it return the old pointer or crash.
  A dead wrapper that JavaScript gets from the qdata again is not followed.
* The floating reference case of the constructor ends with the same counts as
  the plain one, so `kept` (0 or 1 reference left with the library) is the only
  choice. Objects that were wrapped never lose their toggle reference and
  their address is not reused.

`RootMirror` has no counts, threads or main loop: a root is a delayed copy of
"shared", and changes travel as news delivered in order. `ImplementsMirror`
states that ToggleRef with one thread refines it, fairness included. Its mapping
takes the news of an object to be what is queued for it, followed by the
notification on top of the main thread's stack, which has yet to queue.
With two threads it does not hold (section 5).

Fairness: weak on calls that have begun (code goes on) and on the freeing of an
operation; strong on the dispatch of the idle source, which has
`G_PRIORITY_HIGH` and so runs before anything else the loop would dispatch, but
is disabled whenever the main thread is inside a call. None on libraries,
JavaScript or the collector: they may never do anything.

### Properties

One wrapper of a class of JavaScript over classes of C. Holders are the wrapper
(0) and the prototypes of its classes, nearest first. `modules` is the table
each holder remembers names in, `stored` what JavaScriptCore keeps on it, `gobj`
the GObject's properties. `object_instance_get_prop` is a whole read: it asks the
holders in turn up to the first that answers, remembers names and stores the
methods it finds. `object_instance_set_prop` answers FALSE, so the value is
stored as well. `phase` is the life of the wrapper: JavaScript runs in `_init`
before it chains up (there is no GObject yet), again while the construction
parameters are collected one by one, and after it. A name resolves to a method
of a described class, of its interfaces or of all interfaces of the type, or to
a virtual function of an ancestor. `written` and `patched` are there for the
properties only: what JavaScript wrote last, and which names it assigned.

### Trampoline

`calls` is the one stack on which C functions called from JavaScript and
closures called from C alternate. A closure that has made its last unref is
`returning`: still on the stack, not in its own code. `heldByC` are the closures
C may call or destroy; a well-behaved C library is assumed: it calls an async
closure once, a call-scoped one only during its call, and the destroy
notification once. Async callbacks are called from the main loop or from inside
any C function.

### FunctionInvoke and CallbackInvoke

One call of one function. The signature is chosen in the initial state; caching,
converting and releasing are loops, one step an argument. `allocated` is the set
of positions for which the call owns memory. A conversion succeeds or fails.
The instance of a method is not a position (Marshal has it). Lengths and counts
stay below 2^8 because the arguments of a signature do; the `guint8` width is not
modelled. The path without `js_rval` (constructors from C) is not modelled.

CallbackInvoke is the way back: the trampoline's pass over the arguments, the
loop that collects what JavaScript is passed, and the loops that write what it
returned into the return value and the out arguments. `written[p]` tells which
element of the result position `p` got, or the neutral value, or nothing. A
closure may be called again.

`Signatures` and `Callables` are constants; the run uses every signature of up to
three arguments whose links make sense, whose user data comes after its callback
and whose arrays have lengths of their own.

### Numbers, Values, Marshal

Numbers are counted in halves, so that `n` odd is a fraction, and widths are
scaled (8 bits stand for 3, 16 for 4, 32 for 5, 64 for 7): every boundary and
both its neighbours are tried, and wrapping is modelled. A cast of a double that
does not fit gives any value, and a float that overflows is infinite. Values has
GValues of every type `value.cpp` has a case for, and the conversions of wrappers
of unions. Of a string only its encoding is told apart: some bytes are not UTF-8,
and some names no file name.

Marshal follows one argument, return value, instance, callback parameter or
callback result from conversion to release. Whatever a conversion allocates or
references is a block, named by the path to it in the value (`<<2, 1>>` is the
first element of the second element) and by the side that made it. `owned` are
the blocks that are there, `stray` those that were released though nobody owned
them. `Belongings` is what GObject introspection's transfer annotations promise;
`Gone` and the callee follow it. Release operators follow
`gwkjs_g_arg_release_internal` case by case. Where the code calls itself for the
elements of a container, the model calls `ElementToC`, `ElementFromC`,
`ElementRelease`, `ElementBelongings` and `ElementCarries`, constant operators that
the run ties to `ToC`, `FromC` and so on: a RECURSIVE operator cannot be reasoned
about with the prover, one level of it can.

Left out: arrays of gunichar, containers of callbacks; the contents of strings
(a file name may not be representable, which is a choice); enumerations with a
storage type other than 32 bits.

### Variants

A signature is a sequence of characters, read by `_read_single_type` and packed
by `_pack_variant` as in the code, recursively, with the leaves converted by
Marshal; `deep_unpack` and `unpack` go back. The run tries all types of depth
two, and their signatures cut short or prolonged.

### Classes and Wrappers

Classes: `stack` is what is under way: lookups of types, reads from namespace
objects, definitions and overrides, which look up in turn. `nss` are the
namespace objects ever made, with their table of names (`modules`) and classes;
`current` the one the repository has; `protos` the prototypes made. A lookup is
the whole chain of `gwkjs_object_from_g_object`,
`gwkjs_lookup_object_prototype`, `ns_get_property`, `gwkjs_define_object_class`
and back. Types that no namespace describes live in the private namespace.

Wrappers: a JavaScript object is "live", then "dead" when the collector found it
out of reach, then "finalized"; the program runs in between. `qdata` is what a
GType remembers, `gtype` the `$gtype` of the object its namespace has, `refs` the
count of a GParamSpec. `owned` and `revived` are there for the properties.

### Imports

`importer_get_property` and `repo_get_property` are the `getProperty` hooks of
the two classes: JavaScriptCore asks them before it looks at what is stored on
the object. An importer is named by the names that lead to it (`Root` is
`imports`, `<<"a">>` is `imports.a`). `modules` is `priv->modules` of all
importers, `props` what is stored under a name, `meta` the meta properties of
it, `resolving` is `priv->modules` of the repository object, `namespaces` what
is stored on it, `registered` and `loaded` the tables of foreign structures.
`stack` are the calls under way: imports, enumerations, resolutions of
namespaces, lookups of foreign structures, and the JavaScript they run.

* `gwkjs_context_constructed` is the initial state: it registers the native
  modules, then makes the root importer with its search path.
* `do_import` is a loop over the search path, an element a step, because an
  `__init__.js` there runs user code: `at` is the index and `looked` whether the
  `__init__.js` of this element was run. The path is read when the loop begins:
  a script that replaces `searchPath` meanwhile does not change it. Only the
  root's `searchPath` is replaced. The code reads the elements one by one
  (453), so a script that changes the array itself while a search is under way
  changes what is found; only an `__init__.js` that then throws can do that, and
  it is left out.
* The value a hook returns matters to one caller only, `lookup_override_function`,
  so `Returned` passes it to a `resolve_namespace_object` frame and drops it
  otherwise.
* `gwkjs_throw` only logs, and the hooks report no exception: a failing import
  gives `undefined` and the importing code goes on. An exception in the module's
  own code is not reported either: the module object is returned once, is not
  stored, and stays marked.
* `load_module_init` that succeeds aborts the process:
  `gwkjs_object_set_property` reads back what it stored, the hook answers
  `undefined` for `__init__`, and the `g_assert` at `jsapi-util.cpp:113` fails.
  One that throws goes on. Both are in `InitEnds`; an aborted process is the
  stack `<<Aborted>>`.
* The first access of `imports.gi` makes the repository, and `repo_new` looks up
  `GLib` on it before it is stored.
* A foreign structure is looked up, its module is imported by a script, and the
  table is asked again; that import may look the structure up too.
* A typelib that does not load changes nothing and is left out. Versions,
  deletion, the properties' attributes, and path elements that are no
  directories are left out.

Fairness: weak on the C code and on the end of each piece of JavaScript that an
import runs. `MaxUses` bounds what a piece of JavaScript does, and up to the
nesting `MaxDepth` it does anything. Deeper it still imports in circles: it asks
for whatever is being imported, and converts foreign structures (`Circles`).
Nothing in the model stops that but the marks; nested as deep as `MaxStack`
nothing goes on, neither what was asked for nor the end of the code, so that
`EveryImportEnds` fails if a circle is not cut - as it does if a name is marked
after its import (the mutant). An `__init__.js` that enumerates the importer it is
in does recurse without end (section 5) and is left out of the circles. Circles
of namespaces end at the marks of the repository, which `NamespaceVisible` is
about; those of classes are in `EveryLookupEnds`. `MaxNamespaces` bounds the
namespace objects, of which the code makes a new one at every access.

### Signals

One emitter. `emissions` is the stack of running `emit` calls, each with its
snapshot, index and running callback. User code runs at top level and in the
innermost callback, where it may do anything, also throw. `since` and `called`
of an emission are there for the properties only.

### Tweener

`tweens` are the tween objects made, `_tweenList` their numbers with `Removed`
for the `null` slots, `walk` the index of the loop in `_updateTweens`, `stack` the
callbacks that run, each with the index its caller uses after the return.

* Every place where Tweener calls the user ends a step: onStart, onUpdate and
  onComplete in `_updateTweenByIndex`, onOverwrite in the loop of
  `_addTweenOrCaller` that takes the new tween's properties off others. In a
  callback the user may add, pause, resume and remove, of all objects, one, or
  some properties, may return or throw.
* `logError` does not exist (section 5), so an exception leaves the engine. In
  a frame it reaches the ticker's timeout function, and GLib removes a source
  whose function did not return TRUE: `ticker` is then "dead".
* Of an object nothing refers to any more only the fate is kept (`Become`); this
  makes states equal that no code can tell apart.
* Time is in frames and stops at `MaxTime`, by which all tweens must end: an end
  time is compared with the clock and nothing else, so a clock that stands still
  there loses nothing. Values, transitions and special properties are data.
* Callbacks do not run nested main loops. If the callback of a tween with no
  time at all did, the index kept in `_addTweenOrCaller` could be stale
  (`tweener.js:588`).

Fairness: weak on the frame (the main loop dispatches the ticker's source), on
the loop of `_updateTweens` and on the return of callbacks.

### MainLoop and DBus

What a thread does is a `stack` of frames: loops that iterate, callbacks they
dispatched, and blocking calls. `mainLoops` is the table of names, `running[l]`
whether loop `l` goes on. In DBus, a client makes a proxy, calls a method, sets
the property, waits in a named loop or uses the Sync form; `toServer` and
`toClient` are the bus, which keeps the order of messages; a call that gets no
answer times out, at any moment that a loop iterates, and a late answer is
dropped. The service may answer a method at once, keep it and answer later
(Async), fail in each way `_handleMethodCall` has, or leave the call without an
answer in the ways of section 5. A call that failed has nobody called back, so a loop that
only such a callback would have quit goes on for ever: `Forsaken` is that loop, and
`EveryWaitEnds` excepts it and no other. `outstanding`, `idle_id` and `idle_source` are
the wrapper's queue of change signals. `told`, `answers` and `refused` of a call
are there for the properties.

Fairness: weak on loops, callbacks, receiving, timeouts and the idle source; none
on the program nor on an Async method.

### Lang

`classes` are the classes defined, each with what its prototype has under a name
(a wrapped method or a member of an interface), the interfaces it adds and the
ones it was defined with. One object; `stack` are the calls on it, `caller` its
`__caller__`. Methods call others and parent(), return, throw, and catch what
others throw. `Line` are the classes a class inherits from, itself first; like
JavaScript's prototype chain it is a recursion over the order of definitions.

## 3. Runs

| Run | Instance | Shows |
|---|---|---|
| ToggleRef_one | 2 objects, 1 thread | at most two queued, strong iff shared, refinement of RootMirror and its liveness |
| ToggleRef_threads | 1 object, 3 threads, queue of 4 | accounting under every interleaving with collection |
| Signals_reentrant | 2 names, 3 connections, 2 nested emissions | flag against array, only connected called, complete when nobody throws |
| Trampoline_nesting | 3 trampolines, 5 frames | no use after free, no lost reference |
| FunctionInvoke_regular | all signatures and all callables of 3 arguments | counts, assertions, releases; what a callback is given and what it writes back |
| Marshal_arguments | every type, direction and transfer; containers of 2 elements; variants of depth 2 | nothing released twice or kept, round trips, exact integers |
| Properties_access | 1 class of JavaScript over 2 of C, 2 interfaces, 2 GObject properties | methods are found, writes are read back, construction parameters |
| Classes_nested | 3 types in 2 namespaces and none, overrides that ask back; 4 wrappers of types | classes follow their types and are defined once, lookups end, wrappers are unique |
| Imports_nesting | 2 directories, 5 names, 4 nested pieces of code, 2 namespace objects | marks, one evaluation a file, order of the search path, circles end |
| Tweener_callbacks | 1 object, 2 properties, 3 tweens, callbacks in callbacks | the list and its indices, displaced tweens, clock, every tween ends |
| DBus_calls | 2 names of loops, 2 values, 2 calls, 1 change | one answer a call, quit stops, the cache agrees, changes are announced, every wait ends that somebody is left to end |
| Lang_classes | 2 interfaces of which one requires the other, 3 classes, 3 frames | interfaces are implemented, `__caller__` and parent() |

All of them pass. What the code does against its own comments is in section 5;
a property that has to except such a behaviour names it in an operator of its
own (`ElementsNotOwned`, `Ambiguous`, `VoidOutput` and so on), so that the
exception is as narrow as the defect.

Bounds. Wrapped objects do not interact except through the queue, so two of them
show the interleaving of their sources, and one is enough for the interleaving
of threads. Three threads give every order of a count, a second count and their
two notifications with one thread to spare; the queue bound only cuts runs in
which the main loop does not run for a long time (a constraint, no liveness is
checked there). `MaxHeld` 1 lets every count cross the toggle line in both
directions from each thread. Three connections are the least for which a
handler before, at and after the running one can be disconnected. Five frames
are a call, a callback, a call, a callback and a call. Three arguments hold an
array, its length and one more.

A conversion of `arg.cpp` looks at one argument and no other (lengths are in
FunctionInvoke), so one argument at a time loses nothing. Two elements are the
least for which one converts and the next does not; lists in lists show that
release descends. Scaled widths keep every boundary: each integer type is tried
at both ends of its own range, of every other, and one and a half beyond.

In Properties_access a name is, in turn, a method of the class, of an interface,
of both, a virtual function, a GObject property in either spelling, and nothing.
In Classes_nested the parent of one type is in the other namespace, whose override
asks for the child, and one type is in no namespace; depth 12 is deeper than any
chain of these reaches, so that a lookup that went on for ever would be seen.
Four wrappers let a type have one that is dead, one that is finalized, a new one
and another type's.

The file system of `MCImports` has a name for each branch of `do_import`: a file
in one element and a directory in the other, a directory in both, an unreadable
file before a readable one, a name that an `__init__.js` and the native modules
both define, an override and none. Four nested calls are a module, its override,
and what that imports in a circle; twelve are more than circles begun there can
reach as long as a name that is being imported is marked. The module for foreign structures is one of
these files, over a native module. Three tweens are one that is updated, one
before or after it and one that displaces it; two properties let one be displaced
in part; time 2 tells a tween that ends now from one that ends later, with
the delay of one frame on top. Two calls with a change let a reply overtake
nothing but be overtaken by a timeout, a signal and the program's own write; two
names let a loop run inside another. Three classes are a class with the required
interface, a subclass with the requiring one, and a subclass that lists one again;
three frames are a method, its parent's, and another method called from there.

CHECK_DEADLOCK is off where the system really stops or the program has done all
the bounds allow: after a crash in ToggleRef_threads, after the abort in
Imports_nesting, at the end of the one call of FunctionInvoke_regular and
Marshal_arguments, and when the uses, calls or classes of Properties_access,
Classes_nested, DBus_calls and Lang_classes are used up.

## 4. Proofs

Each theorem holds for all values of the constants that satisfy the module's
named assumption, so for any number of objects, threads, trampolines, arguments,
calls, tweens, classes and any depth. The argument is the same throughout: an
inductive invariant, a lemma for each action, and the property from the
invariant. A module of proofs that is about two components has their invariants
one after the other; they share the lemmas about sequences and cardinalities.

| Module | Theorems | Inductive invariant |
|---|---|---|
| Objects_proofs | `MirrorTruth` (RootMirror) | names the four queues of news that are legal, says what each tells of the root and the fact, and that an object without a wrapper has no state |
| | `ParametersAlwaysUnset` (Properties) | `CountsParams`: one GValue is initialised for each parameter that is kept, and none outside a construction |
| | `WritesAreRead` (Properties) | `WrittenStays`: no method is remembered under the name of a property, and what was written is both stored by JavaScriptCore and, converted, what the GObject has |
| | `MethodsAreFound` (Properties) | `Remembers`: a name that the wrapper remembers without having it is one whose methods are further up, or nobody has; what a prototype stores under a name that JavaScript never assigned is the method its class has, or nothing |
| | `NumbersReachC` (Marshal, Numbers) | `ExactInv`: what waits in `in` is what the conversion or the register of the callback's result made of the input. Casts are remainders: of a number in the range of an integer nothing is lost, for any widths of which each halves those above it |
| | `ReleasedOnce` (Marshal) | `TwiceInv`: before the call exactly what the conversion made is owned, and what goes with the value is part of it; until the release, what was made for the call is still there; what came with C's value is owned until it is released. Under it is what each type promises (`Promised`), by induction on the depth of types: the blocks that `Release` frees are among those that `ToC` made, or those that `Belongings` gives away |
| | `ComesBackUnchanged` (Marshal) | `RoundInv`: what the callee gave back is what a conversion that succeeded made, and nothing failed on the way. Under it is that what `ToC` makes of a value that a type `Carries`, `FromC` turns into that value, or ends the process for an empty table (`CarriesBack`), by induction on the depth again; at the bottom are casts that lose nothing, the widening of enumerations and the guess of a GValue's type |
| ToggleRef_proofs | `TypeCorrect`, `PendingCorrect`, `KeepAliveCorrect`, `QdataNeverDangles` | the conjunction of the four. `pending \in Nat` is not inductive alone: an operation being freed must have been counted |
| | `ReferencesNeverLost` | `Accounts`: references equal owners; a stack holds at most one notification, above the unref its function ends with; what is notified or queued carries its toggle reference; who is about to queue TOGGLE_UP still owns the reference that made the object shared, so the extra reference it takes crosses no line |
| | `TogglesStayDocumented`, `RootMirrorImplemented` (refinement of RootMirror) | `Told`, of each object: what is queued for it and what is under way is one of seven sequences; its last item tells whether the object is shared, or the root does where there is none; the qdata remembers exactly the queued directions. It stands on `ReferencesNeverLost`: that a toggle is due only at the line between one reference and two. `KeptInv`: wrappers JavaScript holds on to are not collected |
| Invoke_proofs | `ArgumentsAlwaysMatch`, `ArgumentsAlwaysReleased` (FunctionInvoke) | `Cached`: after each argument, a skipped one is explained by a link of an argument already seen, and the counts are cardinalities of the positions taken and given so far; `Converting`, `Releasing`: what is allocated is before the first loop, ahead of the second, and never skipped |
| | `CallbacksAlwaysMatch` (CallbackInvoke) | `CInv`: a position is skipped exactly if an array seen so far has it as length; `Collected` and `WrittenResults` say what each loop has done with the positions behind it |
| | `NeverUsedAfterFree`, `ReferencesClaimed` (Trampoline) | `TrampolineInvAt`, for each trampoline: its references are what its occurrences on the stack, C and the completed list account for; an async closure runs and waits once |
| Repository_proofs | `ClassesAreSound`, `ClassesStay` (Classes) | `StackOK`: what waits for a prototype has the lookup of it above, until it is found; `DefinitionsOK`: a name in a namespace's table has its class, or exactly one definition of it under way |
| | `WrappersAreSound` (Wrappers) | `QdataAgrees` and `ReachedLive`: what a type remembers is a wrapper of that type, and the only one JavaScript can reach |
| Modules_proofs | `FlagsAndArrayAgree`, `OnlyConnectedCalled`, `EmissionsComplete` (Signals) | `Snapshot`, of every emission on the stack and not only the top: it holds in order all that was connected for its signal before it, but for what was disconnected; `Called`: the handlers it is past were called or disconnected |
| | `CallerIsTheWrapper` (Lang) | `Remembered`: a wrapped call remembers the caller that was there, which is the next wrapper below it, over the whole stack and not only its top; `Idle`: nobody is the caller when nothing runs |
| | `ClassesImplementInterfaces` (Lang) | `ClassInv`: a class comes after its parent, and has the interfaces that its interfaces require and their members; a definition adds a class and changes none. `Line`, the classes one inherits from, is a recursive function, which unfolds once a function that satisfies the recursion is shown: the least sets closed under parents are one |
| | `ParentFindsAbove` (Lang) | `ParentInv`: what runs, and what a call has to restore, is the method of a class that exists (`OwnersKnown`), with `Remembered` of the callers; a method found from a class is found on that class's line, so from the parent of its owner it is found above |
| Tweener_proofs | `ListStaysSound`, `NeverTwoTweens` | `TweenerInv`. `Placed`: each callback in progress has the slot its caller goes on from, with its own tween in it or nothing, and only the innermost walk's index moves; a tween with no time at all is over inside its one callback. `Apart`: two tweens conflict only if one was moved in time, or is being added, and then only at slots that `removeTweensByTime` has yet to pass: `_addTweenOrCaller` puts the new tween in the list when that loop is done |
| Imports_proofs | `ImportsStaySafe`, `ModulesStayRight` | `Chained`: what each frame of the stack may stand on (under a file's code is an import that has passed every element of the search path before that file in vain); `Marks`: the marked names are those stored, imported now or evaluated, and a name imported now is evaluated exactly if its code is on the stack; `Resolved`: until the repository is stored or being made, no namespace has an object; `Known`: importers are reached through importers |
| DBus_proofs | `QuitStopsARunningLoop`, `CalledBackOnce` | `LoopInv`: the loops that have names are distinct and on the stack; `CallsInv`: a call is on its way, or kept, or answered, one of them at a time, and what the bus carries back is not told yet |
| | `CacheAlwaysAgrees` | `CacheInv`: while the object has no change to announce, each message on its way to the client has the present value or none, or is followed by a signal; the cache has that value too, or a signal is on its way, or the client wrote what it has and the object refuses or has yet to see it |

`ToggleRefAssumption` asks for finitely many threads and `Wrappers` for finitely
many identities, because they are counted; no bound is put on how many.
`NumbersAssumption` asks of the widths that each half range divides those above it,
as powers of two do, and that values of an enumeration fit its storage type. Six
theorems have a hypothesis on constants that the code does not enforce.
* `ArgumentsAlwaysMatch` and `ArgumentsAlwaysReleased` assume `MeaningfulSignatures`,
  the condition (`Meaningful`) by which the run enumerates signatures too: it
  excludes those that the code miscounts (section 5).
* `WritesAreRead` assumes `NamesApart`, that no name of a property is one of a
  method or virtual function: where it is, the method is stored over what was
  written.
* `TogglesStayDocumented` and `RootMirrorImplemented` assume that the main thread is
  the only one: with a second thread both fail, as section 5 says. The first also
  stops at a crash, and the second assumes `Pinned = Objects`, the choice of its run
  that JavaScript drops no wrapper: a collected one may crash the program.
* `ReleasedOnce` assumes `NestedPlain`: a container that is an element of another
  holds no objects. In C arrays of containers the objects would be released as if
  they were owned, which `ElementsNotOwned` excepts only one level deep.

`Tied` and `TiedBack`, on which it and `ComesBackUnchanged` stand as well, are no
restriction: the conversions of elements are the conversions of this module, as in
the run, and types have a depth.

Counts of occurrences on a stack or in a queue are cardinalities of sets of
positions throughout, and what a push, a pop or a message does to them are
lemmas. For the sake of the proofs, `_affectTweens`, `import_directory` and
`QueuedFor` order indices with `Nth` and not by a sorted or filtered sequence, and
the snapshot of `_emit` is chosen by a predicate that one sequence satisfies
(`Snapshots`).

Model-checked only:
* liveness, fairness and ENABLED, which are beyond the prover, and with them the
  fairness of RootMirror: `RootMirrorImplemented` is about its `SafetySpec`, and the
  run ToggleRef_one about all of it;
* `NothingKept` of Marshal. That a conversion leaves nothing behind has more
  exceptions than that it releases nothing twice, and nested in containers more than
  `NothingKept` names;
* `VariantRoundTrip`: signatures are parsed by RECURSIVE operators.

## 5. Known defects

Seen while modelling. Some are in the models as behaviour, which the stated
properties except by name; some lie outside them.

Wrappers (`gi/object.cpp`):
* The notifications of two threads overtake one another (1017), so that the last
  one handled need not be the latest: a wrapper can be unrooted while its object
  is shared, against "whenever the refcount on the wrapped gobj is >1 [...] the
  wrapped gobj has a strong ref" (1225). Three sources may be queued for one
  object, against 982; `TogglesAsDocumented` is checked on one thread.
* Children of the keep-alive are not marked (`keep-alive.cpp:112`, against
  `object.cpp:918`), and the finalizer does not drop the toggle reference
  (`object.cpp:1434`, against 1228): objects are leaked and wrappers die early.

Properties (`gi/object.cpp`):
* A name without a value is remembered, so that the second read of it is
  `undefined` where the first asked the object (299).
* A write is stored by JavaScriptCore as well, against "we hook get and set so will
  always override that value" (405): also of a property that is not writable.
  Two spellings (`iconName`, `icon_name`) keep values of their own.
* Before `_init` chains up, a read hides the property for good, and a method
  that is found is stored on the wrapper. A method assigned to a prototype is
  overwritten when the introspected one is resolved.
* A class whose parent implements an interface gets the interface's method over its
  parent's own of that name (488). When several interfaces have it the last
  wins here and the first in `find_method_using_interfaces` (`Ambiguous`).

C calls, callbacks and trampolines (`gi/function.cpp`):
* The extra reference "that will be cleared when collecting async calls, or when
  GDestroyNotify is called" (897) is leaked when a later argument does not
  convert: C never sees the closure.
* A length shared by two arrays is taken off the count twice (1651), so that a call
  with too few arguments is accepted, against 747. `Meaningful` excludes
  it. A return value and an out array that share one trip the
  assertion at 1174 or 1031 (1653).
* A notified closure is freed while its frame is on the C stack (409, against
  719); the frame is past its own code, so `NoUseAfterFree` holds.
* User data that comes before its callback stays counted (1618, against 741).
* An array whose length does not convert is leaked (926, against 1008);
  `InArgumentsReleased` excepts this position.
* The length of an inout array is read from a slot that holds an address by then
  (1140, overwritten at 941), and a pointer that C leaves in place is released
  before it is converted.
* A class structure as instance is passed as NULL: G_TYPE_INVALID passes the test
  against G_TYPE_NONE (599).
* The out arguments of a callback are written without a transfer (327, 354, 385),
  those it was given with a transfer are never released (`ParameterKept`), and an
  inout one is converted from the pointer itself (260, against 329). A `void`
  out argument is not counted but written (`VoidOutput`). A callback with several
  results that returns `undefined` crashes; one that fails leaves its out
  arguments as they were. An inout array with a length fails the assertion at
  `arg.cpp:2832`.
* `set_return_ffi_arg_from_giargument` falls through from interfaces to the
  default (150), which undoes the widening of enumerations.
* A callback type that takes a callback, or an array whose length goes the other
  way, has no trampoline (484, 497): the NULL is dereferenced (879), against "This
  is not supported".
* `is_vfunc` is never TRUE in this port; a trampoline for an unsupported
  argument is leaked; `function.length` is always 0.

Marshalling (`gi/arg.cpp`):
* Elements of a fixed or zero-terminated array that C did not take are released
  although they were never the call's, and so are foreign structures in any
  container, whose release ignores the transfer (3011; `ElementsNotOwned`); others
  are never released: floating point and 64 bit arrays outside a GArray, enumerations in one,
  flat GValues (`ArrayNotFreed`); elements made for a container that only C owns
  (`ElementsForgotten`); the first elements of a container whose later one does
  not convert (`FirstElementsKept`); what is behind an empty list, which is NULL,
  in an array that NULL ends (`BehindNull`); the reference for an inout value
  (`ReferenceKept`); what a callback returns (`ResultKept`).
* An empty GHashTable from C crashes (2515), as does one whose first key does not
  convert (2486); and a key is leaked for each entry of
  one that is not empty.
* The length of a fixed-size array is not compared with what JavaScript passed;
  enumerations in arrays that C returns are read as pointers (2202); flat GValues
  in a GArray are copied as pointers.
* A GPtrArray of elements smaller than a pointer is made by copying beyond their
  end (1842). Marshal leaves it out: its elements of a GPtrArray are pointers.
* A GValue with a NULL array of strings dereferences it (464); one with a NULL
  string is `undefined` and fails the call without an exception (2803).
* `null` for an enumeration passes as 0 and for an object that may be null is
  refused (1453). Eight and sixteen bit numbers beyond 32 bits wrap, 32 bit ones
  are not checked, negative enumeration values are rounded. A whole number in a boxed
  GValue is taken for an int and cast, however large it is (`value.cpp:366`).

Repository, classes and types:
* `resolve_namespace_object` never sets its result (`repo.cpp:101`), so that the
  name leaves `priv->modules` also after success, against "Let default handler
  deal with already loaded modules" (184): each access to `imports.gi.GLib` makes
  another namespace object, with classes of its own, and applies the override
  again.
* In the private namespace a class can be defined twice, and a described class that
  is asked for while it is being defined is defined without its description.
* The wrapper of a GType is remembered weakly: one that is dead and not yet
  finalized is handed out (`gtype.cpp:142`).
* Methods of GParamSpec are never found (`param.cpp:110`), passing the prototype
  or `new ParamSpec` dereferences NULL, and each subclass in a namespace defines
  `ParamSpec` again (`repo.cpp:491`).
* Structures and unions have no class: the calls that define them are commented out
  (`repo.cpp:526`, 531), and the body of `gwkjs_define_union_class` would dereference
  a prototype it does not make.
* Two members of an enumeration whose names agree in upper case hide one another
  (`enumeration.cpp:84`).
* Foreign structures: a failing import throws nothing, so `foreign.cpp:88` marks the
  module as loaded and it is never tried again.

Importer (`gwkjs/importer.cpp`):
* A module that threw counts as imported: its first access gives the
  half-evaluated object, later ones `undefined` and no exception (394). In a
  circle the inner module gets `undefined` too, against the comment at 185-206 and
  `installed-tests/js/modules/mutualImport/b.js`.
* An `__init__.js` that succeeds aborts the process (325, `jsapi-util.cpp:113`),
  one that throws is run again at each import, against 309; what it defines gets
  no meta properties. One that enumerates the importer it is in runs itself again,
  without end (345): nothing marks it.
* "Be sure an exception is set" (594): `gwkjs_throw` sets none. `seal_import` sets
  the attributes of a property that exists, which JavaScriptCore ignores.
* "We define both __moduleName__ and __parentModule__ to null on the root importer"
  (67): they are "imports" and `undefined`. Meta properties are defined when a
  module's code has run and not before. The hook exempts `__filename__` (951), the
  property is `__file__` (79).

Context (`gwkjs/context.cpp`):
* `logError` is registered as `logErrpr` (431). Every catch clause that calls it
  throws: in Signals the other handlers are not called, against "just log any
  exceptions so that callbacks can't disrupt signal emission"
  (`signals.js:132`). `prepare_global` copies `logErr` into the scope of a module
  (`jsapi-util.cpp:1680`), which is neither name.
* Dispose and finalize are commented out (256), so that contexts stay current for
  ever and a second one fails the assertion at 735. Global slots belong to the
  process (`jsapi-util.cpp:315`).

Tweener (`modules/tweener/tweener.js`):
* An exception in a callback of a frame stops the ticker while the engine is
  believed to exist: no tween runs again (205). `EveryTweenEnds` excepts it.
* An onOverwrite that removes the tween it is about makes `addTween` end with a
  TypeError (638); an exception ends it half-way.
* Pausing, resuming or removing for several objects stops at the first that had
  a tween (777). Pausing by property name on an object with a caller is a
  TypeError.
* A caller with no time at all is called once, though it asked for several calls,
  one a frame (590), and never with a linear transition (0/0).
* A resumed tween may overlap one that was added while it was paused;
  `OneTweenPerProperty` excepts tweens that were moved in time.

D-Bus (`modules/overrides/Gio.js`, `libgwkjs-private/`):
* A call is never answered, against "if we don't do this, the other side will never
  see a reply" (295), when its handler throws something other than a GLib.Error
  (`logError` again), when a method with out arguments returns `undefined`, and
  when GDBus refuses the variant that was made.
* The callback of a call that failed is never called. `call_finish` gives `undefined`
  instead of throwing (`gwkjs_throw_g_error` is to "report errors from C functions",
  `jsapi-util-error.cpp:173`, and is a stub), so the TypeError of
  `outVariant.deep_unpack()` (90) ends `asyncCallback`: a loop that waits for the
  callback, as in `testGDBus.js:283-292`, goes on for ever. A proxy whose
  initialization failed is given to the program as if it had not (190).
* Setting a property is answered with success though the setter threw. A property
  that the remote object refuses stays in the proxy's cache (139).
* The wrapper's finalizer leaves its idle source behind; `get_properties` adds NULL
  for a property that cannot be read, and announcing NULL references it.
* `_signatureLength` (28) would never end; nobody calls it.

Class system (`modules/lang.js`):
* A class that lists an interface its parent implements already puts the
  interface's members over its parent's methods, unchecked (440;
  `testInterface.js:324` tests the case without a method).
* A wrapper does not restore `__caller__` when the method throws, so that parent()
  of a caller that catches goes astray (against `testClass.js:186`);
  `CallerIsRunning` excepts it. Default methods of interfaces are not wrapped, and
  cannot chain up.

Variants (`modules/overrides/GLib.js`): values beyond those of a tuple's type are
ignored; a dictionary entry's key type is checked only inside an array; arrays of
bytes cannot be packed, for `imports.byteArray` is not registered (`context.cpp:291`).

## 6. Not modelled

* Cairo (`modules/cairo*`): still written against SpiderMonkey's API and cannot be
  compiled here. Reading it shows `cairo_surface_destroy` and
  `cairo_region_destroy` where a reference is due for a transfer of everything,
  groups leaked by `popGroup`, and methods that pass NULL after `$dispose`.
* Disabled code: signal connection and virtual functions of JavaScript classes,
  shutdown of wrappers, the tracer, disposal of contexts, byte arrays, stack traces.
  Commented out or never called; there is no behaviour to model.
* `boxed.cpp`, `fundamental.cpp`, `closure.cpp`, `byteArray.cpp`, `coverage.cpp`:
  almost wholly commented out; Marshal and Values have what is left, that a value
  passes through or is refused. `union.cpp` is alive, and Values and Marshal have its
  type check and its conversions, but nothing defines a union's class and
  `gwkjs_union_from_c_union` only throws: there is no wrapper of a union to try
  them on.
* Tweener's equations, values and special properties; `jsUnit.js`, `format.js`,
  `coverage.js`, `package.js`: arithmetic, text and set-up without state that
  several actors share.
* The GObject and Gtk overrides: they define classes with functions that this port
  has disabled.
* System and console modules, `util/`: single library calls, logging, counters.
* Versions of namespaces, attributes of properties, the text of messages.

Next would be a theorem about `NothingKept`, along the depth of types as in
`ReleasedOnce`, and the parser of variants as a recursive function.
