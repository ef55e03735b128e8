------------------------------ MODULE ToggleRef ------------------------------
(***************************************************************************)
(* The lifetime of a GObject and its JavaScript wrapper: gi/object.cpp's   *)
(* toggle-reference machine and the keep-alive set of gi/keep-alive.cpp.   *)
(*                                                                         *)
(* A wrapper owns one toggle reference on its GObject.  GObject calls      *)
(* wrapped_gobj_toggle_notify, on whatever thread changed the count, when  *)
(* the count crosses between 1 and 2.  gwkjs_eval_thread is never assigned *)
(* in this port, so is_main_thread is always FALSE and every notification  *)
(* is deferred to the main loop by queue_toggle_idle; nothing ever sets    *)
(* GwkjsContext.destroying, so the early return on it is dead too.         *)
(*                                                                         *)
(* The change of a reference count and the notification it causes are      *)
(* separate steps, as in g_object_ref and g_object_unref: other threads    *)
(* may run between them.                                                   *)
(***************************************************************************)
EXTENDS Integers, SequencesExt

CONSTANTS
    Objects,        \* GObjects
    Threads,        \* threads of the process that hold references
    Main,           \* the one that runs JavaScript and the main loop
    Shareable,      \* objects a thread can reach without holding a reference
                    \* (weak singletons such as the connection g_bus_get_sync returns)
    Pinned,         \* objects whose wrapper JavaScript never lets go of
    MaxHeld         \* bound: references a thread holds on one object

ASSUME ToggleRefAssumption ==
    /\ Main \in Threads /\ IsFiniteSet(Threads)
    /\ Shareable \subseteq Objects
    /\ Pinned \subseteq Objects
    /\ MaxHeld \in Nat

Directions == {"UP", "DOWN"}

VARIABLES
    refs,           \* ref_count of each object; 0: not allocated
    held,           \* held[t][o]: references thread t owns on o
    toggleRef,      \* the object carries the wrapper's toggle reference
    wrapper,        \* the JSObject in the object's qdata
    jsHeld,         \* objects whose wrapper JavaScript can reach
    keepAlive,      \* priv->keep_alive is not NULL
    children,       \* objects whose wrapper is in the keep-alive's hash table
    qdata,          \* toggle_up / toggle_down qdata of the object is a GSource
    queue,          \* idle sources of the main context, in attach order
    pending,        \* pending_idle_toggles
    dispatching,    \* the main loop is freeing the idle operation it ran
    stack,          \* stack[t]: calls thread t has still to make, next one first
    crashed         \* a collected wrapper was touched and the process died

gobject == <<refs, held, toggleRef>>
js      == <<wrapper, jsHeld>>
alive   == <<keepAlive, children>>
loop    == <<qdata, queue, pending, dispatching>>
vars    == <<gobject, js, alive, loop, stack, crashed>>

Operations == [obj : Objects, dir : Directions]
Frames     == [call : {"unref", "toggle_notify", "attach"}, obj : Objects, dir : Directions]

Frame(call, o, dir) == [call |-> call, obj |-> o, dir |-> dir]

(* A keep-alive object has no children when it is made; the one that all   *)
(* wrappers share is made with the first of them, and stays.               *)
gwkjs_keep_alive_new == {}
gwkjs_keep_alive_create == gwkjs_keep_alive_new

Init ==
    /\ refs = [o \in Objects |-> 0]
    /\ held = [t \in Threads |-> [o \in Objects |-> 0]]
    /\ toggleRef = [o \in Objects |-> FALSE]
    /\ wrapper = [o \in Objects |-> "none"]
    /\ jsHeld = {}
    /\ keepAlive = [o \in Objects |-> FALSE]
    /\ children = gwkjs_keep_alive_create
    /\ qdata = [o \in Objects |-> [d \in Directions |-> FALSE]]
    /\ queue = <<>>
    /\ pending = 0
    /\ dispatching = FALSE
    /\ stack = [t \in Threads |-> <<>>]
    /\ crashed = FALSE

-----------------------------------------------------------------------------
(* External: the reference counting of libgobject.                         *)

(* The calls left to t after g_object_ref(o) or g_object_unref(o), when it *)
(* had rest to do: the count crossed the toggle line or it did not.        *)
AfterRef(o, rest) ==
    IF refs[o] = 1 /\ toggleRef[o]
    THEN <<Frame("toggle_notify", o, "UP")>> \o rest ELSE rest

AfterUnref(o, rest) ==
    IF refs[o] = 2 /\ toggleRef[o]
    THEN <<Frame("toggle_notify", o, "DOWN")>> \o rest ELSE rest

(* Threads run library code only between calls, and the main thread only   *)
(* when no idle operation is being freed.                                  *)
Idle(t) ==
    /\ ~crashed
    /\ stack[t] = <<>>
    /\ t = Main => ~dispatching

(* Code on thread t can name o: it owns a reference, JavaScript passes the *)
(* wrapped object to it, or a weak registry hands it out.                  *)
Reaches(t, o) ==
    /\ refs[o] > 0
    /\ \/ held[t][o] > 0
       \/ t = Main /\ o \in jsHeld
       \/ o \in Shareable

(* A library on thread t creates an object of its own.                     *)
NewInC(t, o) ==
    /\ Idle(t) /\ refs[o] = 0 /\ MaxHeld > 0
    /\ refs' = [refs EXCEPT ![o] = 1]
    /\ held' = [held EXCEPT ![t][o] = 1]
    /\ UNCHANGED <<toggleRef, js, alive, loop, stack, crashed>>

Ref(t, o) ==
    /\ Idle(t) /\ Reaches(t, o) /\ held[t][o] < MaxHeld
    /\ refs'  = [refs EXCEPT ![o] = @ + 1]
    /\ held'  = [held EXCEPT ![t][o] = @ + 1]
    /\ stack' = [stack EXCEPT ![t] = AfterRef(o, <<>>)]
    /\ UNCHANGED <<toggleRef, js, alive, loop, crashed>>

Unref(t, o) ==
    /\ Idle(t) /\ held[t][o] > 0
    /\ refs'  = [refs EXCEPT ![o] = @ - 1]
    /\ held'  = [held EXCEPT ![t][o] = @ - 1]
    /\ stack' = [stack EXCEPT ![t] = AfterUnref(o, <<>>)]
    /\ UNCHANGED <<toggleRef, js, alive, loop, crashed>>

(* The g_object_unref a function of object.cpp makes as its last call.     *)
UnrefCall(t) ==
    /\ ~crashed /\ stack[t] # <<>> /\ Head(stack[t]).call = "unref"
    /\ LET o == Head(stack[t]).obj IN
        /\ refs'  = [refs EXCEPT ![o] = @ - 1]
        /\ stack' = [stack EXCEPT ![t] = AfterUnref(o, Tail(@))]
    /\ UNCHANGED <<held, toggleRef, js, alive, loop, crashed>>

-----------------------------------------------------------------------------
(* gi/keep-alive.cpp: the hash table of rooted children.  Adding a child   *)
(* that is already there fails g_return_if_fail and changes nothing.       *)

gwkjs_keep_alive_add_child(o)    == children' = children \union {o}
gwkjs_keep_alive_remove_child(o) == children' = children \ {o}

-----------------------------------------------------------------------------
(* gi/object.cpp: making and finding wrappers, on the main thread.         *)

(* set_js_obj, keep_alive_add_child and g_object_add_toggle_ref, with the  *)
(* object's count becoming n on the way to the caller's last unref.        *)
associate_js_gobject(o, n) ==
    /\ wrapper' = [wrapper EXCEPT ![o] = "live"]
    /\ keepAlive' = [keepAlive EXCEPT ![o] = TRUE]
    /\ gwkjs_keep_alive_add_child(o)
    /\ toggleRef' = [toggleRef EXCEPT ![o] = TRUE]
    /\ refs' = [refs EXCEPT ![o] = n]
    /\ jsHeld' = jsHeld \union {o}

(* new Gtk.Something(): g_object_newv returns a fresh object; kept is how  *)
(* many references its constructor left with the library (one for a        *)
(* top-level GtkWindow, which makes object_instance_init add its own).     *)
object_instance_init(o, kept) ==
    /\ Idle(Main) /\ refs[o] = 0 /\ kept <= MaxHeld
    /\ associate_js_gobject(o, kept + 2)
    /\ held'  = [held EXCEPT ![Main][o] = kept]
    /\ stack' = [stack EXCEPT ![Main] = <<Frame("unref", o, "DOWN")>>]
    /\ UNCHANGED <<loop, crashed>>

(* g_object_newv returned, with a new reference, an object that already    *)
(* has a wrapper: the wrapper is reused and the reference given back.      *)
object_instance_init_singleton(o) ==
    /\ Idle(Main) /\ wrapper[o] # "none"
    /\ refs'   = [refs EXCEPT ![o] = @ + 1]
    /\ jsHeld' = jsHeld \union {o}
    /\ stack'  = [stack EXCEPT ![Main] = AfterRef(o, <<Frame("unref", o, "DOWN")>>)]
    /\ UNCHANGED <<held, toggleRef, wrapper, alive, loop, crashed>>

(* C code returns or passes an object to JavaScript: the first time it is  *)
(* wrapped (g_object_ref_sink, associate, unref), later its wrapper is     *)
(* found in the qdata.                                                     *)
gwkjs_object_from_g_object(o) ==
    /\ Idle(Main) /\ Reaches(Main, o)
    /\ \/ /\ wrapper[o] = "none"
          /\ associate_js_gobject(o, refs[o] + 2)
          /\ stack' = [stack EXCEPT ![Main] = <<Frame("unref", o, "DOWN")>>]
          /\ UNCHANGED <<held, loop, crashed>>
       \/ /\ wrapper[o] # "none"
          /\ jsHeld' = jsHeld \union {o}
          /\ UNCHANGED <<gobject, wrapper, alive, loop, stack, crashed>>

-----------------------------------------------------------------------------
(* gi/object.cpp: toggle notifications.                                    *)

(* On thread t, up to queue_toggle_idle's reference.  TOGGLE_UP takes one, *)
(* which could itself toggle; TOGGLE_DOWN takes none.                      *)
wrapped_gobj_toggle_notify(t) ==
    /\ ~crashed /\ stack[t] # <<>> /\ Head(stack[t]).call = "toggle_notify"
    /\ LET o    == Head(stack[t]).obj
           rest == <<Frame("attach", o, Head(stack[t]).dir)>> \o Tail(stack[t])
       IN \/ /\ Head(stack[t]).dir = "UP"
             /\ refs'  = [refs EXCEPT ![o] = @ + 1]
             /\ stack' = [stack EXCEPT ![t] = AfterRef(o, rest)]
          \/ /\ Head(stack[t]).dir = "DOWN"
             /\ stack' = [stack EXCEPT ![t] = rest]
             /\ UNCHANGED refs
    /\ UNCHANGED <<held, toggleRef, js, alive, loop, crashed>>

(* Mutant: the source is dispatched before those already attached.         *)
mutant_queue_first(t) ==
    /\ ~crashed /\ stack[t] # <<>> /\ Head(stack[t]).call = "attach"
    /\ LET f == Head(stack[t]) IN
        /\ qdata' = [qdata EXCEPT ![f.obj][f.dir] = TRUE]
        /\ queue' = <<[obj |-> f.obj, dir |-> f.dir]>> \o queue
    /\ pending' = pending + 1
    /\ stack' = [stack EXCEPT ![t] = Tail(@)]
    /\ UNCHANGED <<gobject, js, alive, dispatching, crashed>>

(* The rest of it: the new source overwrites the object's qdata and goes   *)
(* to the end of the main context's idle sources.                          *)
queue_toggle_idle(t) ==
    /\ ~crashed /\ stack[t] # <<>> /\ Head(stack[t]).call = "attach"
    /\ LET o == Head(stack[t]).obj
           d == Head(stack[t]).dir
       IN /\ pending' = pending + 1
          /\ qdata'   = [qdata EXCEPT ![o][d] = TRUE]
          /\ queue'   = Append(queue, [obj |-> o, dir |-> d])
    /\ stack' = [stack EXCEPT ![t] = Tail(@)]
    /\ UNCHANGED <<gobject, js, alive, dispatching, crashed>>

(* Both directions: priv->keep_alive guards the change of the keep-alive.  *)
handle_toggle_up(o) ==
    \/ /\ ~keepAlive[o]
       /\ keepAlive' = [keepAlive EXCEPT ![o] = TRUE]
       /\ gwkjs_keep_alive_add_child(o)
    \/ keepAlive[o] /\ UNCHANGED alive

(* Mutants: priv->keep_alive is not reset; the child is not removed.       *)
mutant_down_keeps_pointer(o) == gwkjs_keep_alive_remove_child(o) /\ UNCHANGED keepAlive
mutant_down_keeps_child(o) ==
    keepAlive' = [keepAlive EXCEPT ![o] = FALSE] /\ UNCHANGED children

handle_toggle_down(o) ==
    \/ /\ keepAlive[o]
       /\ gwkjs_keep_alive_remove_child(o)
       /\ keepAlive' = [keepAlive EXCEPT ![o] = FALSE]
    \/ ~keepAlive[o] /\ UNCHANGED alive

(* Mutant: the qdata is read and left in place.                            *)
mutant_peek_toggle_idle_source(op) == UNCHANGED qdata

(* g_object_steal_qdata: whoever finds the source there takes it.          *)
clear_toggle_idle_source(op) == qdata' = [qdata EXCEPT ![op.obj][op.dir] = FALSE]

(* Mutant: needs_unref is never set.                                       *)
mutant_no_unref(op) == <<>>

(* The unref toggle_ref_notify_operation_free begins with.                 *)
needs_unref(op) == IF op.dir = "UP" THEN <<Frame("unref", op.obj, "DOWN")>> ELSE <<>>

(* Reading the private data of a collected JSObject is undefined: it still *)
(* holds the old pointer, to a struct nothing frees, or the process dies.  *)
idle_handle_toggle ==
    /\ Idle(Main) /\ queue # <<>>
    /\ LET op == Head(queue) IN
        /\ queue' = Tail(queue)
        /\ clear_toggle_idle_source(op)
        /\ dispatching' = TRUE
        /\ \/ /\ qdata[op.obj][op.dir]
              /\ \/ op.dir = "UP" /\ handle_toggle_up(op.obj)
                 \/ op.dir = "DOWN" /\ handle_toggle_down(op.obj)
              /\ UNCHANGED crashed
           \/ /\ qdata[op.obj][op.dir]
              /\ wrapper[op.obj] = "collected"
              /\ crashed' = TRUE
              /\ UNCHANGED alive
           \/ /\ ~qdata[op.obj][op.dir]
              /\ UNCHANGED <<alive, crashed>>
        /\ stack' = [stack EXCEPT ![Main] = needs_unref(op)]
    /\ UNCHANGED <<gobject, js, pending>>

(* Mutant: the counter is never decremented.                               *)
mutant_free_forgets_pending ==
    /\ ~crashed /\ dispatching /\ stack[Main] = <<>>
    /\ dispatching' = FALSE
    /\ UNCHANGED <<gobject, js, alive, qdata, queue, pending, stack, crashed>>

(* The source's destroy notification, once its unref has returned.         *)
toggle_ref_notify_operation_free ==
    /\ ~crashed /\ dispatching /\ stack[Main] = <<>>
    /\ pending' = pending - 1
    /\ dispatching' = FALSE
    /\ UNCHANGED <<gobject, js, alive, qdata, queue, stack, crashed>>

-----------------------------------------------------------------------------
(* The JavaScript side: references dropped, and the garbage collector.     *)

JSDrop(o) ==
    /\ Idle(Main) /\ o \in jsHeld \ Pinned
    /\ jsHeld' = jsHeld \ {o}
    /\ UNCHANGED <<gobject, wrapper, alive, loop, stack, crashed>>

(* The keep-alive's tracer is compiled out, so reachability from           *)
(* JavaScript is all the collector sees; and the finalizer is a stub: it   *)
(* frees nothing, and leaves the qdata, the keep-alive child and the       *)
(* toggle reference as they are.                                           *)
object_instance_finalize(o) ==
    /\ Idle(Main) /\ wrapper[o] = "live" /\ o \notin jsHeld
    /\ wrapper' = [wrapper EXCEPT ![o] = "collected"]
    /\ UNCHANGED <<gobject, jsHeld, alive, loop, stack, crashed>>

-----------------------------------------------------------------------------
Library(t) == \E o \in Objects : NewInC(t, o) \/ Ref(t, o) \/ Unref(t, o)

Calls(t) == UnrefCall(t) \/ wrapped_gobj_toggle_notify(t) \/ queue_toggle_idle(t)

JavaScript ==
    \E o \in Objects :
        \/ \E kept \in 0..1 : object_instance_init(o, kept)
        \/ object_instance_init_singleton(o)
        \/ gwkjs_object_from_g_object(o)
        \/ JSDrop(o)
        \/ object_instance_finalize(o)

Next ==
    \/ \E t \in Threads : Library(t) \/ Calls(t)
    \/ JavaScript
    \/ idle_handle_toggle
    \/ toggle_ref_notify_operation_free

(* A call that has begun goes on; the main loop keeps iterating, and idle  *)
(* sources of G_PRIORITY_HIGH run before everything else it dispatches, so *)
(* a source that can run again and again does run: strong fairness, since  *)
(* the main thread's own calls disable it for a while.                     *)
Fairness ==
    /\ \A t \in Threads : WF_vars(Calls(t))
    /\ WF_vars(toggle_ref_notify_operation_free)
    /\ SF_vars(idle_handle_toggle)

Spec == Init /\ [][Next]_vars /\ Fairness
-----------------------------------------------------------------------------
(* Types.  That no reference count falls below zero follows from           *)
(* RefAccounting, not from here.                                           *)
TypeOK ==
    /\ refs \in [Objects -> Int]
    /\ held \in [Threads -> [Objects -> Nat]]
    /\ toggleRef \in [Objects -> BOOLEAN]
    /\ wrapper \in [Objects -> {"none", "live", "collected"}]
    /\ jsHeld \in SUBSET Objects
    /\ keepAlive \in [Objects -> BOOLEAN]
    /\ children \in SUBSET Objects
    /\ qdata \in [Objects -> [Directions -> BOOLEAN]]
    /\ queue \in Seq(Operations)
    /\ pending \in Nat
    /\ dispatching \in BOOLEAN
    /\ stack \in [Threads -> Seq(Frames)]
    /\ crashed \in BOOLEAN

(* The owners of references on o: threads by what they hold, calls that    *)
(* will give one back, and queued sources.  The calls of a stack are       *)
(* counted from the bottom, where they stay while others come and go.      *)
Pairs(sets) == UNION {{t} \X sets[t] : t \in DOMAIN sets}

GivesBack(f, o) ==
    f.obj = o /\ (f.call = "unref" \/ (f.call = "attach" /\ f.dir = "UP"))
Gives(s, o)   == {i \in 1..Len(s) : GivesBack(s[Len(s) + 1 - i], o)}

HeldRefs(o)   == Pairs([t \in Threads |-> 1..held[t][o]])
CallRefs(o)   == Pairs([t \in Threads |-> Gives(stack[t], o)])
QueuedRefs(o) == {i \in 1..Len(queue) : queue[i] = [obj |-> o, dir |-> "UP"]}

(* Every reference has one owner who will give it back: the wrapper, a     *)
(* thread, a queued or half-queued TOGGLE_UP, or a call still to be made.  *)
(* A reference lost or given back twice by queue_toggle_idle, the source's *)
(* destroy notification or a wrapping function breaks this.                *)
RefAccounting ==
    \A o \in Objects :
        refs[o] = (IF toggleRef[o] THEN 1 ELSE 0) + Cardinality(HeldRefs(o))
                  + Cardinality(CallRefs(o)) + Cardinality(QueuedRefs(o))

(* pending_idle_toggles, which gwkjs_object_prepare_shutdown waits on,     *)
(* counts the operations that are attached or being freed, no others.      *)
PendingCount == pending = Len(queue) + (IF dispatching THEN 1 ELSE 0)

(* priv->keep_alive and membership of the keep-alive set always agree, so  *)
(* no add_child meets a duplicate (g_return_if_fail) and no remove_child a *)
(* missing child, however notifications interleave.                        *)
KeepAliveInSync == \A o \in Objects : keepAlive[o] <=> o \in children

(* The qdata borrows the main loop's reference on the source               *)
(* ("piggy-backing", object.cpp:1017): whenever it is set, a source of     *)
(* that direction is still queued, so the pointer is not dangling.         *)
QdataSourceAlive ==
    \A o \in Objects, d \in Directions :
        qdata[o][d] => \E i \in 1..Len(queue) : queue[i] = [obj |-> o, dir |-> d]

(* A queued TOGGLE_UP keeps its object shared until it is processed, and   *)
(* the reference queue_toggle_idle takes never itself crosses the toggle   *)
(* line, so that function is never re-entered on a thread.                 *)
UpKeepsShared ==
    /\ \A i \in 1..Len(queue) : queue[i].dir = "UP" => refs[queue[i].obj] > 1
    /\ \A t \in Threads : \A i, j \in 1..Len(stack[t]) :
        stack[t][i].call # "unref" /\ stack[t][j].call # "unref" => i = j

(* References are neither lost nor given back too early.                   *)
ReferencesSound == TypeOK /\ RefAccounting /\ UpKeepsShared

(* The directions queued for o, in dispatch order.                         *)
Nth(S, k) == CHOOSE i \in S : Cardinality({j \in S : j <= i}) = k

DirsFor(q, o) ==
    LET mine == {i \in 1..Len(q) : q[i].obj = o}
    IN [k \in 1..Cardinality(mine) |-> q[Nth(mine, k)].dir]

QueuedFor(o) == DirsFor(queue, o)

(* object.cpp:981: "This ensures we only ever have at most two toggle      *)
(* notifications queued. (either only up, or down-up)".  A lone DOWN is    *)
(* granted too.                                                            *)
AtMostTwoQueued ==
    \A o \in Objects : QueuedFor(o) \in {<<>>, <<"UP">>, <<"DOWN">>, <<"DOWN", "UP">>}

(* Nothing about o is queued or under way.                                 *)
Settled(o) ==
    /\ \A i \in 1..Len(queue) : queue[i].obj # o
    /\ \A t \in Threads : \A i \in 1..Len(stack[t]) : stack[t][i].obj # o

(* object.cpp:1222: "whenever the refcount on the wrapped gobj is >1 [...] *)
(* the wrapped gobj has a strong ref (gc-roots the wrapper).  When the     *)
(* refcount is 1, then we change to a weak ref" - once notifications have  *)
(* been handled.                                                           *)
StrongWhenShared ==
    \A o \in Objects :
        Settled(o) /\ wrapper[o] # "none" => (keepAlive[o] <=> refs[o] > 1)

(* What the comments of object.cpp promise on one thread.                  *)
TogglesAsDocumented == AtMostTwoQueued /\ StrongWhenShared

-----------------------------------------------------------------------------
(* Refinement: with one thread this is RootMirror.                         *)

(* The notification the main thread is in, which is not queued yet: no     *)
(* call is on top of it.                                                   *)
UnderWay(o) ==
    IF stack[Main] # <<>> /\ Head(stack[Main]).call # "unref" /\ Head(stack[Main]).obj = o
    THEN <<Head(stack[Main]).dir>> ELSE <<>>

(* What the mirror knows of o: that something besides its wrapper owns a   *)
(* reference on it, and the news of it that is still to be delivered.      *)
Shared(o) == toggleRef[o] /\ refs[o] > 1
News(o)   == QueuedFor(o) \o UnderWay(o)

Mirror == INSTANCE RootMirror WITH
    wrapped <- toggleRef,
    shared  <- [o \in Objects |-> Shared(o)],
    rooted  <- keepAlive,
    news    <- [o \in Objects |-> News(o)]

(* With one thread, the wrapper's root is a delayed copy of "the object is *)
(* shared": every step is one of RootMirror's or changes nothing it sees,  *)
(* and all news is eventually delivered.                                   *)
ImplementsMirror == Mirror!Spec
=============================================================================
