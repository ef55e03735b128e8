-------------------------------- MODULE DBus --------------------------------
(***************************************************************************)
(* modules/overrides/Gio.js and libgwkjs-private/gwkjs-gdbus-wrapper.cpp:  *)
(* a process with a proxy, and one that exports a JavaScript object with a *)
(* method and a property.  The client waits for its calls in main loops    *)
(* that their callbacks quit, as the tests of the repository do, or with   *)
(* the Sync form of a method.                                              *)
(*                                                                         *)
(* A C function that fails throws nothing and returns undefined, whatever  *)
(* JavaScript expects: gwkjs_throw_g_error is a stub, and function_call    *)
(* sets no exception.  Only of packing a variant it is assumed that it     *)
(* throws when it fails.                                                   *)
(*                                                                         *)
(* GDBus is external: messages from one process to another arrive in the   *)
(* order they were sent, a call that is not answered times out (Gio.js     *)
(* passes -1, the default of 25 s) or is cancelled, and a late answer is   *)
(* dropped.                                                                *)
(***************************************************************************)
EXTENDS MainLoop, FiniteSets

CONSTANTS
    Values,             \* values of the property
    Unknown,            \* a property that is not in the proxy's cache
    None,               \* no announcement is outstanding
    MaxCalls,           \* bound: calls of the client
    MaxChanges          \* bound: changes that the service makes by itself

ASSUME DBusAssumption ==
    /\ {Unknown, None} \intersect Values = {} /\ Unknown # None
    /\ Values # {}
    /\ MaxCalls \in Nat /\ MaxChanges \in Nat

VARIABLES
    calls,              \* the client's calls, in order
    cache,              \* the proxy's cached property
    ready,              \* the proxy: "no", "initializing" or "yes"
    toServer, toClient, \* messages on their way
    value,              \* the property of the JavaScript object
    outstanding,        \* outstanding_properties: a value, Unknown or None
    idle_id,            \* priv->idle_id is not 0
    idle_source,        \* the source that idle_cb is called from is attached
    held,               \* calls whose invocation an Async method has kept
    changes

client  == <<calls, cache, ready>>
service == <<value, outstanding, idle_id, idle_source, held, changes>>
vars    == <<running, mainLoops, stack, calls, cache, ready, toServer, toClient,
             value, outstanding, idle_id, idle_source, held, changes>>

(* The program has a proxy already, or makes one.                          *)
Init ==
    /\ LoopInit
    /\ calls = << >> /\ toServer = << >> /\ toClient = << >>
    /\ value \in Values /\ outstanding = None
    /\ \/ ready = "no" /\ cache = Unknown
       \/ ready = "yes" /\ cache = value
    /\ idle_id = FALSE /\ idle_source = FALSE
    /\ held = {} /\ changes = 0

Id == 1..Len(calls)

-----------------------------------------------------------------------------
(* The client makes a call of a kind.  quits is the loop that its callback *)
(* quits; told counts how often the callback was called, answers how often *)
(* the service answered.                                                   *)
Sends(kind, quits, v) ==
    /\ InScript /\ Len(calls) < MaxCalls
    /\ calls' = Append(calls, [kind |-> kind, quits |-> quits, value |-> v, pending |-> TRUE,
                               told |-> 0, answers |-> 0, refused |-> FALSE])
    /\ toServer' = Append(toServer, Len(calls) + 1)

Waits(sync) == IF sync THEN Push(Frame("sync", Len(calls) + 1)) ELSE UNCHANGED stack

(* The wrapper makes a proxy: init and init_async subscribe to changes and *)
(* ask for all properties.                                                 *)
_makeProxyWrapper(n, sync) ==
    /\ ready = "no" /\ ready' = "initializing"
    /\ Sends("init", n, Unknown) /\ Waits(sync)
    /\ UNCHANGED <<running, mainLoops, cache, toClient, service>>

_proxyInvoker(n, sync) ==
    /\ ready = "yes"
    /\ Sends(IF sync THEN "sync" ELSE "method", n, Unknown) /\ Waits(sync)
    /\ UNCHANGED <<running, mainLoops, cache, ready, toClient, service>>

(* The cache has the value before the service has it.                      *)
_propertySetter(v) ==
    /\ ready = "yes"
    /\ Sends("set", CHOOSE n \in Names : TRUE, v)
    /\ cache' = v
    /\ UNCHANGED <<running, mainLoops, stack, ready, toClient, service>>

(* The program waits in a loop that the callback of a pending call quits.  *)
RunsLoop(n) ==
    /\ \E i \in Id : calls[i].pending /\ calls[i].kind \in {"init", "method"} /\ calls[i].quits = n
                     /\ \A d \in DOMAIN stack : stack[d] # Frame("sync", i)
    /\ run(n)
    /\ UNCHANGED <<client, toServer, toClient, service>>

-----------------------------------------------------------------------------
(* Mutant: replyFunc is called inside the try, so that what it throws, and *)
(* that there is nothing to unpack, is taken for a failure of the call.    *)
mutant_reply_in_try(ok, throws) == IF ok /\ throws THEN 2 ELSE 1

(* How often asyncCallback calls replyFunc.  The call_finish of a call that*)
(* failed does not throw, so that its catch is not entered, and undefined  *)
(* has no deep_unpack: the TypeError leaves asyncCallback.                 *)
asyncCallback(ok, throws) == IF ok THEN 1 ELSE 0

(* Mutant: the program is told of the proxy only when it could be made.    *)
mutant_told_of_success(ok) == IF ok THEN 1 ELSE 0

(* How often the callback of init_async calls the program's: init_finish   *)
(* does not throw either, and the program is given the proxy.              *)
init_asyncCallback(ok) == 1

Settled(i) == [calls EXCEPT ![i].pending = FALSE]

(* The callback of the program, if it is called, quits its loop, which     *)
(* throws when the loop has been quit already; then it ends with an        *)
(* exception, or goes on.                                                  *)
Calls(i, ok) ==
    LET n == calls[i].quits IN
    \E throws \in BOOLEAN :
        LET times == IF calls[i].kind = "init" THEN init_asyncCallback(ok) ELSE asyncCallback(ok, throws) IN
        /\ QuitThrows(n) => throws
        /\ calls' = [Settled(i) EXCEPT ![i].told = @ + times]
        /\ IF QuitThrows(n) \/ times = 0 THEN UNCHANGED <<running, mainLoops>> ELSE quit(n)
        /\ IF throws \/ times = 0 THEN UNCHANGED stack ELSE Push(Frame("callback", i))

(* init_finish and call_finish: GetAll fills the cache.  The callback that *)
(* _propertySetter passes tells nobody.                                    *)
Completes(i, ok, v) ==
    /\ ready' = IF calls[i].kind = "init" THEN "yes" ELSE ready
    /\ cache' = IF calls[i].kind = "init" /\ ok THEN v ELSE cache
    /\ IF calls[i].kind = "set"
       THEN calls' = Settled(i) /\ UNCHANGED loopVars
       ELSE Calls(i, ok)

(* A loop of the client dispatches the first message: an answer, or        *)
(* PropertiesChanged, which a proxy that is not initialized ignores.       *)
ClientReceives ==
    /\ Iterating /\ toClient # << >>
    /\ toClient' = Tail(toClient)
    /\ LET m == Head(toClient) IN
        \/ /\ m.type = "changed"
           /\ cache' = IF ready = "yes" THEN m.value ELSE cache
           /\ UNCHANGED <<calls, ready, loopVars>>
        \/ /\ m.type = "answer" /\ calls[m.id].pending
           /\ Completes(m.id, m.ok, m.value)
        \/ /\ m.type = "answer" /\ ~calls[m.id].pending
           /\ UNCHANGED <<client, loopVars>>
    /\ UNCHANGED <<toServer, service>>

Timeout(i) ==
    /\ Iterating /\ i \in Id /\ calls[i].pending
    /\ \A d \in DOMAIN stack : stack[d] # Frame("sync", i)
    /\ Completes(i, FALSE, Unknown)
    /\ UNCHANGED <<toServer, toClient, service>>

Without(s, k) == SubSeq(s, 1, k - 1) \o SubSeq(s, k + 1, Len(s))

(* call_sync and init wait for their own answer, past the messages that    *)
(* came before it, or for the timeout.                                     *)
SyncReturns(ok) ==
    /\ On("sync")
    /\ LET i == Top.id
           mine == {k \in DOMAIN toClient : toClient[k].type = "answer" /\ toClient[k].id = i}
       IN /\ calls' = Settled(i)
          /\ ready' = IF calls[i].kind = "init" THEN "yes" ELSE ready
          /\ \/ /\ ok
                /\ \E k \in mine :
                    /\ cache' = IF calls[i].kind = "init" /\ toClient[k].ok
                                THEN toClient[k].value ELSE cache
                    /\ toClient' = Without(toClient, k)
             \/ ~ok /\ UNCHANGED <<cache, toClient>>
    /\ stack' = Popped
    /\ UNCHANGED <<running, mainLoops, toServer, service>>

-----------------------------------------------------------------------------
(* What the handler of a method does, and what _handleMethodCall answers:  *)
(* a value; undefined from a method without results; a value that cannot   *)
(* be packed; a GLib.Error; no handler.  These leave the call without an   *)
(* answer: undefined from a method with results, or a variant of another   *)
(* type, which GDBus refuses with a warning; and any other exception, as   *)
(* logError is not defined in this scope.                                  *)
Outcomes == {"value", "empty", "unpackable", "gerror", "missing", "wrong_variant", "jserror"}

_handleMethodCall(o) ==
    CASE o \in {"value", "empty"} -> <<TRUE>>
      [] o \in {"unpackable", "gerror", "missing"} -> <<FALSE>>
      [] OTHER -> << >>

Answer(i, ok, v) == [type |-> "answer", id |-> i, ok |-> ok, value |-> v]
Changed(v)       == [type |-> "changed", id |-> 0, ok |-> TRUE, value |-> v]

Answers(i, oks, v) ==
    /\ toClient' = toClient \o [k \in DOMAIN oks |-> Answer(i, oks[k], v)]
    /\ calls' = [calls EXCEPT ![i].answers = @ + Len(oks)]

(* Mutant: a property that is outstanding already keeps its value.         *)
mutant_first_kept(v) == IF outstanding = None THEN v ELSE outstanding

Queued(v) == v

emit_property_changed(v) ==
    /\ outstanding' = Queued(v)
    /\ idle_source' = (idle_source \/ ~idle_id)
    /\ idle_id' = TRUE

(* The skeleton's method_call: a Sync handler is preferred to an Async one,*)
(* which keeps the invocation and answers when it likes.                   *)
method_call(i) ==
    \/ /\ \E o \in Outcomes : Answers(i, _handleMethodCall(o), Unknown)
       /\ UNCHANGED held
    \/ /\ held' = held \union {i}
       /\ UNCHANGED <<calls, toClient>>

(* property_set answers TRUE whether or not the setter threw; a setter     *)
(* that accepts the value announces it.                                    *)
property_set(i) ==
    \/ /\ value' = calls[i].value
       /\ emit_property_changed(calls[i].value)
       /\ Answers(i, <<TRUE>>, Unknown)
    \/ /\ toClient' = Append(toClient, Answer(i, TRUE, Unknown))
       /\ calls' = [calls EXCEPT ![i].answers = @ + 1, ![i].refused = TRUE]
       /\ UNCHANGED <<value, outstanding, idle_id, idle_source>>

ServerReceives ==
    /\ toServer # << >>
    /\ toServer' = Tail(toServer)
    /\ LET i == Head(toServer) IN
        \/ /\ calls[i].kind = "init"            \* property_get, for GetAll
           /\ Answers(i, <<TRUE>>, value)
           /\ UNCHANGED <<value, outstanding, idle_id, idle_source, held>>
        \/ /\ calls[i].kind \in {"method", "sync"}
           /\ method_call(i)
           /\ UNCHANGED <<value, outstanding, idle_id, idle_source>>
        \/ /\ calls[i].kind = "set"
           /\ property_set(i)
           /\ UNCHANGED held
    /\ UNCHANGED <<loopVars, cache, ready, changes>>

AsyncAnswers(i, ok) ==
    /\ i \in held
    /\ held' = held \ {i}
    /\ Answers(i, <<ok>>, Unknown)
    /\ UNCHANGED <<loopVars, cache, ready, toServer, value, outstanding, idle_id,
                   idle_source, changes>>

(* The service changes its property and says so, or that it changed.       *)
ServiceChanges(v, announced) ==
    /\ changes < MaxChanges /\ changes' = changes + 1
    /\ value' = v
    /\ emit_property_changed(announced)
    /\ UNCHANGED <<loopVars, client, toServer, toClient, held>>

(* Mutant: idle_id is not reset.                                           *)
mutant_idle_kept == idle_id

IdleAfterFlush == FALSE

(* idle_cb, or the service itself, flushes the skeleton.                   *)
flush ==
    /\ idle_source
    /\ toClient' = IF ready = "no" THEN toClient ELSE Append(toClient, Changed(outstanding))
    /\ outstanding' = None
    /\ idle_id' = IdleAfterFlush /\ idle_source' = FALSE
    /\ UNCHANGED <<loopVars, client, toServer, value, held, changes>>

-----------------------------------------------------------------------------
LoopStep == (RunReturns \/ CallbackReturns) /\ UNCHANGED <<client, toServer, toClient, service>>

Next ==
    \/ \E n \in Names, sync \in BOOLEAN : _makeProxyWrapper(n, sync) \/ _proxyInvoker(n, sync)
    \/ \E v \in Values : _propertySetter(v)
    \/ \E n \in Names : RunsLoop(n)
    \/ LoopStep \/ ClientReceives
    \/ \E i \in 1..MaxCalls : Timeout(i)
    \/ \E ok \in BOOLEAN : SyncReturns(ok)
    \/ ServerReceives
    \/ \E i \in 1..MaxCalls, ok \in BOOLEAN : AsyncAnswers(i, ok)
    \/ \E v \in Values, a \in {TRUE, FALSE} : ServiceChanges(v, IF a THEN v ELSE Unknown)
    \/ flush

(* Both processes run their loops, callbacks return, and timeouts expire.  *)
(* Nothing is promised of the program, nor of an Async method.             *)
Fairness ==
    /\ WF_vars(LoopStep) /\ WF_vars(ClientReceives)
    /\ WF_vars(SyncReturns(FALSE))
    /\ \A i \in 1..MaxCalls : WF_vars(Timeout(i))
    /\ WF_vars(ServerReceives) /\ WF_vars(flush)

Spec == Init /\ [][Next]_vars /\ Fairness

-----------------------------------------------------------------------------
(* The callback of a call is called once at most, whatever it throws, and  *)
(* whatever comes after the timeout, and never while its call is pending;  *)
(* and an invocation is answered once at most, for answering frees it.     *)
OnceEach ==
    \A i \in Id :
        /\ calls[i].told <= 1 /\ (calls[i].pending => calls[i].told = 0)
        /\ calls[i].answers <= 1 /\ (i \in held => calls[i].answers = 0)

(* A loop that has a name runs, so that quit stops one that runs: "Main    *)
(* loop was stopped already" is never thrown.                              *)
NamedLoopsRun ==
    \A n \in Names : mainLoops[n] # 0 =>
        /\ running[mainLoops[n]]
        /\ \E d \in DOMAIN stack : stack[d] = Frame("loop", mainLoops[n])

Quiet == toServer = << >> /\ toClient = << >> /\ outstanding = None

(* When nothing is on its way, the proxy has the property's value, or      *)
(* none, or one that it put there itself and the service refused.          *)
CacheAgrees ==
    Quiet /\ ready = "yes" =>
        \/ cache \in {value, Unknown}
        \/ \E i \in Id : calls[i].refused /\ cache = calls[i].value

(* A change is announced in the end.                                       *)
ChangesAnnounced == outstanding # None ~> outstanding = None

(* A loop that runs because of a call that has failed, so that nobody is   *)
(* left to quit it.                                                        *)
Forsaken(l) ==
    \E n \in Names :
        LET quitters == {i \in Id : calls[i].kind \in {"init", "method"} /\ calls[i].quits = n} IN
        /\ mainLoops[n] = l
        /\ \E i \in quitters : calls[i].kind = "method" /\ calls[i].told = 0
        /\ \A i \in quitters : ~calls[i].pending

(* Whatever the program waits for ends, however loops, callbacks and Sync  *)
(* calls are nested, and although handlers may leave calls unanswered; but *)
(* for a loop that only the callback of a failed call would have quit,     *)
(* which asyncCallback does not call.                                      *)
EveryWaitEnds ==
    \A d \in 1..2 * MaxCalls :
        Len(stack) >= d ~>
            \/ Len(stack) < d
            \/ \E k \in d..Len(stack) : stack[k].op = "loop" /\ Forsaken(stack[k].id)
=============================================================================
