----------------------------- MODULE Trampoline -----------------------------
(***************************************************************************)
(* gi/function.cpp: who keeps a GwkjsCallbackTrampoline alive.  A          *)
(* trampoline carries a JavaScript function into C as an ffi closure.  C   *)
(* may call the closure back during the call it was passed to              *)
(* (GI_SCOPE_TYPE_CALL), once, then or later (ASYNC), or until it calls    *)
(* the destroy notification (NOTIFIED).  The callback is JavaScript and    *)
(* may call C again, so calls and callbacks nest on one stack: "Not        *)
(* MT-safe, like all the rest of GWKJS".                                   *)
(***************************************************************************)
EXTENDS Integers, SequencesExt

CONSTANTS
    Trampolines,        \* memory for trampolines; never reused
    MaxDepth            \* bound: nested calls and callbacks

ASSUME TrampolineAssumption == MaxDepth \in Nat

Scopes == {"CALL", "ASYNC", "NOTIFIED"}
NoTrampoline == "none"
ASSUME NoTrampolineAssumption == NoTrampoline \notin Trampolines

VARIABLES
    scope,      \* scope of each trampoline; "unborn" before it is made
    ref_count,
    freed,      \* trampolines whose closure and struct are gone
    passed,     \* trampolines whose closure was an argument of a call
    heldByC,    \* those of them whose closure C may still call or destroy
    completed_trampolines,
    calls       \* C functions and closures running, innermost first

trampolineVars == <<scope, ref_count, freed, passed, heldByC, completed_trampolines, calls>>

(* in: a C function was invoked with trampoline tr as an argument; a       *)
(* closure is in JavaScript, or returning after its last unref.            *)
Calls == [in : {"c_function"}, tr : Trampolines \union {NoTrampoline}]
         \union [in : {"closure", "returning"}, tr : Trampolines]

TrampolineInit ==
    /\ scope = [tr \in Trampolines |-> "unborn"]
    /\ ref_count = [tr \in Trampolines |-> 0]
    /\ freed = {}
    /\ passed = {}
    /\ heldByC = {}
    /\ completed_trampolines = <<>>
    /\ calls = <<>>

(* JavaScript runs at the top level and in callbacks; C runs in the main   *)
(* loop, which is the top level too, and in the functions it is called for.*)
InJS == calls # <<>> => Head(calls).in = "closure"
InC  == calls # <<>> => Head(calls).in = "c_function"

Push(what, tr) == calls' = <<[in |-> what, tr |-> tr]>> \o calls

(* gwkjs_callback_trampoline_unref of the members of s, in a state where   *)
(* the reference counts are counts.                                        *)
UnrefEach(counts, s) ==
    LET after == [tr \in Trampolines |-> IF tr \in s THEN counts[tr] - 1 ELSE counts[tr]]
    IN /\ ref_count' = after
       /\ freed' = freed \union {tr \in s : after[tr] = 0}

-----------------------------------------------------------------------------
(* gwkjs_invoke_c_function: first the trampolines of completed             *)
(* asynchronous calls are released, then the arguments are converted.      *)

(* A function that takes no callback.                                      *)
gwkjs_invoke_c_function_plain ==
    /\ InJS /\ Len(calls) < MaxDepth
    /\ UnrefEach(ref_count, ToSet(completed_trampolines))
    /\ completed_trampolines' = <<>>
    /\ Push("c_function", NoTrampoline)
    /\ UNCHANGED <<scope, passed, heldByC>>

(* The reference count trampoline tr of scope s is given: its own, and     *)
(* "an extra reference that will be cleared when collecting async calls,   *)
(* or when GDestroyNotify is called".                                      *)
InitialCount(s) == IF s = "CALL" THEN 1 ELSE 2

(* gwkjs_callback_trampoline_new for a callback argument; the call is made *)
gwkjs_invoke_c_function(tr, s) ==
    /\ InJS /\ Len(calls) < MaxDepth /\ scope[tr] = "unborn"
    /\ scope' = [scope EXCEPT ![tr] = s]
    /\ UnrefEach([ref_count EXCEPT ![tr] = InitialCount(s)], ToSet(completed_trampolines))
    /\ completed_trampolines' = <<>>
    /\ passed' = passed \union {tr}
    /\ heldByC' = heldByC \union {tr}
    /\ Push("c_function", tr)

(* ... or a later argument does not convert: C never sees the closure, and *)
(* the release loop gives back one reference.                              *)
gwkjs_invoke_c_function_fails(tr, s) ==
    /\ InJS /\ Len(calls) < MaxDepth /\ scope[tr] = "unborn"
    /\ scope' = [scope EXCEPT ![tr] = s]
    /\ UnrefEach([ref_count EXCEPT ![tr] = InitialCount(s)],
                 ToSet(completed_trampolines) \union {tr})
    /\ completed_trampolines' = <<>>
    /\ UNCHANGED <<passed, heldByC, calls>>

(* The C function returns and the release loop runs.  A closure for the    *)
(* call only is of no use to C any more.                                   *)
release ==
    /\ calls # <<>> /\ Head(calls).in = "c_function"
    /\ LET tr == Head(calls).tr IN
        /\ UnrefEach(ref_count, {tr} \ {NoTrampoline})
        /\ heldByC' = heldByC \ {t \in {tr} \ {NoTrampoline} : scope[t] = "CALL"}
    /\ calls' = Tail(calls)
    /\ UNCHANGED <<scope, passed, completed_trampolines>>

-----------------------------------------------------------------------------
(* Mutant: the callback takes no reference of its own.                     *)
mutant_closure_takes_no_ref(tr) ==
    /\ InC /\ tr \in heldByC /\ Len(calls) < MaxDepth
    /\ heldByC' = heldByC \ (IF scope[tr] = "ASYNC" THEN {tr} ELSE {})
    /\ Push("closure", tr)
    /\ UNCHANGED <<scope, ref_count, freed, passed, completed_trampolines>>

(* C calls the closure: gwkjs_callback_closure up to the JavaScript call.  *)
gwkjs_callback_closure(tr) ==
    /\ InC /\ tr \in heldByC /\ Len(calls) < MaxDepth
    /\ ref_count' = [ref_count EXCEPT ![tr] = @ + 1]
    /\ heldByC' = heldByC \ (IF scope[tr] = "ASYNC" THEN {tr} ELSE {})
    /\ Push("closure", tr)
    /\ UNCHANGED <<scope, freed, passed, completed_trampolines>>

(* Mutant: nothing is deferred.                                            *)
mutant_not_deferred(tr) == completed_trampolines

Completed(tr) ==
    IF scope[tr] = "ASYNC" THEN <<tr>> \o completed_trampolines ELSE completed_trampolines

(* From its label out to its end: an asynchronous trampoline is put on the *)
(* list, then the reference taken at the start is given back.              *)
gwkjs_callback_closure_out ==
    /\ calls # <<>> /\ Head(calls).in = "closure"
    /\ LET tr == Head(calls).tr IN
        /\ completed_trampolines' = Completed(tr)
        /\ UnrefEach(ref_count, {tr})
        /\ calls' = <<[in |-> "returning", tr |-> tr]>> \o Tail(calls)
    /\ UNCHANGED <<scope, passed, heldByC>>

(* Back through the closure's code into C.                                 *)
ClosureReturns ==
    /\ calls # <<>> /\ Head(calls).in = "returning"
    /\ calls' = Tail(calls)
    /\ UNCHANGED <<scope, ref_count, freed, passed, heldByC, completed_trampolines>>

(* C is done with a notified callback: perhaps inside that callback, when  *)
(* its JavaScript removed the source it belongs to.                        *)
gwkjs_destroy_notify_callback(tr) ==
    /\ InC /\ tr \in heldByC /\ scope[tr] = "NOTIFIED"
    /\ heldByC' = heldByC \ {tr}
    /\ UnrefEach(ref_count, {tr})
    /\ UNCHANGED <<scope, passed, completed_trampolines, calls>>

TrampolineNext ==
    \/ \E tr \in Trampolines, s \in Scopes :
        gwkjs_invoke_c_function(tr, s) \/ gwkjs_invoke_c_function_fails(tr, s)
    \/ gwkjs_invoke_c_function_plain
    \/ release
    \/ \E tr \in Trampolines :
        gwkjs_callback_closure(tr) \/ gwkjs_destroy_notify_callback(tr)
    \/ gwkjs_callback_closure_out
    \/ ClosureReturns

TrampolineSpec == TrampolineInit /\ [][TrampolineNext]_trampolineVars

-----------------------------------------------------------------------------
TrampolineTypeOK ==
    /\ scope \in [Trampolines -> Scopes \union {"unborn"}]
    /\ ref_count \in [Trampolines -> Nat]
    /\ freed \in SUBSET Trampolines
    /\ passed \in SUBSET Trampolines /\ heldByC \in SUBSET passed
    /\ completed_trampolines \in Seq(Trampolines)
    /\ calls \in Seq(Calls)

Occurrences(s, x) == Cardinality({k \in DOMAIN s : s[k] = x})

(* The calls of C functions tr was passed to, and of its closure, that     *)
(* have not given back their reference.                                    *)
Passing(tr) == Occurrences(calls, [in |-> "c_function", tr |-> tr])
Running(tr) == Occurrences(calls, [in |-> "closure", tr |-> tr])

(* What still stands between a trampoline and its last unref.              *)
Claims(tr) ==
    Passing(tr) + Running(tr)
    + (IF tr \in heldByC /\ scope[tr] # "CALL" THEN 1 ELSE 0)
    + (IF scope[tr] = "ASYNC" THEN Running(tr) ELSE 0)
    + Occurrences(completed_trampolines, tr)

(* No call finds its trampoline gone: C never holds the closure of a freed *)
(* trampoline, none is freed while JavaScript runs in it or a release loop *)
(* still has to look at it, and the list of completed ones has only live   *)
(* ones.                                                                   *)
NoUseAfterFree ==
    \A tr \in freed :
        /\ tr \notin heldByC
        /\ ~Contains(completed_trampolines, tr)
        /\ \A k \in DOMAIN calls : calls[k].tr = tr => calls[k].in = "returning"

(* Every reference on a trampoline C was given will be given back by       *)
(* someone, so that when nothing refers to it any more it is freed and its *)
(* JavaScript function unprotected.                                        *)
EveryReferenceClaimed == TrampolineTypeOK /\ \A tr \in passed : ref_count[tr] = Claims(tr)

=============================================================================
