--------------------------- MODULE CallbackInvoke ---------------------------
(***************************************************************************)
(* gi/function.cpp, the other direction: C calls a JavaScript function.    *)
(* gwkjs_callback_trampoline_new walks the introspected arguments of the   *)
(* callback once; gwkjs_callback_closure walks them to collect what        *)
(* JavaScript is passed, and again to write what it returned into the      *)
(* return value and the out arguments.  Values are abstracted to whether   *)
(* they convert and to which element of the result they are.               *)
(*                                                                         *)
(* The callables have the shape of FunctionInvoke's; kind is also "void",  *)
(* a pointer of any sort.  Position 0 is the return value.                 *)
(***************************************************************************)
EXTENDS Integers, Sequences, FiniteSets

CONSTANT Callables

(* A length is a number.                                                   *)
ASSUME CallablesAssumption ==
    \A c \in Callables :
        /\ c.returns \in BOOLEAN
        /\ Len(c.args) \in Nat
        /\ \A p \in 1..Len(c.args) :
            LET a == c.args[p] IN
            /\ a.dir \in {"in", "out", "inout"}
            /\ a.kind \in {"plain", "void", "callback", "destroy", "array"}
            /\ a.len \in 0..Len(c.args)
            /\ a.len # 0 => c.args[a.len].kind = "plain"

VARIABLES
    callable,           \* the introspected callback
    stage,              \* how far trampoline or closure have got
    at,                 \* the position of the loop under way
    types,              \* param_types of the trampoline
    jsargs,             \* the positions passed to JavaScript
    n_outargs,
    rval,               \* what JavaScript returned: "value", "array", "nothing"
    elem_idx,           \* elements of it that were used
    written             \* which element each position got

callbackVars == <<callable, stage, at, types, jsargs, n_outargs, rval, elem_idx, written>>

Params == 1..Len(callable.args)
param  == callable.args[at]

(* What a location holds: nothing yet, the neutral value, all of the       *)
(* result, or one of its elements (counted from 1).                        *)
Unwritten == -2
Default   == -1
Whole     == 0

CallbackInit ==
    /\ callable \in Callables
    /\ stage = "new" /\ at = 1
    /\ types = [p \in Params |-> "NORMAL"]
    /\ jsargs = << >> /\ n_outargs = 0 /\ rval = "nothing" /\ elem_idx = 0
    /\ written = [p \in Params \union {0} |-> Unwritten]

-----------------------------------------------------------------------------
(* gwkjs_callback_trampoline_new.                                          *)
Passed(p) == types[p] = "NORMAL" /\ callable.args[p].dir = "in"

(* A callback that takes a callback, or an array whose length goes the     *)
(* other way.                                                              *)
NotSupported ==
    /\ Passed(at)
    /\ \/ param.kind \in {"callback", "destroy"}
       \/ param.kind = "array" /\ param.len # 0 /\ callable.args[param.len].dir # "in"

TypesAfter ==
    IF Passed(at) /\ param.kind = "array" /\ param.len # 0
    THEN [types EXCEPT ![param.len] = "SKIPPED", ![at] = "ARRAY"] ELSE types

gwkjs_callback_trampoline_new ==
    /\ stage = "new" /\ at \in Params
    /\ stage' = IF NotSupported THEN "unsupported" ELSE "new"
    /\ types' = TypesAfter
    /\ at' = at + 1
    /\ UNCHANGED <<callable, jsargs, n_outargs, rval, elem_idx, written>>

(* C calls, once or again.                                                 *)
closure_entered ==
    /\ stage = "returned" \/ (stage = "new" /\ at \notin Params)
    /\ stage' = "collect" /\ at' = 1
    /\ jsargs' = << >> /\ n_outargs' = 0 /\ elem_idx' = 0
    /\ written' = [p \in Params \union {0} |-> Unwritten]
    /\ UNCHANGED <<callable, types, rval>>

-----------------------------------------------------------------------------
(* out: what failed returns a "hopefully neutral value".                   *)
Fail ==
    /\ stage' = "returned"
    /\ written' = [written EXCEPT ![0] = Default]

Pass ==
    /\ jsargs' = Append(jsargs, at)
    /\ stage' = stage /\ written' = written

PassNothing == UNCHANGED <<stage, jsargs, written>>

(* void pointers are not passed, and not counted when they are out.        *)
collect_void == param.kind = "void" /\ PassNothing /\ UNCHANGED n_outargs

collect_out ==
    /\ param.kind # "void" /\ param.dir = "out"
    /\ n_outargs' = n_outargs + 1
    /\ PassNothing

Counted == n_outargs' = n_outargs + (IF param.dir = "inout" THEN 1 ELSE 0)

collect_skipped ==
    /\ param.kind # "void" /\ param.dir # "out" /\ types[at] = "SKIPPED"
    /\ Counted /\ PassNothing

(* A length and an array, or a value.  An inout array with a length fails  *)
(* the assertion of gwkjs_value_from_g_argument, unless it is NULL.        *)
collect_value ==
    /\ param.kind # "void" /\ param.dir # "out" /\ types[at] # "SKIPPED"
    /\ Counted
    /\ \/ Pass
       \/ Fail /\ UNCHANGED jsargs
       \/ /\ param.kind = "array" /\ param.len # 0 /\ types[at] = "NORMAL"
          /\ stage' = "crashed" /\ UNCHANGED <<jsargs, written>>

collect ==
    /\ stage = "collect" /\ at \in Params
    /\ collect_void \/ collect_out \/ collect_skipped \/ collect_value
    /\ at' = at + 1
    /\ UNCHANGED <<callable, types, rval, elem_idx>>

(* Mutant: whether there is one result is asked of the out arguments.      *)
mutant_single_by_outs == IF n_outargs = 0 THEN "return" ELSE IF n_outargs = 1 THEN "argument" ELSE "elements"

(* A return value alone, or one out argument alone, is the result itself;  *)
(* otherwise it is an array of them.                                       *)
ResultIs ==
    CASE n_outargs = 0 /\ callable.returns  -> "return"
      [] n_outargs = 1 /\ ~callable.returns -> "argument"
      [] OTHER -> "elements"

(* The JavaScript function returns anything, or throws.                    *)
call ==
    /\ stage = "collect" /\ at \notin Params
    /\ \/ /\ stage' = ResultIs
          /\ rval' \in {"value", "array", "nothing"}
          /\ at' = IF ResultIs = "elements" /\ callable.returns THEN 0 ELSE 1
          /\ UNCHANGED written
       \/ Fail /\ UNCHANGED <<rval, at>>
    /\ UNCHANGED <<callable, types, jsargs, n_outargs, elem_idx>>

write_return ==
    /\ stage = "return"
    /\ \/ stage' = "returned" /\ written' = [written EXCEPT ![0] = Whole]
       \/ Fail
    /\ UNCHANGED <<callable, at, types, jsargs, n_outargs, rval, elem_idx>>

(* The first argument that is not in.                                      *)
write_argument ==
    /\ stage = "argument" /\ at \in Params
    /\ \/ param.dir = "in" /\ at' = at + 1 /\ UNCHANGED <<stage, written>>
       \/ /\ param.dir # "in" /\ UNCHANGED at
          /\ \/ stage' = "returned" /\ written' = [written EXCEPT ![at] = Whole]
             \/ Fail
    /\ UNCHANGED <<callable, types, jsargs, n_outargs, rval, elem_idx>>

Given == at # 0 /\ param.dir = "in"

(* null and undefined are no object, and reading an element of none ends   *)
(* the process.                                                            *)
write_element ==
    /\ stage = "elements" /\ at \in Params \union {0}
    /\ \/ /\ Given
          /\ at' = at + 1 /\ UNCHANGED <<stage, written, elem_idx>>
       \/ /\ ~Given
          /\ \/ /\ rval = "nothing" /\ stage' = "crashed"
                /\ UNCHANGED <<at, written, elem_idx>>
             \/ /\ rval # "nothing"
                /\ elem_idx' = elem_idx + 1
                /\ \/ /\ at' = at + 1 /\ UNCHANGED stage
                      /\ written' = [written EXCEPT ![at] = elem_idx + 1]
                   \/ Fail /\ UNCHANGED at
    /\ UNCHANGED <<callable, types, jsargs, n_outargs, rval>>

write_done ==
    /\ stage = "elements" /\ at \notin Params \union {0}
    /\ stage' = "returned"
    /\ UNCHANGED <<callable, at, types, jsargs, n_outargs, rval, elem_idx, written>>

CallbackNext ==
    \/ gwkjs_callback_trampoline_new \/ closure_entered \/ collect \/ call
    \/ write_return \/ write_argument \/ write_element \/ write_done

CallbackSpec == CallbackInit /\ [][CallbackNext]_callbackVars

-----------------------------------------------------------------------------
IsLength(p) ==
    \E q \in Params : callable.args[q].kind = "array" /\ callable.args[q].dir = "in" /\ callable.args[q].len = p

(* What JavaScript can be passed, and where a result goes.                 *)
Inputs  == {p \in Params : callable.args[p].dir # "out" /\ callable.args[p].kind # "void" /\ ~IsLength(p)}
Outputs == {p \in Params : callable.args[p].dir # "in"} \union (IF callable.returns THEN {0} ELSE {})

(* The place of p among the results, counted from 1.                       *)
Place(p) == Cardinality({q \in Outputs : q <= p})

(* A void pointer that is not in is written though it was not counted      *)
(* (README, known defects).                                                *)
VoidOutput == \E p \in Params : callable.args[p].kind = "void" /\ callable.args[p].dir # "in"

(* JavaScript gets every value that C passes, but for lengths and void     *)
(* pointers, in the order of the arguments; C gets every value JavaScript  *)
(* returns in the place of its position; and there is a return value also  *)
(* when something failed.                                                  *)
CallbackMatches ==
    /\ stage = "collect" /\ at \notin Params =>
        /\ {jsargs[k] : k \in DOMAIN jsargs} = Inputs
        /\ \A j, k \in DOMAIN jsargs : j < k => jsargs[j] < jsargs[k]
    /\ stage = "returned" /\ callable.returns => written[0] # Unwritten
    /\ stage = "returned" /\ written[0] # Default /\ ~VoidOutput =>
        \A p \in Outputs :
            written[p] = IF Cardinality(Outputs) = 1 THEN Whole ELSE Place(p)
=============================================================================
