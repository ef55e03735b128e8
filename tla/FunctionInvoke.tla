--------------------------- MODULE FunctionInvoke ---------------------------
(***************************************************************************)
(* gi/function.cpp: the argument accounting of a call from JavaScript to   *)
(* C.  init_cached_function_data walks the introspected arguments once and *)
(* works out which of them JavaScript passes and which it gets back;       *)
(* gwkjs_invoke_c_function walks them twice for each call, to convert and  *)
(* to release.  Each loop is a sequence of steps here, one per argument;   *)
(* values are abstracted to whether they convert, and memory to the set of *)
(* positions for which the call owns a temporary.                          *)
(*                                                                         *)
(* Positions count from 1 and do not include the instance of a method      *)
(* (gi_arg_pos); 0 stands for the -1 of libgirepository, "there is none".  *)
(***************************************************************************)
EXTENDS Integers, Sequences, FiniteSets

CONSTANT Signatures     \* the introspected functions

(* An argument: kind is "plain", "struct" (caller-allocated, out),         *)
(* "callback", "destroy" (a GDestroyNotify) or "array"; len is where the   *)
(* length of an array is, closure and destroy where the user data and the  *)
(* destroy notification of a callback are.                                 *)
Kinds == {"plain", "struct", "callback", "destroy", "array"}
Directions == {"in", "out", "inout"}

Arguments == [kind : Kinds, dir : Directions, len : Nat, closure : Nat, destroy : Nat]

ASSUME SignaturesAssumption ==
    \A s \in Signatures :
        /\ s.args \in Seq(Arguments)
        /\ \A p \in DOMAIN s.args :
            LET a == s.args[p] IN {a.len, a.closure, a.destroy} \subseteq 0..Len(s.args)
        /\ s.returns \in BOOLEAN /\ s.return_len \in 0..Len(s.args)
        /\ s.is_method \in BOOLEAN /\ s.can_throw_gerror \in BOOLEAN

(* Lengths and user data are plain arguments, the latter passed in; a      *)
(* destroy notification is one, a callback is passed in; nothing is both a *)
(* length and user data.  No two arrays have one length, and user data     *)
(* comes after its callback: the code counts wrongly in the signatures     *)
(* where this is not so (README, known defects).                           *)
Meaningful(args, return_len) ==
    LET Pos == DOMAIN args
        lengths == {args[p].len : p \in Pos} \union {return_len}
        data == {args[p].closure : p \in Pos}
    IN /\ \A p \in (lengths \union data) \ {0} : args[p].kind = "plain"
       /\ \A p \in data \ {0} : args[p].dir = "in"
       /\ lengths \intersect data \subseteq {0}
       /\ return_len # 0 => args[return_len].dir = "out"
       /\ \A p \in Pos : args[p].destroy # 0 => args[args[p].destroy].kind = "destroy"
       /\ \A p \in Pos : args[p].kind = "callback" => args[p].dir = "in"
       /\ \A p, q \in Pos : p # q /\ args[p].len # 0 => args[p].len # args[q].len
       /\ \A p \in Pos : args[p].len # 0 => args[p].len # return_len
       /\ \A p \in Pos : args[p].closure # 0 => args[p].closure > p

VARIABLES
    function,           \* the function called
    pc,                 \* where its caching or its call has got to
    pos,                \* gi_arg_pos of the loop under way
    param_types,
    expected_js_argc,
    js_out_argc,
    js_argc,            \* arguments JavaScript passed
    js_arg_pos,         \* arguments of them consumed
    processed,          \* processed_c_args, without the instance
    allocated,          \* positions for which the call owns a C temporary
    failed,
    postinvoke_release_failed,
    did_throw_gerror,
    next_rval

counts == <<param_types, expected_js_argc, js_out_argc>>
values == <<js_argc, js_arg_pos, processed, allocated>>
result == <<failed, postinvoke_release_failed, did_throw_gerror, next_rval>>
vars   == <<function, pc, pos, counts, values, result>>

n_args == Len(function.args)
arg    == function.args[pos]
Positions == 1..n_args

Takes(dir) == dir \in {"in", "inout"}
Gives(dir) == dir \in {"out", "inout"}
Count(condition) == IF condition THEN 1 ELSE 0

Init ==
    /\ function \in Signatures
    /\ pc = "cache" /\ pos = 1
    /\ param_types = [p \in Positions |->
            IF p = function.return_len THEN "SKIPPED" ELSE "NORMAL"]
    /\ expected_js_argc = 0
    /\ js_out_argc = Count(function.returns)
    /\ js_argc = 0 /\ js_arg_pos = 0 /\ processed = 0
    /\ allocated = {}
    /\ failed = FALSE /\ postinvoke_release_failed = FALSE
    /\ did_throw_gerror = FALSE /\ next_rval = 0

-----------------------------------------------------------------------------
(* init_cached_function_data: its loop.                                    *)

Skip(ps) == [p \in Positions |-> IF p \in ps THEN "SKIPPED" ELSE param_types[p]]

cache_skipped ==
    /\ param_types[pos] = "SKIPPED"
    /\ UNCHANGED counts

cache_destroy ==
    /\ param_types[pos] # "SKIPPED" /\ arg.kind = "destroy"
    /\ param_types' = Skip({pos})
    /\ UNCHANGED <<expected_js_argc, js_out_argc>>

cache_callback ==
    /\ param_types[pos] # "SKIPPED" /\ arg.kind = "callback"
    /\ param_types' = [Skip({arg.destroy, arg.closure}) EXCEPT ![pos] = "CALLBACK"]
    /\ expected_js_argc' = expected_js_argc + 1
    /\ UNCHANGED js_out_argc

(* Mutant: an inout argument is taken for an out argument.                 *)
mutant_inout_not_taken ==
    /\ param_types[pos] # "SKIPPED"
    /\ arg.kind \in {"plain", "struct"} \/ (arg.kind = "array" /\ arg.len = 0)
    /\ expected_js_argc' = expected_js_argc + Count(arg.dir = "in")
    /\ js_out_argc' = js_out_argc + Count(Gives(arg.dir))
    /\ UNCHANGED param_types

EarlyLength(counted) == Count(counted /\ arg.len < pos)

(* A length already passed over was counted then, and is taken off again.  *)
cache_array ==
    /\ param_types[pos] # "SKIPPED" /\ arg.kind = "array" /\ arg.len # 0
    /\ param_types' = [Skip({arg.len}) EXCEPT ![pos] = "ARRAY"]
    /\ expected_js_argc' = expected_js_argc + Count(Takes(arg.dir))
                           - EarlyLength(Takes(arg.dir))
    /\ js_out_argc' = js_out_argc + Count(Gives(arg.dir))
                      - EarlyLength(Gives(arg.dir))

cache_normal ==
    /\ param_types[pos] # "SKIPPED"
    /\ arg.kind \in {"plain", "struct"} \/ (arg.kind = "array" /\ arg.len = 0)
    /\ expected_js_argc' = expected_js_argc + Count(Takes(arg.dir))
    /\ js_out_argc' = js_out_argc + Count(Gives(arg.dir))
    /\ UNCHANGED param_types

(* A GDestroyNotify without user data, or an array and its length in       *)
(* different directions, cannot be called from JavaScript.                 *)
Unsupported ==
    /\ param_types[pos] # "SKIPPED"
    /\ \/ arg.kind = "callback" /\ arg.destroy # 0 /\ arg.closure = 0
       \/ arg.kind = "array" /\ arg.len # 0 /\ function.args[arg.len].dir # arg.dir

init_cached_function_data ==
    /\ pc = "cache" /\ pos <= n_args
    /\ \/ /\ ~Unsupported
          /\ cache_skipped \/ cache_destroy \/ cache_callback \/ cache_array \/ cache_normal
          /\ pos' = pos + 1
          /\ UNCHANGED pc
       \/ /\ Unsupported
          /\ pc' = "unsupported"
          /\ UNCHANGED <<pos, counts>>
    /\ UNCHANGED <<function, values, result>>

(* function_new and gwkjs_define_function: what could be cached is given a *)
(* name; what is unsupported stays undefined.                              *)
gwkjs_define_function ==
    /\ pc = "cache" /\ pos > n_args
    /\ pc' = "defined"
    /\ UNCHANGED <<function, pos, counts, values, result>>

(* function_to_string names the arguments to pass.                         *)
NamedArguments == {p \in Positions : param_types[p] # "SKIPPED" /\ function.args[p].dir # "out"}

-----------------------------------------------------------------------------
(* gwkjs_invoke_c_function.                                                *)

(* function_call, and the call up to its first loop.  JavaScript passes as *)
(* many arguments as it likes, modelled as one fewer than expected, as     *)
(* expected or one more; and it may call again what it has called.         *)
function_call ==
    /\ pc \in {"defined", "returned"}
    /\ js_argc' \in (expected_js_argc - 1)..(expected_js_argc + 1) /\ js_argc' >= 0
    /\ \/ /\ js_argc' < expected_js_argc
          /\ pc' = "returned" /\ failed' = TRUE
       \/ /\ js_argc' >= expected_js_argc
          /\ pc' = "convert" /\ failed' = FALSE
       \/ /\ function.is_method                  \* gwkjs_fill_method_instance fails
          /\ js_argc' >= expected_js_argc
          /\ pc' = "returned" /\ failed' = TRUE
    /\ pos' = 1 /\ js_arg_pos' = 0 /\ processed' = 0 /\ allocated' = {}
    /\ postinvoke_release_failed' = FALSE /\ did_throw_gerror' = FALSE /\ next_rval' = 0
    /\ UNCHANGED <<function, counts>>

(* This argument is done and the next one is due ...                       *)
Converted(used) ==
    /\ pos' = pos + 1 /\ processed' = processed + 1
    /\ js_arg_pos' = js_arg_pos + used
    /\ UNCHANGED <<pc, failed>>

(* ... or it is not, and release starts with what was done before it.      *)
ConversionFailed ==
    /\ failed' = TRUE /\ pc' = "release" /\ pos' = 1
    /\ UNCHANGED <<js_arg_pos, processed>>

(* A failing g_assert ends the process.                                    *)
Abort ==
    /\ pc' = "aborted"
    /\ UNCHANGED <<pos, values, result>>

convert_out ==
    /\ arg.dir = "out"
    /\ \/ Converted(0)
          /\ allocated' = allocated \union (IF arg.kind = "struct" THEN {pos} ELSE {})
       \/ arg.kind = "struct" /\ ConversionFailed /\ UNCHANGED allocated

(* null gives no trampoline; what is not a function is refused.            *)
convert_callback ==
    /\ Takes(arg.dir) /\ param_types[pos] = "CALLBACK"
    /\ \A p \in {arg.destroy, arg.closure} \ {0} : param_types[p] = "SKIPPED"
    /\ \/ Converted(1) /\ allocated' \in {allocated, allocated \union {pos}}
       \/ ConversionFailed /\ UNCHANGED allocated

(* gwkjs_callback_trampoline_new makes none if the callback takes another, *)
(* or an array whose length goes the other way: NULL is dereferenced.      *)
convert_unsupported_callback ==
    /\ Takes(arg.dir) /\ param_types[pos] = "CALLBACK"
    /\ pc' = "crashed"
    /\ UNCHANGED <<pos, values, result>>

convert_skipped ==
    /\ Takes(arg.dir) /\ param_types[pos] = "SKIPPED"
    /\ Converted(0)
    /\ UNCHANGED allocated

(* gwkjs_value_to_explicit_array (null gives no array), then the length,   *)
(* which may be out of its type's range.                                   *)
convert_array ==
    /\ Takes(arg.dir) /\ param_types[pos] = "ARRAY"
    /\ \/ Converted(1) \/ ConversionFailed
    /\ allocated' \in {allocated, allocated \union {pos}}

convert_normal ==
    /\ Takes(arg.dir) /\ param_types[pos] = "NORMAL"
    /\ js_arg_pos < js_argc
    /\ \/ Converted(1) /\ allocated' = allocated \union {pos}
       \/ ConversionFailed /\ UNCHANGED allocated

ConvertAsserts ==
    Takes(arg.dir) =>
        /\ param_types[pos] = "NORMAL" => js_arg_pos < js_argc
        /\ param_types[pos] = "CALLBACK" =>
                \A p \in {arg.destroy, arg.closure} \ {0} : param_types[p] = "SKIPPED"

invoke_convert ==
    /\ pc = "convert" /\ pos <= n_args
    /\ \/ /\ ConvertAsserts
          /\ convert_out \/ convert_callback \/ convert_skipped \/ convert_array \/ convert_normal
          /\ UNCHANGED <<js_argc, postinvoke_release_failed, did_throw_gerror, next_rval>>
       \/ convert_unsupported_callback
       \/ ~ConvertAsserts /\ Abort
    /\ UNCHANGED <<function, counts>>

(* ffi_call, and the conversion of the return value unless C set an error. *)
invoke_ffi_call ==
    /\ pc = "convert" /\ pos > n_args
    /\ pc' = "release" /\ pos' = 1
    /\ did_throw_gerror' \in (IF function.can_throw_gerror THEN BOOLEAN ELSE {FALSE})
    /\ \/ /\ function.returns /\ ~did_throw_gerror' /\ js_out_argc > 0
          /\ failed' \in BOOLEAN
          /\ next_rval' = next_rval + 1
       \/ /\ ~(function.returns /\ ~did_throw_gerror' /\ js_out_argc > 0)
          /\ UNCHANGED <<failed, next_rval>>
    /\ UNCHANGED <<function, counts, values, postinvoke_release_failed>>

(* Mutant: in arguments are only released after a call that went well.     *)
mutant_releases_on_success == Takes(arg.dir) /\ param_types[pos] # "SKIPPED" /\ ~failed

(* The release loop goes as far as the conversion got.  An in argument is  *)
(* released in any case; an out argument is converted, and its slice freed,*)
(* only if the call succeeded so far.                                      *)
ReleasesIn == Takes(arg.dir) /\ param_types[pos] # "SKIPPED"
ConvertsOut == /\ Gives(arg.dir) /\ param_types[pos] # "SKIPPED"
               /\ ~did_throw_gerror /\ ~failed

invoke_release ==
    /\ pc = "release" /\ pos <= processed
    /\ \/ /\ ConvertsOut => next_rval < js_out_argc
          /\ allocated' = allocated \ (IF ReleasesIn \/ ConvertsOut THEN {pos} ELSE {})
          /\ next_rval' = next_rval + Count(ConvertsOut)
          /\ \/ UNCHANGED postinvoke_release_failed
             \/ (ReleasesIn \/ ConvertsOut) /\ postinvoke_release_failed' = TRUE
          /\ pos' = pos + 1
          /\ UNCHANGED <<pc, js_argc, js_arg_pos, processed,
                         failed, did_throw_gerror>>
       \/ ConvertsOut /\ next_rval >= js_out_argc /\ Abort
    /\ UNCHANGED <<function, counts>>

invoke_return ==
    /\ pc = "release" /\ pos > processed
    /\ failed' = (failed \/ postinvoke_release_failed)
    /\ pc' = IF failed' \/ did_throw_gerror \/ next_rval = js_out_argc
             THEN "returned" ELSE "aborted"
    /\ UNCHANGED <<function, pos, counts, values, postinvoke_release_failed,
                   did_throw_gerror, next_rval>>

Next ==
    \/ init_cached_function_data \/ gwkjs_define_function
    \/ function_call \/ invoke_convert \/ invoke_ffi_call \/ invoke_release \/ invoke_return

Spec == Init /\ [][Next]_vars

-----------------------------------------------------------------------------
TypeOK ==
    /\ pc \in {"cache", "unsupported", "defined", "convert", "release", "returned", "crashed",
              "aborted"}
    /\ pos \in 1..(n_args + 1)
    /\ param_types \in [Positions -> {"NORMAL", "SKIPPED", "CALLBACK", "ARRAY"}]
    /\ expected_js_argc \in 0..n_args /\ js_out_argc \in 0..(n_args + 1)
    /\ js_arg_pos \in Nat /\ processed \in 0..n_args
    /\ allocated \subseteq Positions

(* No g_assert of the call fails: the converting loop reads only arguments *)
(* that were passed, the out values counted when caching are the ones      *)
(* found when releasing, and every user data and destroy notification has  *)
(* been taken from JavaScript.                                             *)
AssertionsHold == pc # "aborted"

(* function.cpp:745: "we don't allow too few args, since that would        *)
(* break": no argument the conversion is about to read is missing.         *)
ReadsOnlyPassed ==
    pc = "convert" /\ pos <= n_args /\ Takes(arg.dir) /\ param_types[pos] # "SKIPPED"
        => js_arg_pos < js_argc

(* function.cpp:738: expected_js_argc "is the number of arguments we       *)
(* expect the JS function to take (which does not include PARAM_SKIPPED    *)
(* args)": a call that converts all its arguments consumes exactly those,  *)
(* and toString() names them.                                              *)
ExpectedExact ==
    /\ pc = "convert" /\ pos > n_args => js_arg_pos = expected_js_argc
    /\ pc = "defined" => Cardinality(NamedArguments) = expected_js_argc

(* However lengths, user data and destroy notifications are woven into the *)
(* signature, the counts made when it was cached fit the call.             *)
ArgumentsMatch == TypeOK /\ AssertionsHold /\ ReadsOnlyPassed /\ ExpectedExact

(* A call that succeeds has given back every temporary it made.            *)
SuccessReleasesAll ==
    pc = "returned" /\ ~failed /\ ~did_throw_gerror => allocated = {}

(* function.cpp:1008: "In arguments need to be released always": on every  *)
(* path out of the call, but for the argument whose own conversion failed  *)
(* half-way, which the release loop does not reach.                        *)
InArgumentsReleased ==
    pc = "returned" => \A p \in allocated :
        Takes(function.args[p].dir) => failed /\ p = processed + 1

(* What a call allocated for its arguments is given back.                  *)
ArgumentsReleased == SuccessReleasesAll /\ InArgumentsReleased
=============================================================================
