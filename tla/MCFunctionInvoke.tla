------------------------- MODULE MCFunctionInvoke -------------------------
(* Calls from JavaScript, and calls from C: every signature of             *)
(* up to MaxArgs arguments whose links mean something.                     *)
EXTENDS FunctionInvoke, CallbackInvoke, SequencesExt

CONSTANTS
    MaxArgs             \* bound: arguments of a function

Arg(kind, dir, len, closure, destroy) ==
    [kind |-> kind, dir |-> dir, len |-> len, closure |-> closure, destroy |-> destroy]

ArgumentsOf(n) ==
    {Arg("plain", d, 0, 0, 0) : d \in Directions}
    \union {Arg("struct", "out", 0, 0, 0), Arg("destroy", "in", 0, 0, 0)}
    \union {Arg("callback", "in", 0, c, d) : c, d \in 0..n}
    \union {Arg("array", d, l, 0, 0) : d \in Directions, l \in 0..n}

AllSignatures ==
    UNION {{s \in [args : [1..n -> ArgumentsOf(n)], returns : BOOLEAN, return_len : 0..n,
                   is_method : {TRUE}, can_throw_gerror : {TRUE}] :
              Meaningful(s.args, s.return_len) /\ (s.return_len # 0 => s.returns)}
           : n \in 0..MaxArgs}

(* Callbacks: what is not an array is a pointer, a value or a callback.    *)
CallbackArguments(n) ==
    {Arg(kind, d, 0, 0, 0) : kind \in {"plain", "void"}, d \in Directions}
    \union {Arg("callback", "in", 0, 0, 0)}
    \union {Arg("array", d, l, 0, 0) : d \in Directions, l \in 0..n}

AllCallables ==
    UNION {{[args |-> args, returns |-> returns] :
                args \in {a \in [1..n -> CallbackArguments(n)] : Meaningful(a, 0)}, returns \in BOOLEAN} :
           n \in 0..MaxArgs}

-----------------------------------------------------------------------------
MCInit ==
    \/ /\ Init
       /\ callable = [args |-> << >>, returns |-> FALSE] /\ stage = "no" /\ at = 0 /\ types = << >>
       /\ jsargs = << >> /\ n_outargs = 0 /\ rval = "nothing" /\ elem_idx = 0
       /\ written = [p \in {0} |-> Default]
    \/ /\ CallbackInit
       /\ function = [args |-> << >>, returns |-> FALSE, return_len |-> 0,
                      is_method |-> FALSE, can_throw_gerror |-> FALSE]
       /\ pc = "unsupported" /\ pos = 1 /\ param_types = << >> /\ expected_js_argc = 0 /\ js_out_argc = 0
       /\ js_argc = 0 /\ js_arg_pos = 0 /\ processed = 0 /\ allocated = {} /\ failed = FALSE
       /\ postinvoke_release_failed = FALSE /\ did_throw_gerror = FALSE /\ next_rval = 0

MCNext ==
    \/ Next /\ UNCHANGED callbackVars
    \/ CallbackNext /\ UNCHANGED vars

MCSpec == MCInit /\ [][MCNext]_<<vars, callbackVars>>
=============================================================================
