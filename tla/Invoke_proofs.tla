--------------------------- MODULE Invoke_proofs ---------------------------
(* Safety of FunctionInvoke and of CallbackInvoke for functions and        *)
(* callbacks of any number of arguments, and of Trampoline.                *)
EXTENDS FunctionInvoke, CallbackInvoke, Trampoline, FiniteSetTheorems, SequenceTheorems, TLAPS

TakenDirs == {"in", "inout"}
GivenDirs == {"out", "inout"}

(* The arguments among the first n of which JavaScript passes (dirs are    *)
(* TakenDirs) or gets (GivenDirs) a value; ts are the types cached.        *)
With(args, ts, n, dirs) == {p \in 1..n : ts[p] # "SKIPPED" /\ args[p].dir \in dirs}

(* The arguments that argument q makes superfluous.                        *)
Links(args, q) ==
    IF args[q].kind = "callback" THEN {args[q].destroy, args[q].closure}
    ELSE IF args[q].kind = "array" THEN {args[q].len} ELSE {}

(* What is known after the first n arguments of f have been cached: why an *)
(* argument is skipped, which types were given, and that the counts fit.   *)
Explained(f, ts, n) ==
    /\ \A p \in DOMAIN f.args : ts[p] = "SKIPPED" =>
            \/ p = f.return_len \/ f.args[p].kind = "destroy"
            \/ \E q \in 1..n : p \in Links(f.args, q)
    /\ \A p \in 1..n : f.args[p].kind = "destroy" => ts[p] = "SKIPPED"
    /\ \A p \in DOMAIN f.args : ts[p] = "CALLBACK" =>
            /\ p <= n
            /\ \A x \in {f.args[p].destroy, f.args[p].closure} \ {0} : ts[x] = "SKIPPED"
    /\ \A p \in DOMAIN f.args : ts[p] = "ARRAY" => p <= n

CountsFit(f, ts, expected, outs, n) ==
    /\ expected = Cardinality(With(f.args, ts, n, TakenDirs))
    /\ outs = Count(f.returns) + Cardinality(With(f.args, ts, n, GivenDirs))

Cached(n) ==
    /\ Explained(function, param_types, n)
    /\ CountsFit(function, param_types, expected_js_argc, js_out_argc, n)

(* The call owns temporaries only for arguments that the release loop      *)
(* treats.                                                                 *)
Converting ==
    /\ processed = pos - 1 /\ ~failed /\ ~did_throw_gerror /\ next_rval = 0
    /\ js_argc \in Nat /\ js_argc >= expected_js_argc
    /\ js_arg_pos = Cardinality(With(function.args, param_types, pos - 1, TakenDirs))
    /\ \A p \in allocated : p < pos /\ param_types[p] # "SKIPPED"

(* What is still allocated is ahead of the release loop, but for an out    *)
(* argument of a call that went wrong and the argument that failed.        *)
Releasing ==
    /\ pos <= processed + 1
    /\ \A p \in allocated :
        /\ p <= processed \/ (p = processed + 1 /\ failed)
        /\ p < pos => ~Takes(function.args[p].dir) /\ (failed \/ did_throw_gerror)
        /\ param_types[p] # "SKIPPED"
    /\ ~failed /\ ~did_throw_gerror =>
        /\ processed = n_args
        /\ next_rval = Count(function.returns)
                       + Cardinality(With(function.args, param_types, pos - 1, GivenDirs))

IInv ==
    /\ function \in Signatures
    /\ TypeOK
    /\ failed \in BOOLEAN /\ did_throw_gerror \in BOOLEAN /\ postinvoke_release_failed \in BOOLEAN
    /\ pc # "aborted"
    /\ pc = "cache" => Cached(pos - 1)
    /\ pc \in {"defined", "convert", "release", "returned"} => Cached(n_args)
    /\ pc = "convert" => Converting
    /\ pc = "release" => Releasing
    /\ pc = "returned" => SuccessReleasesAll /\ InArgumentsReleased

MeaningfulSignatures == \A s \in Signatures : Meaningful(s.args, s.return_len)

-----------------------------------------------------------------------------
(* Counting arguments.                                                     *)
LEMMA WithFinite ==
    ASSUME NEW args, NEW ts, NEW n \in Nat, NEW dirs
    PROVE  /\ IsFiniteSet(With(args, ts, n, dirs))
           /\ Cardinality(With(args, ts, n, dirs)) \in 0..n
<1>1. IsFiniteSet(1..n) /\ Cardinality(1..n) = n
  BY FS_Interval
<1>2. With(args, ts, n, dirs) \subseteq 1..n
  BY DEF With
<1>3. /\ IsFiniteSet(With(args, ts, n, dirs))
      /\ Cardinality(With(args, ts, n, dirs)) <= n
  BY <1>1, <1>2, FS_Subset
<1> QED
  BY <1>3, FS_CardinalityType

LEMMA WithNone ==
    ASSUME NEW args, NEW ts, NEW dirs
    PROVE  Cardinality(With(args, ts, 0, dirs)) = 0
<1>1. With(args, ts, 0, dirs) = {}
  BY DEF With
<1> QED
  BY <1>1, FS_EmptySet

(* One more argument; those before it are skipped as they were.            *)
SameSkips(ts, us, n) == \A q \in 1..n : us[q] = "SKIPPED" <=> ts[q] = "SKIPPED"

LEMMA WithNext ==
    ASSUME NEW args, NEW ts, NEW us, NEW n \in Nat, n > 0, NEW dirs, SameSkips(ts, us, n - 1)
    PROVE  Cardinality(With(args, us, n, dirs)) =
           Cardinality(With(args, ts, n - 1, dirs))
           + (IF us[n] # "SKIPPED" /\ args[n].dir \in dirs THEN 1 ELSE 0)
<1> DEFINE S == With(args, ts, n - 1, dirs)
<1>1. IsFiniteSet(S) /\ Cardinality(S) \in Nat /\ n \notin S
  <2>1. n - 1 \in Nat
    OBVIOUS
  <2>2. IsFiniteSet(S) /\ Cardinality(S) \in 0..(n - 1)
    BY <2>1, WithFinite
  <2> QED
    BY <2>2 DEF With
<1>2. CASE us[n] # "SKIPPED" /\ args[n].dir \in dirs
  <2>1. With(args, us, n, dirs) = S \union {n}
    BY <1>2 DEF With, SameSkips
  <2>2. Cardinality(S \union {n}) = Cardinality(S) + 1
    BY <1>1, FS_AddElement
  <2> QED
    BY <1>2, <2>1, <2>2
<1>3. CASE ~(us[n] # "SKIPPED" /\ args[n].dir \in dirs)
  <2>1. With(args, us, n, dirs) = S
    BY <1>3 DEF With, SameSkips
  <2> QED
    BY <1>1, <1>3, <2>1
<1> QED
  BY <1>2, <1>3

(* The same where argument l, counted so far, becomes superfluous.         *)
LEMMA WithLess ==
    ASSUME NEW args, NEW ts, NEW us, NEW n \in Nat, NEW dirs, NEW l \in 1..n,
           ts[l] # "SKIPPED", us[l] = "SKIPPED",
           \A q \in 1..n : q # l => (us[q] = "SKIPPED" <=> ts[q] = "SKIPPED")
    PROVE  Cardinality(With(args, us, n, dirs)) =
           Cardinality(With(args, ts, n, dirs)) - (IF args[l].dir \in dirs THEN 1 ELSE 0)
<1> DEFINE S == With(args, ts, n, dirs)
<1>1. IsFiniteSet(S) /\ Cardinality(S) \in Nat
  BY WithFinite
<1>2. With(args, us, n, dirs) = S \ {l}
  BY DEF With
<1>3. CASE args[l].dir \in dirs
  <2>1. l \in S
    BY <1>3 DEF With
  <2>2. Cardinality(S \ {l}) = Cardinality(S) - 1
    BY <1>1, <2>1, FS_RemoveElement
  <2> QED
    BY <1>2, <1>3, <2>2
<1>4. CASE args[l].dir \notin dirs
  <2>1. S \ {l} = S
    BY <1>4 DEF With
  <2> QED
    <3>1. Cardinality(With(args, us, n, dirs)) = Cardinality(S)
      BY <1>2, <2>1
    <3> QED
      BY <1>1, <1>4, <3>1
<1> QED
  BY <1>3, <1>4

(* Not all are counted before the last one that counts.                    *)
LEMMA WithMore ==
    ASSUME NEW args, NEW ts, NEW n \in Nat, NEW dirs, NEW p \in 1..n,
           ts[p] # "SKIPPED", args[p].dir \in dirs
    PROVE  Cardinality(With(args, ts, p - 1, dirs)) < Cardinality(With(args, ts, n, dirs))
<1> DEFINE S == With(args, ts, p - 1, dirs)
<1>1. S \union {p} \subseteq With(args, ts, n, dirs) /\ p \notin S
  BY DEF With
<1>2. IsFiniteSet(S) /\ Cardinality(S) \in Nat
  BY WithFinite
<1>3. Cardinality(S \union {p}) = Cardinality(S) + 1
  BY <1>1, <1>2, FS_AddElement
<1>4. IsFiniteSet(With(args, ts, n, dirs)) /\ Cardinality(With(args, ts, n, dirs)) \in Nat
  BY WithFinite
<1>5. Cardinality(S \union {p}) <= Cardinality(With(args, ts, n, dirs))
  BY <1>1, <1>4, FS_Subset
<1> QED
  BY <1>2, <1>3, <1>4, <1>5

-----------------------------------------------------------------------------
(* A signature.                                                            *)
LEMMA SignatureFacts ==
    ASSUME NEW s \in Signatures
    PROVE  /\ s.args \in Seq(Arguments) /\ Len(s.args) \in Nat /\ DOMAIN s.args = 1..Len(s.args)
           /\ \A p \in DOMAIN s.args :
                /\ s.args[p].kind \in Kinds /\ s.args[p].dir \in Directions
                /\ s.args[p].len \in 0..Len(s.args)
                /\ s.args[p].closure \in 0..Len(s.args)
                /\ s.args[p].destroy \in 0..Len(s.args)
           /\ s.returns \in BOOLEAN /\ s.return_len \in 0..Len(s.args)
<1>1. s.args \in Seq(Arguments)
  BY SignaturesAssumption
<1>2. \A p \in DOMAIN s.args : s.args[p] \in Arguments
  BY <1>1
<1> QED
  BY <1>1, <1>2, SignaturesAssumption DEF Arguments

LEMMA MeaningfulFacts ==
    ASSUME MeaningfulSignatures, NEW s \in Signatures, NEW p \in DOMAIN s.args
    PROVE  /\ s.args[p].len # 0 =>
                /\ s.args[s.args[p].len].kind = "plain"
                /\ s.args[p].len # s.return_len
                /\ \A q \in DOMAIN s.args : q # p => s.args[q].len # s.args[p].len
                /\ \A q \in DOMAIN s.args : s.args[q].closure # s.args[p].len
           /\ s.args[p].closure # 0 =>
                s.args[s.args[p].closure].kind = "plain" /\ s.args[p].closure > p
           /\ s.args[p].destroy # 0 => s.args[s.args[p].destroy].kind = "destroy"
           /\ s.args[p].kind = "callback" => s.args[p].dir = "in"
           /\ s.return_len # 0 => s.args[s.return_len].kind = "plain"
<1>1. Meaningful(s.args, s.return_len)
  BY DEF MeaningfulSignatures
<1>2. \A q \in DOMAIN s.args : s.args[q].len # 0 => s.args[s.args[q].len].kind = "plain"
  BY <1>1 DEF Meaningful
<1>3. \A q \in DOMAIN s.args : s.args[q].closure # 0 => s.args[s.args[q].closure].kind = "plain"
  BY <1>1 DEF Meaningful
<1>4. \A q \in DOMAIN s.args : s.args[q].len # 0 => s.args[q].len # s.return_len
  BY <1>1 DEF Meaningful
<1>5. \A q, r \in DOMAIN s.args : q # r /\ s.args[q].len # 0 => s.args[q].len # s.args[r].len
  BY <1>1 DEF Meaningful
<1>6. \A q, r \in DOMAIN s.args : s.args[q].len # 0 => s.args[r].closure # s.args[q].len
  BY <1>1 DEF Meaningful
<1>7. s.return_len # 0 => s.args[s.return_len].kind = "plain"
  BY <1>1 DEF Meaningful
<1>8. /\ \A q \in DOMAIN s.args : s.args[q].closure # 0 => s.args[q].closure > q
      /\ \A q \in DOMAIN s.args : s.args[q].destroy # 0 => s.args[s.args[q].destroy].kind = "destroy"
      /\ \A q \in DOMAIN s.args : s.args[q].kind = "callback" => s.args[q].dir = "in"
  BY <1>1 DEF Meaningful
<1> QED
  BY <1>2, <1>3, <1>4, <1>5, <1>6, <1>7, <1>8

(* Only plain arguments and destroy notifications are superfluous.         *)
LEMMA SkippedKinds ==
    ASSUME MeaningfulSignatures, NEW s \in Signatures, NEW ts, NEW n \in 0..Len(s.args),
           Explained(s, ts, n), NEW p \in DOMAIN s.args, ts[p] = "SKIPPED"
    PROVE  s.args[p].kind \in {"plain", "destroy"}
<1>1. CASE p = s.return_len
  <2>1. p # 0
    BY SignatureFacts
  <2> QED
    BY <1>1, <2>1, MeaningfulFacts
<1>2. CASE \E q \in 1..n : p \in Links(s.args, q)
  <2>1. PICK q \in 1..n : p \in Links(s.args, q)
    BY <1>2
  <2>2. q \in DOMAIN s.args /\ p # 0
    BY SignatureFacts
  <2>3. /\ s.args[q].len = p => s.args[p].kind = "plain"
        /\ s.args[q].closure = p => s.args[p].kind = "plain"
        /\ s.args[q].destroy = p => s.args[p].kind = "destroy"
    BY <2>2, MeaningfulFacts
  <2> QED
    BY <2>1, <2>3 DEF Links
<1> QED
  BY <1>1, <1>2 DEF Explained

-----------------------------------------------------------------------------
(* Initially nothing is cached.                                            *)
LEMMA InitInv == Init => IInv
<1> SUFFICES ASSUME Init PROVE IInv
  OBVIOUS
<1>1. /\ function \in Signatures /\ n_args \in Nat /\ Positions = 1..n_args
      /\ DOMAIN function.args = Positions /\ function.returns \in BOOLEAN
  BY SignatureFacts DEF Init, n_args, Positions
<1>2. \A p \in Positions : param_types[p] = IF p = function.return_len THEN "SKIPPED" ELSE "NORMAL"
  BY DEF Init
<1>3. Explained(function, param_types, 0)
  BY <1>1, <1>2 DEF Explained
<1>4. /\ Cardinality(With(function.args, param_types, 0, TakenDirs)) = 0
      /\ Cardinality(With(function.args, param_types, 0, GivenDirs)) = 0
  BY WithNone
<1>5. CountsFit(function, param_types, expected_js_argc, js_out_argc, 0)
  BY <1>4 DEF CountsFit, Init, Count
<1>6. TypeOK
  BY <1>1, <1>2 DEF Init, TypeOK, Count
<1>7. pos - 1 = 0
  BY DEF Init
<1> QED
  BY <1>1, <1>3, <1>5, <1>6, <1>7 DEF Init, IInv, Cached

(* What the state tells of the function called.                            *)
LEMMA CallFacts ==
    ASSUME IInv
    PROVE  /\ function \in Signatures /\ function.args \in Seq(Arguments)
           /\ n_args = Len(function.args) /\ n_args \in Nat /\ Positions = 1..n_args
           /\ DOMAIN function.args = Positions
           /\ \A p \in Positions : function.args[p].kind \in Kinds /\ function.args[p].dir \in Directions
           /\ function.returns \in BOOLEAN
           /\ param_types \in [Positions -> {"NORMAL", "SKIPPED", "CALLBACK", "ARRAY"}]
           /\ pos \in 1..(n_args + 1)
BY SignatureFacts DEF IInv, n_args, Positions, TypeOK

-----------------------------------------------------------------------------
(* One argument is cached.  ts and us are the types before and after.      *)
LEMMA CacheSkipped ==
    ASSUME NEW s \in Signatures, NEW ts, NEW p \in DOMAIN s.args,
           NEW e \in Nat, NEW j \in Nat,
           Explained(s, ts, p - 1), CountsFit(s, ts, e, j, p - 1), ts[p] = "SKIPPED"
    PROVE  Explained(s, ts, p) /\ CountsFit(s, ts, e, j, p)
<1>1. p \in Nat /\ p > 0 /\ Len(s.args) \in Nat /\ DOMAIN s.args = 1..Len(s.args)
  BY SignatureFacts
<1>2. \A q \in 1..p : q \in 1..(p - 1) \/ q = p
  BY <1>1
<1>3. \A q \in 1..(p - 1) : q \in 1..p
  BY <1>1
<1>4. \A q \in DOMAIN s.args : q <= p - 1 => q <= p
  BY <1>1
<1>5. Explained(s, ts, p)
  <2>1. \A q \in DOMAIN s.args : ts[q] = "SKIPPED" =>
            \/ q = s.return_len \/ s.args[q].kind = "destroy"
            \/ \E r \in 1..p : q \in Links(s.args, r)
    BY <1>3 DEF Explained
  <2>2. \A q \in 1..p : s.args[q].kind = "destroy" => ts[q] = "SKIPPED"
    BY <1>2 DEF Explained
  <2>3. \A q \in DOMAIN s.args : ts[q] = "CALLBACK" =>
            /\ q <= p
            /\ \A x \in {s.args[q].destroy, s.args[q].closure} \ {0} : ts[x] = "SKIPPED"
    BY <1>4 DEF Explained
  <2>4. \A q \in DOMAIN s.args : ts[q] = "ARRAY" => q <= p
    BY <1>4 DEF Explained
  <2> QED
    BY <2>1, <2>2, <2>3, <2>4 DEF Explained
<1>6. ASSUME NEW dirs
      PROVE  Cardinality(With(s.args, ts, p, dirs)) = Cardinality(With(s.args, ts, p - 1, dirs)) + 0
  <2>1. SameSkips(ts, ts, p - 1)
    BY DEF SameSkips
  <2>2. Cardinality(With(s.args, ts, p, dirs)) =
            Cardinality(With(s.args, ts, p - 1, dirs))
            + (IF ts[p] # "SKIPPED" /\ s.args[p].dir \in dirs THEN 1 ELSE 0)
    <3>1. p \in Nat /\ p > 0
      BY <1>1
    <3> QED
      BY ONLY <2>1, <3>1, WithNext
  <2> QED
    BY <2>2
<1>7. CountsFit(s, ts, e, j, p)
  <2>1. /\ Cardinality(With(s.args, ts, p - 1, TakenDirs)) = e
        /\ j = Count(s.returns) + Cardinality(With(s.args, ts, p - 1, GivenDirs))
    BY DEF CountsFit
  <2>2. p - 1 \in Nat
    BY <1>1
  <2>3. Cardinality(With(s.args, ts, p - 1, GivenDirs)) \in Nat
    BY <2>2, WithFinite
  <2> QED
    BY <1>6, <2>1, <2>3 DEF CountsFit
<1> QED
  BY <1>5, <1>7

(* The types after one more argument: those of ps are skipped, and p has   *)
(* type t.                                                                 *)
Retyped(s, ts, us, p, ps, t) ==
    \A q \in DOMAIN s.args : us[q] = IF q = p THEN t ELSE IF q \in ps THEN "SKIPPED" ELSE ts[q]

LEMMA RetypedExplained ==
    ASSUME MeaningfulSignatures, NEW s \in Signatures, NEW ts, NEW us, NEW p \in DOMAIN s.args,
           NEW ps, NEW t \in {"NORMAL", "SKIPPED", "CALLBACK", "ARRAY"},
           Explained(s, ts, p - 1), ts[p] # "SKIPPED", Retyped(s, ts, us, p, ps, t),
           ps \subseteq Links(s.args, p),
           t = "SKIPPED" => s.args[p].kind = "destroy",
           s.args[p].kind = "destroy" => t = "SKIPPED",
           t = "CALLBACK" => {s.args[p].destroy, s.args[p].closure} \subseteq ps /\ s.args[p].kind = "callback"
    PROVE  Explained(s, us, p)
<1>1. /\ p \in Nat /\ p > 0 /\ Len(s.args) \in Nat /\ DOMAIN s.args = 1..Len(s.args)
      /\ \A q \in DOMAIN s.args : /\ s.args[q].destroy \in 0..Len(s.args)
                                  /\ s.args[q].closure \in 0..Len(s.args)
  BY SignatureFacts
<1>2. \A q \in 1..p : q \in 1..(p - 1) \/ q = p
  BY <1>1
<1>3. \A q \in 1..(p - 1) : q \in 1..p /\ q \in DOMAIN s.args
  BY <1>1
<1>4. \A q \in DOMAIN s.args : q <= p - 1 => q <= p
  BY <1>1
<1>5. \A q \in DOMAIN s.args : us[q] = IF q = p THEN t ELSE IF q \in ps THEN "SKIPPED" ELSE ts[q]
  BY DEF Retyped
<1>6. p \in 1..p
  BY <1>1
<1>7. ASSUME NEW q \in DOMAIN s.args, us[q] = "SKIPPED"
      PROVE  \/ q = s.return_len \/ s.args[q].kind = "destroy"
             \/ \E r \in 1..p : q \in Links(s.args, r)
  <2>1. CASE q = p
    BY <1>5, <1>7, <2>1
  <2>2. CASE q # p /\ q \in ps
    BY <1>6, <2>2
  <2>3. CASE q # p /\ q \notin ps
    BY <1>3, <1>5, <1>7, <2>3 DEF Explained
  <2> QED
    BY <2>1, <2>2, <2>3
<1>8. ASSUME NEW q \in 1..p, s.args[q].kind = "destroy" PROVE us[q] = "SKIPPED"
  <2>1. CASE q = p
    BY <1>5, <1>8, <2>1
  <2>2. CASE q # p
    <3>1. q \in 1..(p - 1) /\ q \in DOMAIN s.args
      BY <1>2, <1>3, <2>2
    <3> QED
      BY <1>5, <1>8, <2>2, <3>1 DEF Explained
  <2> QED
    BY <2>1, <2>2
<1>9. ASSUME NEW q \in DOMAIN s.args, us[q] = "CALLBACK"
      PROVE  /\ q <= p
             /\ \A x \in {s.args[q].destroy, s.args[q].closure} \ {0} : us[x] = "SKIPPED"
  <2>1. \A x \in {s.args[q].destroy, s.args[q].closure} \ {0} : x \in DOMAIN s.args
    BY <1>1
  <2>2. CASE q = p
    <3>1. s.args[p].kind = "callback"
      BY <1>5, <1>9, <2>2
    <3>2. s.args[p].destroy # p /\ s.args[p].closure # p
      BY <1>1, <3>1, MeaningfulFacts
    <3>3. \A x \in {s.args[q].destroy, s.args[q].closure} \ {0} : x \in ps /\ x # p
      BY <1>5, <1>9, <2>2, <3>2
    <3> QED
      BY SMTT(30), <1>1, <1>5, <2>1, <2>2, <3>3
  <2>3. CASE q # p
    <3>1. ts[q] = "CALLBACK"
      BY <1>5, <1>9, <2>3
    <3>2. q <= p - 1 /\ \A x \in {s.args[q].destroy, s.args[q].closure} \ {0} : ts[x] = "SKIPPED"
      BY <3>1 DEF Explained
    <3> QED
      BY <1>4, <1>5, <2>1, <3>2
  <2> QED
    BY <2>2, <2>3
<1>10. ASSUME NEW q \in DOMAIN s.args, us[q] = "ARRAY" PROVE q <= p
  <2>1. CASE q = p
    BY <1>1, <2>1
  <2>2. CASE q # p
    <3>1. ts[q] = "ARRAY"
      BY <1>5, <1>10, <2>2
    <3> QED
      BY <1>4, <3>1 DEF Explained
  <2> QED
    BY <2>1, <2>2
<1> QED
  BY <1>7, <1>8, <1>9, <1>10 DEF Explained

(* How the count moves: by this argument, and by a length that was counted.*)
Moves(s, ts, us, p, dirs, d) ==
    Cardinality(With(s.args, us, p, dirs)) = Cardinality(With(s.args, ts, p - 1, dirs)) + d

Goes(s, p, dirs) == IF s.args[p].dir \in dirs THEN 1 ELSE 0

(* What argument p makes superfluous was already, or is still to come.     *)
PassedSkipped(ts, p, ps) == \A q \in 1..(p - 1) : q \in ps => ts[q] = "SKIPPED"

LEMMA RetypedCounted ==
    ASSUME NEW s \in Signatures, NEW ts, NEW us, NEW p \in DOMAIN s.args,
           NEW ps, NEW t, NEW dirs, Retyped(s, ts, us, p, ps, t), PassedSkipped(ts, p, ps),
           NEW d, d = IF t # "SKIPPED" THEN Goes(s, p, dirs) ELSE 0
    PROVE  Moves(s, ts, us, p, dirs, d)
<1>1. p \in Nat /\ p > 0 /\ Len(s.args) \in Nat /\ DOMAIN s.args = 1..Len(s.args)
  BY SignatureFacts
<1>2. \A q \in 1..(p - 1) : q \in DOMAIN s.args /\ q # p
  BY <1>1
<1>3. SameSkips(ts, us, p - 1)
  BY <1>2 DEF Retyped, SameSkips, PassedSkipped
<1>4. us[p] = t
  BY DEF Retyped
<1>5. Cardinality(With(s.args, us, p, dirs)) =
        Cardinality(With(s.args, ts, p - 1, dirs)) + (IF us[p] # "SKIPPED" /\ s.args[p].dir \in dirs THEN 1 ELSE 0)
  BY <1>1, <1>3, WithNext
<1> QED
  BY <1>4, <1>5 DEF Moves, Goes

LEMMA RetypedUncounted ==
    ASSUME NEW s \in Signatures, NEW ts, NEW us, NEW p \in DOMAIN s.args,
           NEW l \in 1..(p - 1), NEW t, NEW dirs, Retyped(s, ts, us, p, {l}, t),
           ts[l] # "SKIPPED", t # "SKIPPED"
    PROVE  Moves(s, ts, us, p, dirs, Goes(s, p, dirs) - Goes(s, l, dirs))
<1>1. /\ p \in Nat /\ p > 0 /\ Len(s.args) \in Nat /\ DOMAIN s.args = 1..Len(s.args)
      /\ p - 1 \in Nat
  BY SignatureFacts
<1>2. \A q \in 1..(p - 1) : q \in DOMAIN s.args /\ q # p
  BY <1>1
<1>3. us[l] = "SKIPPED" /\ us[p] = t
  BY <1>2 DEF Retyped
<1>4. \A q \in 1..(p - 1) : q # l => (us[q] = "SKIPPED" <=> ts[q] = "SKIPPED")
  BY <1>2 DEF Retyped
<1>5. Cardinality(With(s.args, us, p - 1, dirs)) =
        Cardinality(With(s.args, ts, p - 1, dirs)) - (IF s.args[l].dir \in dirs THEN 1 ELSE 0)
  <2>1. ts[l] # "SKIPPED" /\ us[l] = "SKIPPED"
    BY <1>3
  <2> QED
    BY ONLY <1>1, <1>4, <2>1, l \in 1..(p - 1), WithLess
<1>6. Cardinality(With(s.args, us, p, dirs)) =
        Cardinality(With(s.args, us, p - 1, dirs)) + (IF us[p] # "SKIPPED" /\ s.args[p].dir \in dirs THEN 1 ELSE 0)
  <2>1. SameSkips(us, us, p - 1)
    BY DEF SameSkips
  <2> QED
    BY <1>1, <2>1, WithNext
<1>7. Cardinality(With(s.args, ts, p - 1, dirs)) \in Nat
  BY <1>1, WithFinite
<1> QED
  BY <1>3, <1>5, <1>6, <1>7 DEF Moves, Goes

LEMMA CountedNext ==
    ASSUME NEW s, NEW ts, NEW p \in Nat, p > 0, NEW dirs,
           NEW d, d = IF ts[p] # "SKIPPED" THEN Goes(s, p, dirs) ELSE 0
    PROVE  Moves(s, ts, ts, p, dirs, d)
<1> DEFINE S == With(s.args, ts, p - 1, dirs)
<1>1. IsFiniteSet(S) /\ Cardinality(S) \in Nat /\ p \notin S
  <2>1. p - 1 \in Nat
    OBVIOUS
  <2>2. IsFiniteSet(S) /\ Cardinality(S) \in 0..(p - 1)
    BY <2>1, WithFinite
  <2> QED
    BY <2>2 DEF With
<1>2. CASE ts[p] # "SKIPPED" /\ s.args[p].dir \in dirs
  <2>1. With(s.args, ts, p, dirs) = S \union {p}
    BY <1>2 DEF With
  <2>2. Cardinality(S \union {p}) = Cardinality(S) + 1
    BY <1>1, FS_AddElement
  <2> QED
    BY <1>2, <2>1, <2>2 DEF Moves, Goes
<1>3. CASE ~(ts[p] # "SKIPPED" /\ s.args[p].dir \in dirs)
  <2>1. With(s.args, ts, p, dirs) = S
    BY <1>3 DEF With
  <2>2. d = 0
    BY <1>3 DEF Goes
  <2> QED
    BY <1>1, <2>1, <2>2 DEF Moves
<1> QED
  BY <1>2, <1>3

LEMMA CountsTyped ==
    ASSUME NEW s \in Signatures, NEW ts, NEW e, NEW j, NEW n \in 0..Len(s.args),
           CountsFit(s, ts, e, j, n)
    PROVE  e \in 0..Len(s.args) /\ j \in 0..(Len(s.args) + 1) /\ e <= n
<1>1. n \in Nat /\ Len(s.args) \in Nat
  BY SignatureFacts
<1>2. /\ Cardinality(With(s.args, ts, n, TakenDirs)) \in 0..n
      /\ Cardinality(With(s.args, ts, n, GivenDirs)) \in 0..n
  BY <1>1, WithFinite
<1>3. Count(s.returns) \in 0..1
  BY DEF Count
<1> QED
  BY <1>1, <1>2, <1>3 DEF CountsFit

(* The counts after one more argument, from how the two sets have grown.   *)
LEMMA CountsMove ==
    ASSUME NEW s \in Signatures, NEW ts, NEW us, NEW p \in DOMAIN s.args,
           NEW e, NEW j, CountsFit(s, ts, e, j, p - 1),
           NEW de \in Int, NEW dj \in Int,
           Moves(s, ts, us, p, TakenDirs, de), Moves(s, ts, us, p, GivenDirs, dj),
           NEW f, NEW k, f = e + de, k = j + dj
    PROVE  CountsFit(s, us, f, k, p)
<1>1. p - 1 \in Nat
  BY SignatureFacts
<1>2. /\ Cardinality(With(s.args, ts, p - 1, TakenDirs)) \in Nat
      /\ Cardinality(With(s.args, ts, p - 1, GivenDirs)) \in Nat
  BY <1>1, WithFinite
<1>3. Count(s.returns) \in Nat
  BY DEF Count
<1> QED
  BY <1>2, <1>3 DEF CountsFit, Moves

LEMMA GoesTyped ==
    ASSUME NEW s, NEW p
    PROVE  /\ Goes(s, p, TakenDirs) = Count(Takes(s.args[p].dir)) /\ Goes(s, p, TakenDirs) \in Int
           /\ Goes(s, p, GivenDirs) = Count(Gives(s.args[p].dir)) /\ Goes(s, p, GivenDirs) \in Int
BY DEF Goes, Count, Takes, Gives, TakenDirs, GivenDirs

LEMMA CacheDestroy ==
    ASSUME MeaningfulSignatures, IInv, pos \in Positions, Cached(pos - 1), cache_destroy
    PROVE  /\ Explained(function, param_types', pos)
           /\ CountsFit(function, param_types', expected_js_argc', js_out_argc', pos)
<1> DEFINE s == function
           ts == param_types
           us == param_types'
<1>1. /\ s \in Signatures /\ DOMAIN s.args = Positions /\ pos \in DOMAIN s.args
      /\ expected_js_argc \in Nat /\ js_out_argc \in Nat
  BY CallFacts DEF IInv, TypeOK
<1>2. /\ ts[pos] # "SKIPPED" /\ s.args[pos].kind = "destroy" /\ us = Skip({pos})
      /\ expected_js_argc' = expected_js_argc /\ js_out_argc' = js_out_argc
  BY DEF cache_destroy, arg
<1>3. Retyped(s, ts, us, pos, {}, "SKIPPED")
  BY <1>1, <1>2 DEF Retyped, Skip
<1>4. Explained(s, ts, pos - 1) /\ CountsFit(s, ts, expected_js_argc, js_out_argc, pos - 1)
  BY DEF Cached
<1>5. Explained(s, us, pos)
  BY <1>1, <1>2, <1>3, <1>4, RetypedExplained
<1>6. PassedSkipped(ts, pos, {})
  BY DEF PassedSkipped
<1>7. /\ Moves(s, ts, us, pos, TakenDirs, 0)
      /\ Moves(s, ts, us, pos, GivenDirs, 0)
  BY ONLY <1>1, <1>3, <1>6, RetypedCounted
<1>8. expected_js_argc' = expected_js_argc + 0 /\ js_out_argc' = js_out_argc + 0
  BY <1>1, <1>2
<1>9. CountsFit(s, us, expected_js_argc', js_out_argc', pos)
  BY ONLY <1>1, <1>4, <1>7, <1>8, 0 \in Int, CountsMove
<1> QED
  BY <1>5, <1>9

LEMMA CacheCallback ==
    ASSUME MeaningfulSignatures, IInv, pos \in Positions, Cached(pos - 1), cache_callback
    PROVE  /\ Explained(function, param_types', pos)
           /\ CountsFit(function, param_types', expected_js_argc', js_out_argc', pos)
<1> DEFINE s == function
           ts == param_types
           us == param_types'
           ps == {s.args[pos].destroy, s.args[pos].closure}
<1>1. /\ s \in Signatures /\ DOMAIN s.args = Positions /\ pos \in DOMAIN s.args
      /\ n_args \in Nat /\ Positions = 1..n_args
      /\ expected_js_argc \in Nat /\ js_out_argc \in Nat
  BY CallFacts DEF IInv, TypeOK
<1>2. /\ ts[pos] # "SKIPPED" /\ s.args[pos].kind = "callback"
      /\ us = [Skip(ps) EXCEPT ![pos] = "CALLBACK"]
      /\ expected_js_argc' = expected_js_argc + 1 /\ js_out_argc' = js_out_argc
  BY DEF cache_callback, arg
<1>3. Retyped(s, ts, us, pos, ps, "CALLBACK")
  BY <1>1, <1>2 DEF Retyped, Skip
<1>4. Explained(s, ts, pos - 1) /\ CountsFit(s, ts, expected_js_argc, js_out_argc, pos - 1)
  BY DEF Cached
<1>5. Explained(s, us, pos)
  <2>1. ps = Links(s.args, pos)
    BY <1>2 DEF Links
  <2> QED
    BY <1>1, <1>2, <1>3, <1>4, <2>1, RetypedExplained
<1>6. /\ s.args[pos].dir = "in"
      /\ s.args[pos].closure # 0 => s.args[pos].closure > pos
      /\ s.args[pos].destroy # 0 => s.args[s.args[pos].destroy].kind = "destroy"
  BY <1>1, <1>2, MeaningfulFacts
<1>7. ASSUME NEW q \in 1..(pos - 1), q \in ps PROVE ts[q] = "SKIPPED"
  <2>1. q # 0 /\ ~(q > pos)
    BY <1>1
  <2>2. q = s.args[pos].destroy /\ s.args[q].kind = "destroy"
    BY <1>6, <1>7, <2>1
  <2> QED
    BY <1>4, <2>2 DEF Explained
<1>8. PassedSkipped(ts, pos, ps)
  BY <1>7 DEF PassedSkipped
<1>9. /\ Moves(s, ts, us, pos, TakenDirs, Goes(s, pos, TakenDirs))
      /\ Moves(s, ts, us, pos, GivenDirs, Goes(s, pos, GivenDirs))
  <2> DEFINE t == "CALLBACK"
  <2>1. t # "SKIPPED" /\ Retyped(s, ts, us, pos, ps, t)
    BY <1>3
  <2> HIDE DEF t, ps
  <2>2. Moves(s, ts, us, pos, TakenDirs, Goes(s, pos, TakenDirs))
    BY ONLY <1>1, <1>8, <2>1, RetypedCounted
  <2>3. Moves(s, ts, us, pos, GivenDirs, Goes(s, pos, GivenDirs))
    BY ONLY <1>1, <1>8, <2>1, RetypedCounted
  <2> QED
    BY <2>2, <2>3
<1>10. Goes(s, pos, TakenDirs) = 1 /\ Goes(s, pos, GivenDirs) = 0
  BY <1>6 DEF Goes, TakenDirs, GivenDirs
<1>11. expected_js_argc' = expected_js_argc + 1 /\ js_out_argc' = js_out_argc + 0
  BY <1>1, <1>2
<1>12. CountsFit(s, us, expected_js_argc', js_out_argc', pos)
  BY ONLY <1>1, <1>4, <1>9, <1>10, <1>11, 0 \in Int, 1 \in Int, CountsMove
<1> QED
  BY <1>5, <1>12

LEMMA CacheNormal ==
    ASSUME MeaningfulSignatures, IInv, pos \in Positions, Cached(pos - 1), cache_normal
    PROVE  /\ Explained(function, param_types', pos)
           /\ CountsFit(function, param_types', expected_js_argc', js_out_argc', pos)
<1> DEFINE s == function
           ts == param_types
<1>1. /\ s \in Signatures /\ DOMAIN s.args = Positions /\ pos \in DOMAIN s.args
      /\ n_args \in Nat /\ Positions = 1..n_args
      /\ ts \in [Positions -> {"NORMAL", "SKIPPED", "CALLBACK", "ARRAY"}]
      /\ expected_js_argc \in Nat /\ js_out_argc \in Nat
  BY CallFacts DEF IInv, TypeOK
<1>2. /\ ts[pos] # "SKIPPED" /\ s.args[pos].kind # "destroy" /\ param_types' = ts
      /\ expected_js_argc' = expected_js_argc + Count(Takes(s.args[pos].dir))
      /\ js_out_argc' = js_out_argc + Count(Gives(s.args[pos].dir))
  BY DEF cache_normal, arg
<1>4. Explained(s, ts, pos - 1) /\ CountsFit(s, ts, expected_js_argc, js_out_argc, pos - 1)
  BY DEF Cached
<1>5. ts[pos] = "NORMAL"
  <2>1. ~(pos <= pos - 1)
    BY <1>1
  <2> QED
    BY <1>1, <1>2, <1>4, <2>1 DEF Explained
<1>3. Retyped(s, ts, ts, pos, {}, "NORMAL")
  BY <1>5 DEF Retyped
<1>6. Explained(s, ts, pos)
  BY <1>1, <1>2, <1>3, <1>4, RetypedExplained
<1>7. PassedSkipped(ts, pos, {})
  BY DEF PassedSkipped
<1>8. /\ Moves(s, ts, ts, pos, TakenDirs, Goes(s, pos, TakenDirs))
      /\ Moves(s, ts, ts, pos, GivenDirs, Goes(s, pos, GivenDirs))
  <2> DEFINE t == "NORMAL"
  <2>1. t # "SKIPPED" /\ Retyped(s, ts, ts, pos, {}, t)
    BY <1>3
  <2> HIDE DEF t
  <2>2. Moves(s, ts, ts, pos, TakenDirs, Goes(s, pos, TakenDirs))
    BY ONLY <1>1, <1>7, <2>1, RetypedCounted
  <2>3. Moves(s, ts, ts, pos, GivenDirs, Goes(s, pos, GivenDirs))
    BY ONLY <1>1, <1>7, <2>1, RetypedCounted
  <2> QED
    BY <2>2, <2>3
<1>9. /\ expected_js_argc' = expected_js_argc + Goes(s, pos, TakenDirs)
      /\ js_out_argc' = js_out_argc + Goes(s, pos, GivenDirs)
  BY <1>2, GoesTyped
<1>10. CountsFit(s, ts, expected_js_argc', js_out_argc', pos)
  BY ONLY <1>1, <1>4, <1>8, <1>9, GoesTyped, CountsMove
<1> QED
  BY <1>2, <1>6, <1>10

(* An array whose length was passed over: nothing else made it superfluous,*)
(* so it was counted, in the array's own direction.                        *)
LEMMA CacheArray ==
    ASSUME MeaningfulSignatures, IInv, pos \in Positions, Cached(pos - 1), cache_array, ~Unsupported
    PROVE  /\ Explained(function, param_types', pos)
           /\ CountsFit(function, param_types', expected_js_argc', js_out_argc', pos)
<1> DEFINE s == function
           ts == param_types
           us == param_types'
           l  == s.args[pos].len
<1>1. /\ s \in Signatures /\ DOMAIN s.args = Positions /\ pos \in DOMAIN s.args
      /\ n_args \in Nat /\ Positions = 1..n_args /\ n_args = Len(s.args)
      /\ expected_js_argc \in Nat /\ js_out_argc \in Nat
  BY CallFacts DEF IInv, TypeOK
<1>2. /\ ts[pos] # "SKIPPED" /\ s.args[pos].kind = "array" /\ l # 0
      /\ us = [Skip({l}) EXCEPT ![pos] = "ARRAY"]
      /\ expected_js_argc' = expected_js_argc + Count(Takes(s.args[pos].dir))
                             - Count(Takes(s.args[pos].dir) /\ l < pos)
      /\ js_out_argc' = js_out_argc + Count(Gives(s.args[pos].dir))
                        - Count(Gives(s.args[pos].dir) /\ l < pos)
  BY DEF cache_array, arg, EarlyLength
<1>3. Retyped(s, ts, us, pos, {l}, "ARRAY")
  BY <1>1, <1>2 DEF Retyped, Skip
<1>4. Explained(s, ts, pos - 1) /\ CountsFit(s, ts, expected_js_argc, js_out_argc, pos - 1)
  BY DEF Cached
<1>5. Explained(s, us, pos)
  <2>1. {l} = Links(s.args, pos)
    BY <1>2 DEF Links
  <2> QED
    BY <1>1, <1>2, <1>3, <1>4, <2>1, RetypedExplained
<1>6. /\ l \in 1..n_args /\ s.args[l].kind = "plain" /\ l # s.return_len
      /\ \A q \in DOMAIN s.args : q # pos => s.args[q].len # l
      /\ \A q \in DOMAIN s.args : s.args[q].closure # l
  BY <1>1, <1>2, MeaningfulFacts, SignatureFacts
<1>7. l # pos
  BY <1>2, <1>6
<1>8. s.args[l].dir = s.args[pos].dir
  BY <1>2 DEF Unsupported, arg
<1>9. ASSUME l < pos PROVE ts[l] # "SKIPPED"
  <2> SUFFICES ASSUME ts[l] = "SKIPPED" PROVE FALSE
    OBVIOUS
  <2>1. l \in DOMAIN s.args
    BY <1>1, <1>6
  <2>2. PICK q \in 1..(pos - 1) : l \in Links(s.args, q)
    BY <1>4, <1>6, <2>1 DEF Explained
  <2>3. q \in DOMAIN s.args /\ q # pos
    BY <1>1
  <2>4. s.args[q].destroy # l
    BY <1>1, <1>2, <1>6, <2>3, MeaningfulFacts
  <2> QED
    BY <1>6, <2>2, <2>3, <2>4 DEF Links
<1>10. CASE l < pos
  <2>1. l \in 1..(pos - 1) /\ ts[l] # "SKIPPED" /\ "ARRAY" # "SKIPPED"
    BY <1>1, <1>6, <1>9, <1>10
  <2>2. /\ Moves(s, ts, us, pos, TakenDirs, Goes(s, pos, TakenDirs) - Goes(s, l, TakenDirs))
        /\ Moves(s, ts, us, pos, GivenDirs, Goes(s, pos, GivenDirs) - Goes(s, l, GivenDirs))
    <3> HIDE DEF l
    <3> QED
      BY ONLY <1>1, <1>3, <2>1, RetypedUncounted
  <2>3. Goes(s, l, TakenDirs) = Goes(s, pos, TakenDirs) /\ Goes(s, l, GivenDirs) = Goes(s, pos, GivenDirs)
    BY <1>8 DEF Goes
  <2>4. Goes(s, pos, TakenDirs) - Goes(s, l, TakenDirs) = 0 /\ Goes(s, pos, GivenDirs) - Goes(s, l, GivenDirs) = 0
    BY <2>3, GoesTyped
  <2>5. /\ Moves(s, ts, us, pos, TakenDirs, 0)
        /\ Moves(s, ts, us, pos, GivenDirs, 0)
    BY ONLY <2>2, <2>4
  <2>6. expected_js_argc' = expected_js_argc + 0 /\ js_out_argc' = js_out_argc + 0
    BY <1>1, <1>2, <1>10 DEF Count
  <2>7. CountsFit(s, us, expected_js_argc', js_out_argc', pos)
    BY ONLY <1>1, <1>4, <2>5, <2>6, 0 \in Int, CountsMove
  <2> QED
    BY <1>5, <2>7
<1>11. CASE ~(l < pos)
  <2>1. PassedSkipped(ts, pos, {l})
    BY <1>1, <1>11 DEF PassedSkipped
  <2>2. /\ Moves(s, ts, us, pos, TakenDirs, Goes(s, pos, TakenDirs))
        /\ Moves(s, ts, us, pos, GivenDirs, Goes(s, pos, GivenDirs))
    <3> DEFINE t == "ARRAY"
    <3>1. t # "SKIPPED" /\ Retyped(s, ts, us, pos, {l}, t)
      BY <1>3
    <3> HIDE DEF t, l
    <3>2. Moves(s, ts, us, pos, TakenDirs, Goes(s, pos, TakenDirs))
      BY ONLY <1>1, <2>1, <3>1, RetypedCounted
    <3>3. Moves(s, ts, us, pos, GivenDirs, Goes(s, pos, GivenDirs))
      BY ONLY <1>1, <2>1, <3>1, RetypedCounted
    <3> QED
      BY <3>2, <3>3
  <2>3. /\ expected_js_argc' = expected_js_argc + Goes(s, pos, TakenDirs)
        /\ js_out_argc' = js_out_argc + Goes(s, pos, GivenDirs)
    <3>1. /\ Count(Takes(s.args[pos].dir) /\ l < pos) = 0
          /\ Count(Gives(s.args[pos].dir) /\ l < pos) = 0
      BY <1>11 DEF Count
    <3>2. /\ Goes(s, pos, TakenDirs) = Count(Takes(s.args[pos].dir)) /\ Goes(s, pos, TakenDirs) \in Int
          /\ Goes(s, pos, GivenDirs) = Count(Gives(s.args[pos].dir)) /\ Goes(s, pos, GivenDirs) \in Int
      BY GoesTyped
    <3> QED
      BY <1>1, <1>2, <3>1, <3>2
  <2>4. CountsFit(s, us, expected_js_argc', js_out_argc', pos)
    BY ONLY <1>1, <1>4, <2>2, <2>3, GoesTyped, CountsMove
  <2> QED
    BY <1>5, <2>4
<1> QED
  BY <1>10, <1>11

LEMMA CacheStep ==
    ASSUME MeaningfulSignatures, IInv, init_cached_function_data
    PROVE  IInv'
<1>1. /\ function \in Signatures /\ n_args \in Nat /\ Positions = 1..n_args /\ n_args = Len(function.args)
      /\ DOMAIN function.args = Positions
      /\ param_types \in [Positions -> {"NORMAL", "SKIPPED", "CALLBACK", "ARRAY"}]
      /\ pos \in 1..(n_args + 1)
  BY CallFacts
<1>2. /\ pc = "cache" /\ pos \in Positions /\ Cached(pos - 1)
      /\ function' = function /\ processed' = processed /\ allocated' = allocated
      /\ js_arg_pos' = js_arg_pos /\ failed' = failed /\ did_throw_gerror' = did_throw_gerror
      /\ postinvoke_release_failed' = postinvoke_release_failed
  BY <1>1 DEF init_cached_function_data, IInv, values, result
<1>3. n_args' = n_args /\ Positions' = Positions
  BY <1>2 DEF n_args, Positions
<1>4. /\ js_arg_pos' \in Nat /\ processed' \in 0..n_args /\ allocated' \subseteq Positions
      /\ failed' \in BOOLEAN /\ did_throw_gerror' \in BOOLEAN /\ postinvoke_release_failed' \in BOOLEAN
      /\ expected_js_argc \in Nat /\ js_out_argc \in Nat
  BY <1>1, <1>2 DEF IInv, TypeOK
<1>5. CASE ~Unsupported /\ pc' = pc /\ pos' = pos + 1
           /\ (cache_skipped \/ cache_destroy \/ cache_callback \/ cache_array \/ cache_normal)
  <2>1. /\ Explained(function, param_types', pos)
        /\ CountsFit(function, param_types', expected_js_argc', js_out_argc', pos)
    <3>1. CASE cache_skipped
      <4>1. /\ param_types[pos] = "SKIPPED" /\ param_types' = param_types
            /\ expected_js_argc' = expected_js_argc /\ js_out_argc' = js_out_argc
        BY <3>1 DEF cache_skipped, counts
      <4>2. /\ Explained(function, param_types, pos - 1)
            /\ CountsFit(function, param_types, expected_js_argc, js_out_argc, pos - 1)
        BY <1>2 DEF Cached
      <4>3. /\ Explained(function, param_types, pos)
            /\ CountsFit(function, param_types, expected_js_argc, js_out_argc, pos)
        BY <1>1, <1>2, <1>4, <4>1, <4>2, CacheSkipped
      <4> QED
        BY <4>1, <4>3
    <3>2. CASE cache_destroy
      BY <1>2, <3>2, CacheDestroy
    <3>3. CASE cache_callback
      BY <1>2, <3>3, CacheCallback
    <3>4. CASE cache_array
      BY <1>2, <1>5, <3>4, CacheArray
    <3>5. CASE cache_normal
      BY <1>2, <3>5, CacheNormal
    <3> QED
      BY <1>5, <3>1, <3>2, <3>3, <3>4, <3>5
  <2>2. param_types' \in [Positions -> {"NORMAL", "SKIPPED", "CALLBACK", "ARRAY"}]
    BY <1>1, <1>5 DEF cache_skipped, cache_destroy, cache_callback, cache_array, cache_normal, counts, Skip
  <2>3. pos \in 0..Len(function.args) /\ pos \in Nat
    BY <1>1, <1>2
  <2>4. expected_js_argc' \in 0..n_args /\ js_out_argc' \in 0..(n_args + 1)
    BY <1>1, <2>1, <2>3, CountsTyped
  <2>5. pos' \in 1..(n_args' + 1) /\ pos' - 1 = pos
    BY <1>1, <1>2, <1>3, <1>5
  <2>6. Cached(pos - 1)'
    BY <1>2, <2>1, <2>5 DEF Cached
  <2>7. TypeOK'
    BY <1>2, <1>3, <1>4, <1>5, <2>2, <2>4, <2>5 DEF TypeOK
  <2>8. pc' = "cache"
    BY <1>2, <1>5
  <2> QED
    BY <1>1, <1>2, <1>4, <2>6, <2>7, <2>8 DEF IInv
<1>6. CASE pc' = "unsupported" /\ UNCHANGED <<pos, counts>>
  <2>1. TypeOK'
    BY <1>2, <1>3, <1>4, <1>6 DEF IInv, TypeOK, counts
  <2> QED
    BY <1>1, <1>2, <1>4, <1>6, <2>1 DEF IInv
<1> QED
  BY <1>5, <1>6 DEF init_cached_function_data

LEMMA DefineStep == IInv /\ gwkjs_define_function => IInv'
<1> SUFFICES ASSUME IInv, gwkjs_define_function PROVE IInv'
  OBVIOUS
<1>1. /\ pc = "cache" /\ pc' = "defined" /\ pos > n_args
      /\ UNCHANGED <<function, pos, counts, values, result>>
  BY DEF gwkjs_define_function
<1>2. n_args' = n_args /\ Positions' = Positions
  BY <1>1 DEF n_args, Positions
<1>3. n_args = pos - 1
  BY <1>1, CallFacts
<1>4. Cached(n_args)'
  BY <1>1, <1>2, <1>3 DEF IInv, Cached, counts
<1>5. TypeOK'
  BY <1>1, <1>2 DEF IInv, TypeOK, counts, values
<1> QED
  BY <1>1, <1>4, <1>5 DEF IInv, result

-----------------------------------------------------------------------------
(* A call.                                                                 *)
LEMMA CallStep == IInv /\ function_call => IInv'
<1> SUFFICES ASSUME IInv, function_call PROVE IInv'
  OBVIOUS
<1>1. /\ pc \in {"defined", "returned"} /\ Cached(n_args)
      /\ UNCHANGED <<function, counts>>
      /\ pos' = 1 /\ js_arg_pos' = 0 /\ processed' = 0 /\ allocated' = {}
      /\ postinvoke_release_failed' = FALSE /\ did_throw_gerror' = FALSE /\ next_rval' = 0
      /\ js_argc' \in (expected_js_argc - 1)..(expected_js_argc + 1) /\ js_argc' >= 0
      /\ \/ pc' = "returned" /\ failed' = TRUE
         \/ pc' = "convert" /\ failed' = FALSE /\ js_argc' >= expected_js_argc
  BY DEF function_call, IInv
<1>2. n_args' = n_args /\ Positions' = Positions /\ n_args \in Nat
  BY <1>1, CallFacts DEF n_args, Positions
<1>3. Cached(n_args)'
  BY <1>1, <1>2 DEF Cached, counts
<1>4. TypeOK'
  BY <1>1, <1>2 DEF IInv, TypeOK, counts
<1>5. pc' = "convert" => Converting'
  <2>1. js_argc' \in Nat /\ expected_js_argc' = expected_js_argc
    BY <1>1 DEF IInv, TypeOK, counts
  <2>3. Cardinality(With(function'.args, param_types', 0, TakenDirs)) = 0
    BY WithNone
  <2>4. pos' - 1 = 0
    BY <1>1
  <2> QED
    BY <1>1, <2>1, <2>3, <2>4 DEF Converting
<1>6. pc' = "returned" => SuccessReleasesAll' /\ InArgumentsReleased'
  BY <1>1 DEF SuccessReleasesAll, InArgumentsReleased
<1>7. function' \in Signatures
  BY <1>1 DEF IInv
<1> QED
  BY <1>1, <1>3, <1>4, <1>5, <1>6, <1>7 DEF IInv

(* The conversion never asks for an argument that was not passed.          *)
LEMMA ArgumentThere ==
    ASSUME IInv, pc = "convert", pos \in Positions,
           param_types[pos] # "SKIPPED", Takes(function.args[pos].dir)
    PROVE  js_arg_pos < js_argc
<1>1. n_args \in Nat /\ Positions = 1..n_args /\ pos \in 1..n_args
  BY CallFacts
<1>2. function.args[pos].dir \in TakenDirs
  BY DEF Takes, TakenDirs
<1>3. Cardinality(With(function.args, param_types, pos - 1, TakenDirs))
        < Cardinality(With(function.args, param_types, n_args, TakenDirs))
  BY <1>1, <1>2, WithMore
<1>4. /\ js_arg_pos = Cardinality(With(function.args, param_types, pos - 1, TakenDirs))
      /\ expected_js_argc = Cardinality(With(function.args, param_types, n_args, TakenDirs))
      /\ js_argc \in Nat /\ js_argc >= expected_js_argc
      /\ js_arg_pos \in Nat /\ expected_js_argc \in Nat
  BY DEF IInv, Converting, Cached, CountsFit, TypeOK
<1> QED
  BY <1>3, <1>4

LEMMA ConvertStep ==
    ASSUME MeaningfulSignatures, IInv, invoke_convert
    PROVE  IInv'
<1>1. /\ n_args \in Nat /\ Positions = 1..n_args /\ pos \in Positions /\ n_args = Len(function.args)
      /\ DOMAIN function.args = Positions /\ function \in Signatures
      /\ pc = "convert" /\ Cached(n_args) /\ Converting
      /\ UNCHANGED <<function, counts>>
  BY CallFacts DEF invoke_convert, IInv
<1>2. n_args' = n_args /\ Positions' = Positions
  BY <1>1 DEF n_args, Positions
<1>3. Cached(n_args)'
  BY <1>1, <1>2 DEF Cached, counts
<1>4. ConvertAsserts
  <2>1. ASSUME Takes(arg.dir), param_types[pos] = "NORMAL" PROVE js_arg_pos < js_argc
    BY <1>1, <2>1, ArgumentThere DEF arg
  <2>2. ASSUME param_types[pos] = "CALLBACK"
        PROVE  \A p \in {arg.destroy, arg.closure} \ {0} : param_types[p] = "SKIPPED"
    BY <1>1, <2>2 DEF arg, Cached, Explained
  <2> QED
    BY <2>1, <2>2 DEF ConvertAsserts
<1>0. CASE convert_unsupported_callback
  <2>1. pc' = "crashed" /\ UNCHANGED <<pos, values, result>>
    BY <1>0 DEF convert_unsupported_callback
  <2>2. TypeOK'
    BY <1>1, <1>2, <2>1 DEF IInv, TypeOK, counts, values
  <2> QED
    BY <1>1, <2>1, <2>2 DEF IInv, result, values
<1> SUFFICES ASSUME ~convert_unsupported_callback PROVE IInv'
  BY <1>0
<1>5. /\ convert_out \/ convert_callback \/ convert_skipped \/ convert_array \/ convert_normal
      /\ UNCHANGED <<js_argc, postinvoke_release_failed, did_throw_gerror, next_rval>>
  BY <1>4 DEF invoke_convert
<1>6. arg.kind = "struct" => param_types[pos] # "SKIPPED"
  <2>1. n_args \in 0..Len(function.args)
    BY <1>1
  <2>2. Explained(function, param_types, n_args)
    BY <1>1 DEF Cached
  <2>3. param_types[pos] = "SKIPPED" => function.args[pos].kind \in {"plain", "destroy"}
    BY <1>1, <2>1, <2>2, SkippedKinds
  <2> QED
    BY <2>3 DEF arg
<1> DEFINE used == IF param_types[pos] # "SKIPPED" /\ Takes(arg.dir) THEN 1 ELSE 0
<1>7. /\ Converted(used) \/ ConversionFailed
      /\ allocated' = allocated \/ (allocated' = allocated \union {pos} /\ param_types[pos] # "SKIPPED")
  <2>1. CASE convert_out
    BY <1>6, <2>1 DEF convert_out, Takes
  <2>2. CASE convert_callback
    BY <2>2 DEF convert_callback
  <2>3. CASE convert_skipped
    BY <2>3 DEF convert_skipped
  <2>4. CASE convert_array
    BY <2>4 DEF convert_array
  <2>5. CASE convert_normal
    BY <2>5 DEF convert_normal
  <2> QED
    BY <1>5, <2>1, <2>2, <2>3, <2>4, <2>5
<1>8. /\ processed = pos - 1 /\ ~failed /\ ~did_throw_gerror /\ next_rval = 0
      /\ js_argc \in Nat /\ js_argc >= expected_js_argc
      /\ js_arg_pos = Cardinality(With(function.args, param_types, pos - 1, TakenDirs))
      /\ \A p \in allocated : p < pos /\ param_types[p] # "SKIPPED"
      /\ js_arg_pos \in Nat /\ allocated \subseteq Positions
  BY <1>1 DEF Converting, IInv, TypeOK
<1>9. \A p \in allocated' : p \in Positions /\ p <= pos /\ param_types[p] # "SKIPPED"
  <2> SUFFICES ASSUME NEW p \in allocated'
               PROVE  p \in Positions /\ p <= pos /\ param_types[p] # "SKIPPED"
    OBVIOUS
  <2>1. CASE p \in allocated
    BY <1>1, <1>8, <2>1
  <2>2. CASE p \notin allocated
    <3>1. p = pos /\ param_types[pos] # "SKIPPED"
      BY <1>7, <2>2
    <3> QED
      BY <1>1, <3>1
  <2> QED
    BY <2>1, <2>2
<1>10. CASE Converted(used)
  <2>1. /\ pos' = pos + 1 /\ processed' = processed + 1 /\ pc' = "convert" /\ failed' = failed
        /\ js_arg_pos' = js_arg_pos + used
    BY <1>1, <1>10 DEF Converted
  <2>2. Cardinality(With(function.args, param_types, pos, TakenDirs)) =
            Cardinality(With(function.args, param_types, pos - 1, TakenDirs))
            + (IF param_types[pos] # "SKIPPED" /\ function.args[pos].dir \in TakenDirs THEN 1 ELSE 0)
    <3> DEFINE d == IF param_types[pos] # "SKIPPED" THEN Goes(function, pos, TakenDirs) ELSE 0
    <3>1. pos \in Nat /\ pos > 0
      BY <1>1
    <3>2. Moves(function, param_types, param_types, pos, TakenDirs, d)
      BY ONLY <3>1, CountedNext
    <3> QED
      BY <3>2 DEF Moves, Goes
  <2>3. js_arg_pos' = Cardinality(With(function.args, param_types, pos, TakenDirs)) /\ js_arg_pos' \in Nat
    BY <1>8, <2>1, <2>2 DEF Takes, TakenDirs, arg
  <2>4. pos' - 1 = pos /\ pos' \in 1..(n_args + 1) /\ processed' = pos
    BY <1>1, <1>8, <2>1
  <2>5. Converting'
    <3>1. js_argc' = js_argc /\ expected_js_argc' = expected_js_argc /\ param_types' = param_types
      BY <1>1, <1>5 DEF counts
    <3>2. \A p \in allocated' : p < pos' /\ param_types'[p] # "SKIPPED"
      BY <1>1, <1>9, <2>1, <3>1
    <3>3. js_arg_pos' = Cardinality(With(function'.args, param_types', pos' - 1, TakenDirs))
      BY <1>1, <2>3, <2>4, <3>1
    <3> QED
      BY <1>5, <1>8, <2>1, <2>4, <3>1, <3>2, <3>3 DEF Converting
  <2>6. TypeOK'
    BY SMTT(30), <1>1, <1>2, <1>9, <2>1, <2>3, <2>4 DEF IInv, TypeOK, counts
  <2> QED
    BY <1>1, <1>3, <1>5, <2>1, <2>5, <2>6 DEF IInv
<1>11. CASE ConversionFailed
  <2>1. /\ failed' = TRUE /\ pc' = "release" /\ pos' = 1
        /\ js_arg_pos' = js_arg_pos /\ processed' = processed
    BY <1>11 DEF ConversionFailed
  <2>2. processed' = pos - 1 /\ processed' \in 0..n_args /\ param_types' = param_types
    BY <1>1, <1>8, <2>1 DEF counts
  <2>3. Releasing'
    <3>1. pos' <= processed' + 1
      BY <1>1, <2>1, <2>2
    <3>2. \A p \in allocated' : /\ p <= processed' \/ p = processed' + 1
                                /\ ~(p < pos') /\ param_types'[p] # "SKIPPED"
      BY <1>1, <1>9, <2>1, <2>2
    <3> QED
      BY <2>1, <3>1, <3>2 DEF Releasing
  <2>4. TypeOK'
    BY <1>1, <1>2, <1>9, <2>1, <2>2 DEF IInv, TypeOK, counts
  <2> QED
    BY <1>1, <1>3, <1>5, <2>1, <2>3, <2>4 DEF IInv
<1> QED
  BY <1>7, <1>10, <1>11

LEMMA FfiStep == IInv /\ invoke_ffi_call => IInv'
<1> SUFFICES ASSUME IInv, invoke_ffi_call PROVE IInv'
  OBVIOUS
<1>1. /\ n_args \in Nat /\ Positions = 1..n_args /\ pos = n_args + 1
      /\ pc = "convert" /\ Cached(n_args) /\ Converting
      /\ pc' = "release" /\ pos' = 1
      /\ UNCHANGED <<function, counts, values, postinvoke_release_failed>>
      /\ function.returns \in BOOLEAN
  BY CallFacts DEF invoke_ffi_call, IInv
<1>2. n_args' = n_args /\ Positions' = Positions
  BY <1>1 DEF n_args, Positions
<1>3. Cached(n_args)'
  BY <1>1, <1>2 DEF Cached, counts
<1>4. did_throw_gerror' \in BOOLEAN /\ failed' \in BOOLEAN
  BY DEF invoke_ffi_call, IInv
<1>5. TypeOK'
  BY <1>1, <1>2 DEF IInv, TypeOK, counts, values
<1>6. ~did_throw_gerror' => next_rval' = Count(function.returns)
  <2>1. next_rval = 0
    BY <1>1 DEF Converting
  <2>2. function.returns => js_out_argc > 0
    <3>1. Cardinality(With(function.args, param_types, n_args, GivenDirs)) \in Nat
      <4>1. Cardinality(With(function.args, param_types, n_args, GivenDirs)) \in 0..n_args
        BY <1>1, WithFinite
      <4> QED
        BY <1>1, <4>1
    <3> QED
      BY <1>1, <3>1 DEF Cached, CountsFit, Count
  <2> QED
    BY <1>1, <2>1, <2>2 DEF invoke_ffi_call, Count
<1>7. Releasing'
  <2>1. /\ processed' = n_args /\ allocated' = allocated /\ param_types' = param_types
        /\ \A p \in allocated : p < pos /\ param_types[p] # "SKIPPED" /\ p \in Positions
    BY <1>1 DEF Converting, values, counts, IInv, TypeOK
  <2>2. pos' <= processed' + 1
    BY <1>1, <2>1
  <2>3. \A p \in allocated' : p <= processed' /\ ~(p < pos') /\ param_types'[p] # "SKIPPED"
    BY <1>1, <2>1
  <2>4. Cardinality(With(function'.args, param_types', 0, GivenDirs)) = 0 /\ pos' - 1 = 0
    BY <1>1, WithNone
  <2>5. Count(function'.returns) = Count(function.returns) /\ Count(function.returns) \in Nat
    BY <1>1 DEF Count
  <2>6. ~did_throw_gerror' =>
            next_rval' = Count(function'.returns)
                         + Cardinality(With(function'.args, param_types', pos' - 1, GivenDirs))
    BY <1>6, <2>4, <2>5
  <2> QED
    BY <1>2, <2>1, <2>2, <2>3, <2>6 DEF Releasing
<1>8. function' \in Signatures /\ postinvoke_release_failed' \in BOOLEAN
  BY <1>1 DEF IInv
<1> QED
  BY <1>1, <1>3, <1>4, <1>5, <1>7, <1>8 DEF IInv

LEMMA ReleaseStep == IInv /\ invoke_release => IInv'
<1> SUFFICES ASSUME IInv, invoke_release PROVE IInv'
  OBVIOUS
<1>1. /\ n_args \in Nat /\ Positions = 1..n_args /\ pos \in 1..(n_args + 1)
      /\ pc = "release" /\ pos <= processed /\ Cached(n_args) /\ Releasing
      /\ UNCHANGED <<function, counts>>
      /\ processed \in 0..n_args /\ allocated \subseteq Positions
      /\ function.args[pos].dir \in Directions
  <2>1. pos <= processed /\ processed \in 0..n_args /\ pos \in 1..(n_args + 1) /\ n_args \in Nat
    BY CallFacts DEF invoke_release, IInv, TypeOK
  <2>2. pos \in 1..n_args
    BY <2>1
  <2> QED
    BY <2>2, CallFacts DEF invoke_release, IInv, TypeOK
<1>2. n_args' = n_args /\ Positions' = Positions /\ pos \in Positions /\ pos \in Nat
  BY <1>1 DEF n_args, Positions
<1>3. Cached(n_args)'
  BY <1>1, <1>2 DEF Cached, counts
<1>4. ConvertsOut => /\ ~failed /\ ~did_throw_gerror /\ param_types[pos] # "SKIPPED"
                     /\ function.args[pos].dir \in GivenDirs
  BY DEF ConvertsOut, Gives, GivenDirs, arg
<1>5. ConvertsOut => next_rval < js_out_argc
  <2> SUFFICES ASSUME ConvertsOut PROVE next_rval < js_out_argc
    OBVIOUS
  <2>1. Cardinality(With(function.args, param_types, pos - 1, GivenDirs))
            < Cardinality(With(function.args, param_types, n_args, GivenDirs))
    BY <1>1, <1>2, <1>4, WithMore
  <2>2. /\ next_rval = Count(function.returns)
                     + Cardinality(With(function.args, param_types, pos - 1, GivenDirs))
        /\ js_out_argc = Count(function.returns)
                     + Cardinality(With(function.args, param_types, n_args, GivenDirs))
    BY <1>1, <1>4 DEF Releasing, Cached, CountsFit
  <2>3. Count(function.returns) \in Nat
    BY DEF Count
  <2>4. pos - 1 \in Nat
    BY <1>1
  <2>5. /\ Cardinality(With(function.args, param_types, pos - 1, GivenDirs)) \in Nat
        /\ Cardinality(With(function.args, param_types, n_args, GivenDirs)) \in Nat
    BY <1>1, <2>4, WithFinite
  <2> QED
    BY <2>1, <2>2, <2>3, <2>5
<1>6. ~(ConvertsOut /\ next_rval >= js_out_argc)
  <2>1. ASSUME ConvertsOut PROVE ~(next_rval >= js_out_argc)
    <3>1. next_rval \in Int /\ js_out_argc \in Int
      <4>1. pos - 1 \in Nat
        BY <1>1
      <4>2. Cardinality(With(function.args, param_types, pos - 1, GivenDirs)) \in Nat
        BY <4>1, WithFinite
      <4> QED
        BY <1>1, <1>4, <2>1, <4>2 DEF Releasing, Count, IInv, TypeOK
    <3> QED
      BY <1>5, <2>1, <3>1
  <2> QED
    BY <2>1
<1>7. /\ allocated' = allocated \ (IF ReleasesIn \/ ConvertsOut THEN {pos} ELSE {})
      /\ next_rval' = next_rval + Count(ConvertsOut)
      /\ postinvoke_release_failed' \in BOOLEAN
      /\ pos' = pos + 1
      /\ UNCHANGED <<pc, js_argc, js_arg_pos, processed, failed, did_throw_gerror>>
  BY <1>6 DEF invoke_release, IInv
<1>8. pos' \in 1..(n_args + 1) /\ pos' <= processed + 1 /\ pos' - 1 = pos
  BY <1>1, <1>7
<1>9. param_types' = param_types /\ function' = function
  BY <1>1 DEF counts
<1>10. ASSUME NEW p \in allocated'
       PROVE  /\ p <= processed \/ (p = processed + 1 /\ failed)
              /\ p < pos' => ~Takes(function.args[p].dir) /\ (failed \/ did_throw_gerror)
              /\ param_types[p] # "SKIPPED"
  <2>1. p \in allocated /\ p \in Positions
    BY <1>1, <1>7
  <2>2. CASE p = pos
    <3>1. ~ReleasesIn /\ ~ConvertsOut
      BY <1>7, <2>2
    <3>2. param_types[pos] # "SKIPPED"
      BY <1>1, <2>1, <2>2 DEF Releasing
    <3>3. ~Takes(arg.dir) /\ (~Gives(arg.dir) \/ failed \/ did_throw_gerror)
      BY <3>1, <3>2 DEF ReleasesIn, ConvertsOut
    <3>4. Takes(arg.dir) \/ Gives(arg.dir)
      BY <1>1 DEF Takes, Gives, arg, Directions
    <3> QED
      BY <1>1, <2>1, <2>2, <3>2, <3>3, <3>4 DEF Releasing, arg
  <2>3. CASE p # pos
    <3>1. p < pos' => p < pos
      BY <1>1, <1>7, <2>1, <2>3
    <3> QED
      BY <1>1, <2>1, <3>1 DEF Releasing
  <2> QED
    BY <2>2, <2>3
<1>11. ASSUME ~failed, ~did_throw_gerror
       PROVE  /\ processed = n_args
              /\ next_rval' = Count(function.returns)
                              + Cardinality(With(function.args, param_types, pos, GivenDirs))
  <2>1. Cardinality(With(function.args, param_types, pos, GivenDirs)) =
            Cardinality(With(function.args, param_types, pos - 1, GivenDirs))
            + (IF param_types[pos] # "SKIPPED" /\ function.args[pos].dir \in GivenDirs THEN 1 ELSE 0)
    <3> DEFINE d == IF param_types[pos] # "SKIPPED" THEN Goes(function, pos, GivenDirs) ELSE 0
    <3>1. pos \in Nat /\ pos > 0
      BY <1>1
    <3>2. Moves(function, param_types, param_types, pos, GivenDirs, d)
      BY ONLY <3>1, CountedNext
    <3> QED
      BY <3>2 DEF Moves, Goes
  <2>2. Count(ConvertsOut) =
            (IF param_types[pos] # "SKIPPED" /\ function.args[pos].dir \in GivenDirs THEN 1 ELSE 0)
    BY <1>11 DEF Count, ConvertsOut, Gives, GivenDirs, arg
  <2>3. Cardinality(With(function.args, param_types, pos - 1, GivenDirs)) \in Nat
    <3>1. pos - 1 \in Nat
      BY <1>1
    <3> QED
      BY <3>1, WithFinite
  <2>4. Count(function.returns) \in Nat
    BY DEF Count
  <2>5. /\ processed = n_args
        /\ next_rval = Count(function.returns)
                       + Cardinality(With(function.args, param_types, pos - 1, GivenDirs))
    BY <1>1, <1>11 DEF Releasing
  <2> QED
    BY <1>7, <2>1, <2>2, <2>3, <2>4, <2>5
<1>12. Releasing'
  BY <1>2, <1>7, <1>8, <1>9, <1>10, <1>11 DEF Releasing
<1>13. TypeOK'
  <2>1. allocated' \subseteq Positions
    BY <1>1, <1>7
  <2> QED
    BY <1>1, <1>2, <1>7, <1>8, <2>1 DEF IInv, TypeOK, counts
<1> QED
  BY <1>1, <1>3, <1>7, <1>9, <1>12, <1>13 DEF IInv

LEMMA ReturnStep == IInv /\ invoke_return => IInv'
<1> SUFFICES ASSUME IInv, invoke_return PROVE IInv'
  OBVIOUS
<1>1. /\ n_args \in Nat /\ pos \in 1..(n_args + 1) /\ processed \in 0..n_args
      /\ allocated \subseteq Positions /\ Positions = 1..n_args
      /\ pc = "release" /\ pos > processed /\ Cached(n_args) /\ Releasing
      /\ failed' = (failed \/ postinvoke_release_failed)
      /\ pc' = IF failed' \/ did_throw_gerror \/ next_rval = js_out_argc
               THEN "returned" ELSE "aborted"
      /\ UNCHANGED <<function, pos, counts, values, postinvoke_release_failed,
                     did_throw_gerror, next_rval>>
  BY CallFacts DEF invoke_return, IInv, TypeOK
<1>2. n_args' = n_args /\ Positions' = Positions
  BY <1>1 DEF n_args, Positions
<1>3. Cached(n_args)'
  BY <1>1, <1>2 DEF Cached, counts
<1>4. failed' \in BOOLEAN /\ did_throw_gerror' \in BOOLEAN /\ postinvoke_release_failed' \in BOOLEAN
  BY <1>1 DEF IInv
<1>5. pos = processed + 1
  BY <1>1 DEF Releasing
<1>6. ~failed' /\ ~did_throw_gerror => next_rval = js_out_argc
  <2> SUFFICES ASSUME ~failed', ~did_throw_gerror PROVE next_rval = js_out_argc
    OBVIOUS
  <2>1. ~failed
    BY <1>1
  <2>2. processed = n_args /\ pos - 1 = n_args
    BY <1>1, <1>5, <2>1 DEF Releasing
  <2>3. next_rval = Count(function.returns)
                    + Cardinality(With(function.args, param_types, pos - 1, GivenDirs))
    BY <1>1, <2>1 DEF Releasing
  <2> QED
    BY <1>1, <2>2, <2>3 DEF Cached, CountsFit
<1>7. pc' = "returned"
  BY <1>1, <1>6
<1>8. \A p \in allocated : p < pos \/ (p = processed + 1 /\ failed)
  BY <1>1, <1>5 DEF Releasing
<1>9. SuccessReleasesAll'
  <2>1. ~failed /\ ~did_throw_gerror => allocated = {}
    BY <1>1, <1>8 DEF Releasing
  <2> QED
    BY <1>1, <2>1 DEF SuccessReleasesAll, values
<1>10. InArgumentsReleased'
  <2>1. \A p \in allocated : Takes(function.args[p].dir) => failed /\ p = processed + 1
    BY <1>1, <1>8 DEF Releasing
  <2> QED
    BY <1>1, <2>1 DEF InArgumentsReleased, values
<1>11. TypeOK'
  BY <1>1, <1>2, <1>7 DEF IInv, TypeOK, counts, values
<1>12. function' \in Signatures
  BY <1>1 DEF IInv
<1> QED
  BY <1>3, <1>4, <1>7, <1>9, <1>10, <1>11, <1>12 DEF IInv

LEMMA InvokeInvariant == ASSUME MeaningfulSignatures PROVE Spec => []IInv
<1>1. IInv /\ [Next]_vars => IInv'
  <2> SUFFICES ASSUME IInv, [Next]_vars PROVE IInv'
    OBVIOUS
  <2>1. CASE UNCHANGED vars
    BY <2>1 DEF vars, counts, values, result, IInv, TypeOK, Cached, Converting, Releasing,
                SuccessReleasesAll, InArgumentsReleased, n_args, Positions
  <2> QED
    BY <2>1, CacheStep, DefineStep, CallStep, ConvertStep, FfiStep, ReleaseStep, ReturnStep DEF Next
<1> QED
  BY <1>1, InitInv, PTL DEF Spec

(* Whatever the number of arguments and however lengths, user data and     *)
(* destroy notifications are woven between them: no assertion of the call  *)
(* fails, it reads only what was passed and consumes what it announced.    *)
THEOREM ArgumentsAlwaysMatch ==
    ASSUME MeaningfulSignatures PROVE Spec => []ArgumentsMatch
<1>1. IInv => ArgumentsMatch
  <2> SUFFICES ASSUME IInv PROVE ArgumentsMatch
    OBVIOUS
  <2>1. ReadsOnlyPassed
    <3> SUFFICES ASSUME pc = "convert", pos <= n_args, Takes(arg.dir), param_types[pos] # "SKIPPED"
                 PROVE  js_arg_pos < js_argc
      BY DEF ReadsOnlyPassed
    <3>1. pos \in Positions
      BY CallFacts
    <3> QED
      BY <3>1, ArgumentThere DEF arg
  <2>2. pc = "convert" /\ pos > n_args => js_arg_pos = expected_js_argc
    <3> SUFFICES ASSUME pc = "convert", pos > n_args PROVE js_arg_pos = expected_js_argc
      OBVIOUS
    <3>1. pos - 1 = n_args
      BY CallFacts
    <3> QED
      BY <3>1 DEF IInv, Converting, Cached, CountsFit
  <2>3. pc = "defined" => Cardinality(NamedArguments) = expected_js_argc
    <3>1. NamedArguments = With(function.args, param_types, n_args, TakenDirs)
      BY CallFacts DEF NamedArguments, With, TakenDirs, Directions
    <3> QED
      BY <3>1 DEF IInv, Cached, CountsFit
  <2>4. TypeOK /\ AssertionsHold
    BY DEF IInv, AssertionsHold
  <2> QED
    BY <2>1, <2>2, <2>3, <2>4 DEF ArgumentsMatch, ExpectedExact
<1> QED
  BY <1>1, InvokeInvariant, PTL

(* Whatever converts or fails on the way, a call that returns has given    *)
(* back the temporaries of its arguments.                                  *)
THEOREM ArgumentsAlwaysReleased ==
    ASSUME MeaningfulSignatures PROVE Spec => []ArgumentsReleased
<1>1. IInv => ArgumentsReleased
  BY DEF IInv, ArgumentsReleased, SuccessReleasesAll, InArgumentsReleased
<1> QED
  BY <1>1, InvokeInvariant, PTL

-----------------------------------------------------------------------------
(* The other direction.                                                    *)
(* Argument q is an array that C passes, and p its length.                 *)
LengthOf(c, p, q) == c.args[q].kind = "array" /\ c.args[q].dir = "in" /\ c.args[q].len = p

(* The types after the first m arguments were looked at.                   *)
Typed(c, ts, m) ==
    /\ ts \in [1..Len(c.args) -> {"NORMAL", "SKIPPED", "ARRAY"}]
    /\ \A p \in 1..Len(c.args) : ts[p] = "SKIPPED" <=> \E q \in 1..m : LengthOf(c, p, q)
    /\ \A p \in 1..Len(c.args) : ts[p] = "ARRAY" => p <= m

OutArguments(c, m) == {p \in 1..m : c.args[p].kind # "void" /\ c.args[p].dir # "in"}

Enumerates(js, S) ==
    /\ {js[k] : k \in DOMAIN js} = S
    /\ \A j, k \in DOMAIN js : j < k => js[j] < js[k]

(* What was collected of the arguments before position at.                 *)
Collected ==
    /\ jsargs \in Seq(Nat) /\ Enumerates(jsargs, {p \in Inputs : p < at})
    /\ n_outargs = Cardinality(OutArguments(callable, at - 1)) /\ elem_idx = 0

(* The results were counted; those before position at were written.        *)
CountedResults == n_outargs = Cardinality(OutArguments(callable, Len(callable.args)))

WrittenResults ==
    /\ at = 0 => callable.returns
    /\ elem_idx = Cardinality({q \in Outputs : q < at})
    /\ \A q \in Outputs : q < at => written[q] = Place(q)

CInv ==
    /\ callable \in Callables
    /\ at \in 0..(Len(callable.args) + 1)
    /\ written \in [Params \union {0} -> Int]
    /\ stage = "new" => at > 0 /\ Typed(callable, types, at - 1)
    /\ stage \in {"collect", "return", "argument", "elements", "returned"} =>
            Typed(callable, types, Len(callable.args))
    /\ stage = "collect" => at > 0 /\ Collected
    /\ stage = "return" => ResultIs = "return" /\ CountedResults
    /\ stage = "argument" => /\ ResultIs = "argument" /\ CountedResults
                             /\ \A p \in Params : p < at => callable.args[p].dir = "in"
    /\ stage = "elements" => ResultIs = "elements" /\ CountedResults /\ WrittenResults
    /\ CallbackMatches

LEMMA CallableFacts ==
    ASSUME NEW c \in Callables
    PROVE  /\ Len(c.args) \in Nat /\ c.returns \in BOOLEAN
           /\ \A p \in 1..Len(c.args) :
                /\ c.args[p].dir \in {"in", "out", "inout"}
                /\ c.args[p].len \in 0..Len(c.args)
                /\ c.args[p].len # 0 => c.args[c.args[p].len].kind = "plain"
BY CallablesAssumption

LEMMA EnumeratesOneMore ==
    ASSUME NEW js \in Seq(Nat), NEW S, Enumerates(js, S), NEW p \in Nat, \A x \in S : x < p
    PROVE  Append(js, p) \in Seq(Nat) /\ Enumerates(Append(js, p), S \union {p})
<1> DEFINE ks == Append(js, p)
           n  == Len(js)
<1>1. /\ n \in Nat /\ DOMAIN js = 1..n /\ ks \in Seq(Nat) /\ DOMAIN ks = 1..(n + 1)
      /\ \A k \in 1..n : ks[k] = js[k] /\ js[k] \in S
      /\ ks[n + 1] = p
  BY DEF Enumerates
<1>2. \A k \in 1..(n + 1) : k \in 1..n \/ k = n + 1
  BY <1>1
<1>3. \A k \in 1..n : k \in 1..(n + 1)
  BY <1>1
<1>4. {ks[k] : k \in DOMAIN ks} = S \union {p}
  <2>1. ASSUME NEW x \in S PROVE \E k \in 1..(n + 1) : ks[k] = x
    <3>1. PICK k \in 1..n : js[k] = x
      BY <1>1 DEF Enumerates
    <3> QED
      BY <1>1, <1>3, <3>1
  <2>2. n + 1 \in 1..(n + 1)
    BY <1>1
  <2>3. \A k \in 1..(n + 1) : ks[k] \in S \union {p}
    BY <1>1, <1>2
  <2> HIDE DEF ks
  <2> QED
    BY <1>1, <2>1, <2>2, <2>3
<1>5. ASSUME NEW j \in 1..(n + 1), NEW k \in 1..(n + 1), j < k PROVE ks[j] < ks[k]
  <2>1. j \in 1..n
    BY <1>1, <1>5
  <2>2. CASE k \in 1..n
    BY <1>1, <1>5, <2>1, <2>2 DEF Enumerates
  <2>3. CASE k = n + 1
    BY <1>1, <2>1, <2>3
  <2> QED
    BY <1>2, <2>2, <2>3
<1> QED
  BY <1>1, <1>4, <1>5 DEF Enumerates

(* One more argument is counted, or not.                                   *)
LEMMA OneMoreOut ==
    ASSUME NEW c, NEW p \in Nat, p > 0
    PROVE  Cardinality(OutArguments(c, p)) =
           Cardinality(OutArguments(c, p - 1))
           + (IF c.args[p].kind # "void" /\ c.args[p].dir # "in" THEN 1 ELSE 0)
<1> DEFINE S == OutArguments(c, p - 1)
<1>1. IsFiniteSet(S) /\ Cardinality(S) \in Nat /\ p \notin S
  <2>1. p - 1 \in Nat
    OBVIOUS
  <2>2. IsFiniteSet(1..(p - 1))
    BY <2>1, FS_Interval
  <2>3. S \subseteq 1..(p - 1)
    BY DEF OutArguments
  <2> QED
    BY <2>2, <2>3, FS_Subset, FS_CardinalityType
<1>2. CASE c.args[p].kind # "void" /\ c.args[p].dir # "in"
  <2>1. OutArguments(c, p) = S \union {p}
    BY <1>2 DEF OutArguments
  <2>2. Cardinality(S \union {p}) = Cardinality(S) + 1
    BY <1>1, FS_AddElement
  <2> QED
    BY <1>2, <2>1, <2>2
<1>3. CASE ~(c.args[p].kind # "void" /\ c.args[p].dir # "in")
  <2>1. OutArguments(c, p) = S
    BY <1>3 DEF OutArguments
  <2> QED
    BY <1>1, <1>3, <2>1
<1> QED
  BY <1>2, <1>3

(* The results: as many as there are elements.                             *)
LEMMA ResultsCounted ==
    ASSUME callable \in Callables, ~VoidOutput
    PROVE  Cardinality(Outputs) = Cardinality(OutArguments(callable, Len(callable.args)))
                                  + (IF callable.returns THEN 1 ELSE 0)
<1> DEFINE S == OutArguments(callable, Len(callable.args))
<1>1. Len(callable.args) \in Nat
  BY CallableFacts
<1>2. IsFiniteSet(S) /\ Cardinality(S) \in Nat /\ 0 \notin S
  <2>1. IsFiniteSet(1..Len(callable.args))
    BY <1>1, FS_Interval
  <2>2. S \subseteq 1..Len(callable.args)
    BY DEF OutArguments
  <2> QED
    BY <2>1, <2>2, FS_Subset, FS_CardinalityType
<1>3. {p \in Params : callable.args[p].dir # "in"} = S
  BY DEF OutArguments, Params, VoidOutput
<1>4. CASE callable.returns
  <2>1. Outputs = S \union {0}
    BY <1>3, <1>4 DEF Outputs
  <2>2. Cardinality(S \union {0}) = Cardinality(S) + 1
    BY <1>2, FS_AddElement
  <2> QED
    BY <1>4, <2>1, <2>2
<1>5. CASE ~callable.returns
  <2>1. Outputs = S
    BY <1>3, <1>5 DEF Outputs
  <2> QED
    BY <1>2, <1>5, <2>1
<1> QED
  BY <1>4, <1>5

LEMMA OutputsFinite ==
    ASSUME callable \in Callables, NEW P \in SUBSET Outputs
    PROVE  IsFiniteSet(P) /\ Cardinality(P) \in Nat
<1>1. IsFiniteSet(0..Len(callable.args))
  <2>1. Len(callable.args) \in Nat /\ 0 \in Int
    BY CallableFacts
  <2> QED
    BY <2>1, FS_Interval
<1>2. Outputs \subseteq 0..Len(callable.args)
  BY CallableFacts DEF Outputs, Params
<1>3. P \subseteq 0..Len(callable.args)
  BY <1>2
<1>4. IsFiniteSet(P)
  BY <1>1, <1>3, FS_Subset
<1> QED
  BY <1>4, FS_CardinalityType

LEMMA InitCInv == CallbackInit => CInv
<1> SUFFICES ASSUME CallbackInit PROVE CInv
  OBVIOUS
<1>1. callable \in Callables /\ Len(callable.args) \in Nat
  BY CallableFacts DEF CallbackInit
<1>2. at = 1 /\ stage = "new" /\ at - 1 = 0
  BY DEF CallbackInit
<1>3. Typed(callable, types, 0)
  BY <1>1 DEF CallbackInit, Typed, Params
<1>4. written \in [Params \union {0} -> Int]
  BY DEF CallbackInit, Unwritten
<1>5. CallbackMatches
  BY <1>2 DEF CallbackMatches
<1> QED
  BY <1>1, <1>2, <1>3, <1>4, <1>5 DEF CInv

(* What stays when a step leaves the callable alone.                       *)
LEMMA SameCallable ==
    ASSUME callable' = callable
    PROVE  /\ Params' = Params /\ Inputs' = Inputs /\ Outputs' = Outputs
           /\ VoidOutput' = VoidOutput
BY DEF Params, Inputs, Outputs, VoidOutput, IsLength

LEMMA SamePlaces ==
    ASSUME callable' = callable
    PROVE  \A p : Place(p)' = Place(p)
BY SameCallable DEF Place

LEMMA NewStep == CInv /\ gwkjs_callback_trampoline_new => CInv'
<1> SUFFICES ASSUME CInv, gwkjs_callback_trampoline_new PROVE CInv'
  OBVIOUS
<1> DEFINE n == Len(callable.args)
<1>1. /\ stage = "new" /\ at \in 1..n /\ callable \in Callables /\ n \in Nat
      /\ Typed(callable, types, at - 1) /\ types' = TypesAfter /\ at' = at + 1
      /\ callable' = callable /\ written' = written
      /\ stage' \in {"new", "unsupported"}
  BY CallableFacts DEF gwkjs_callback_trampoline_new, CInv, Params
<1>2. \A q \in 1..at : q \in 1..(at - 1) \/ q = at
  BY <1>1
<1>3. \A q \in 1..(at - 1) : q \in 1..at
  BY <1>1
<1>4. at \in 1..at /\ ~(at <= at - 1) /\ \A p \in 1..n : p <= at - 1 => p <= at
  BY <1>1
<1>5. Typed(callable, types', at)
  <2>1. CASE Passed(at) /\ param.kind = "array" /\ param.len # 0
    <3> DEFINE l == param.len
    <3>1. /\ param = callable.args[at] /\ param.dir = "in" /\ l \in 1..n
          /\ l # at /\ types' = [types EXCEPT ![l] = "SKIPPED", ![at] = "ARRAY"]
      <4>1. callable.args[at].len \in 0..n
        BY <1>1, CallableFacts
      <4>2. callable.args[at].len # 0 => callable.args[callable.args[at].len].kind = "plain"
        BY <1>1, CallableFacts
      <4> QED
        BY <1>1, <2>1, <4>1, <4>2 DEF param, Passed, TypesAfter
    <3>2. types' \in [1..n -> {"NORMAL", "SKIPPED", "ARRAY"}]
      BY <1>1, <3>1 DEF Typed
    <3>3. \A q : LengthOf(callable, q, at) <=> q = l
      BY <2>1, <3>1 DEF LengthOf
    <3>4. types[at] # "SKIPPED"
      BY <2>1 DEF Passed
    <3>5. ASSUME NEW q \in 1..n PROVE types'[q] = "SKIPPED" <=> \E r \in 1..at : LengthOf(callable, q, r)
      <4>1. CASE q = l
        BY <1>1, <1>4, <3>1, <3>3, <4>1 DEF Typed
      <4>2. CASE q = at
        <5>1. types'[q] # "SKIPPED"
          BY <1>1, <3>1, <4>2 DEF Typed
        <5>2. ~\E r \in 1..at : LengthOf(callable, q, r)
          BY <1>1, <1>2, <3>1, <3>3, <3>4, <4>2 DEF Typed
        <5> QED
          BY <5>1, <5>2
      <4>3. CASE q # l /\ q # at
        <5>1. types'[q] = types[q]
          BY <1>1, <3>1, <4>3 DEF Typed
        <5>2. (\E r \in 1..at : LengthOf(callable, q, r)) <=> (\E r \in 1..(at - 1) : LengthOf(callable, q, r))
          BY <1>2, <1>3, <3>3, <4>3
        <5> QED
          BY <1>1, <5>1, <5>2 DEF Typed
      <4> QED
        BY <4>1, <4>2, <4>3
    <3>6. ASSUME NEW q \in 1..n, types'[q] = "ARRAY" PROVE q <= at
      <4>1. CASE q = at
        BY <1>1, <4>1
      <4>2. CASE q # at
        <5>1. types[q] = "ARRAY"
          BY <1>1, <3>1, <3>6, <4>2 DEF Typed
        <5> QED
          BY <1>1, <1>4, <5>1 DEF Typed
      <4> QED
        BY <4>1, <4>2
    <3> QED
      BY <3>2, <3>5, <3>6 DEF Typed
  <2>2. CASE ~(Passed(at) /\ param.kind = "array" /\ param.len # 0)
    <3>1. types' = types
      BY <1>1, <2>2 DEF TypesAfter
    <3>2. \A q \in 1..n : ~LengthOf(callable, q, at)
      <4>1. ASSUME NEW q \in 1..n, LengthOf(callable, q, at) PROVE FALSE
        <5>1. param = callable.args[at] /\ param.dir = "in" /\ param.kind = "array" /\ param.len = q /\ q # 0
          BY <1>1, <4>1 DEF LengthOf, param
        <5>2. types[at] # "NORMAL"
          BY <2>2, <5>1 DEF Passed, param
        <5>3. types[at] # "ARRAY"
          BY <1>1, <1>4 DEF Typed
        <5>4. types[at] = "SKIPPED"
          BY <1>1, <5>2, <5>3 DEF Typed
        <5>5. PICK r \in 1..(at - 1) : LengthOf(callable, at, r)
          BY <1>1, <5>4 DEF Typed
        <5>6. r \in 1..n /\ callable.args[r].len = at /\ at # 0
          BY <1>1, <5>5 DEF LengthOf
        <5>7. callable.args[r].len # 0 => callable.args[callable.args[r].len].kind = "plain"
          BY <1>1, <5>6, CallableFacts
        <5> QED
          BY <5>1, <5>6, <5>7
      <4> QED
        BY <4>1
    <3>3. \A q \in 1..n : (\E r \in 1..at : LengthOf(callable, q, r)) <=> (\E r \in 1..(at - 1) : LengthOf(callable, q, r))
      BY <1>2, <1>3, <3>2
    <3> QED
      BY <1>1, <1>4, <3>1, <3>3 DEF Typed
  <2> QED
    BY <2>1, <2>2
<1>6. at' \in 0..(n + 1) /\ at' > 0 /\ at' - 1 = at
  BY <1>1
<1>7. CallbackMatches'
  BY <1>1 DEF CallbackMatches
<1>8. written' \in [Params' \union {0} -> Int]
  BY <1>1, SameCallable DEF CInv
<1> QED
  BY <1>1, <1>5, <1>6, <1>7, <1>8 DEF CInv

LEMMA ClosureStep == CInv /\ closure_entered => CInv'
<1> SUFFICES ASSUME CInv, closure_entered PROVE CInv'
  OBVIOUS
<1>1. /\ callable \in Callables /\ callable' = callable /\ types' = types
      /\ stage' = "collect" /\ at' = 1
      /\ jsargs' = << >> /\ n_outargs' = 0 /\ elem_idx' = 0
      /\ written' = [p \in Params \union {0} |-> Unwritten]
      /\ Len(callable.args) \in Nat /\ at \in 0..(Len(callable.args) + 1)
  BY CallableFacts DEF closure_entered, CInv
<1>2. Typed(callable, types, Len(callable.args))
  <2>1. CASE stage = "returned"
    BY <2>1 DEF CInv
  <2>2. CASE stage = "new" /\ at \notin Params
    <3>1. at > 0 /\ Typed(callable, types, at - 1)
      BY <2>2 DEF CInv
    <3>2. at - 1 = Len(callable.args)
      BY <1>1, <2>2, <3>1 DEF Params
    <3> QED
      BY <3>1, <3>2
  <2> QED
    BY <2>1, <2>2 DEF closure_entered
<1>3. {p \in Inputs : p < 1} = {} /\ OutArguments(callable, 0) = {}
  BY DEF Inputs, Params, OutArguments
<1>4. Enumerates(<< >>, {}) /\ << >> \in Seq(Nat)
  BY DEF Enumerates
<1>5. Collected'
  <2>1. n_outargs' = Cardinality(OutArguments(callable', at' - 1))
    <3>1. at' - 1 = 0
      BY <1>1
    <3> QED
      BY <1>1, <1>3, <3>1, FS_EmptySet
  <2>2. {p \in Inputs' : p < at'} = {}
    BY <1>1, <1>3, SameCallable
  <2> QED
    BY <1>1, <1>4, <2>1, <2>2 DEF Collected
<1>6. CallbackMatches'
  <2>1. stage' = "collect" /\ at' \notin Params' =>
            /\ {jsargs'[k] : k \in DOMAIN jsargs'} = Inputs'
            /\ \A j, k \in DOMAIN jsargs' : j < k => jsargs'[j] < jsargs'[k]
    <3> SUFFICES ASSUME at' \notin Params'
                 PROVE  /\ {jsargs'[k] : k \in DOMAIN jsargs'} = Inputs'
                        /\ \A j, k \in DOMAIN jsargs' : j < k => jsargs'[j] < jsargs'[k]
      OBVIOUS
    <3>1. Params' = {}
      BY <1>1, SameCallable DEF Params
    <3>2. Inputs' = {}
      BY <3>1, <1>1, SameCallable DEF Inputs
    <3> QED
      BY <1>1, <3>2
  <2> QED
    BY <1>1, <2>1 DEF CallbackMatches
<1>7. written' \in [Params' \union {0} -> Int]
  BY <1>1, SameCallable DEF Unwritten
<1> QED
  BY <1>1, <1>2, <1>5, <1>6, <1>7 DEF CInv

(* A failure leaves the neutral return value, whatever was written.        *)
LEMMA FailStep ==
    ASSUME CInv, stage \in {"collect", "return", "argument", "elements"}, Fail,
           callable' = callable, types' = types, at' \in 0..(Len(callable.args) + 1)
    PROVE  CInv'
<1>1. stage' = "returned" /\ written' = [written EXCEPT ![0] = Default]
  BY DEF Fail
<1>2. /\ callable' \in Callables /\ Typed(callable', types', Len(callable'.args))
      /\ written \in [Params \union {0} -> Int]
  BY DEF CInv
<1>3. written'[0] = Default /\ Default # Unwritten
  BY <1>1, <1>2 DEF Default, Unwritten
<1>4. CallbackMatches'
  BY <1>1, <1>3 DEF CallbackMatches
<1>5. written' \in [Params' \union {0} -> Int]
  BY <1>1, <1>2, SameCallable DEF Default
<1> QED
  BY <1>1, <1>2, <1>4, <1>5 DEF CInv

LEMMA CollectStep == CInv /\ collect => CInv'
<1> SUFFICES ASSUME CInv, collect PROVE CInv'
  OBVIOUS
<1> DEFINE n == Len(callable.args)
<1>1. /\ callable \in Callables /\ n \in Nat /\ stage = "collect" /\ at \in 1..n
      /\ Typed(callable, types, n) /\ Collected
      /\ at' = at + 1 /\ callable' = callable /\ types' = types
      /\ elem_idx' = elem_idx /\ elem_idx = 0
      /\ written \in [Params \union {0} -> Int]
      /\ param = callable.args[at] /\ param.dir \in {"in", "out", "inout"}
      /\ Params = 1..n
  BY CallableFacts DEF collect, CInv, Params, param, Collected
<1>2. at' \in 0..(n + 1) /\ at' > 0 /\ at' - 1 = at /\ at \in Nat /\ at > 0
  BY <1>1
<1>3. types[at] = "SKIPPED" <=> IsLength(at)
  BY <1>1 DEF Typed, IsLength, LengthOf
<1>4. at \in Inputs <=> param.kind # "void" /\ param.dir # "out" /\ types[at] # "SKIPPED"
  BY <1>1, <1>3 DEF Inputs
<1> DEFINE counted == param.kind # "void" /\ param.dir # "in"
<1>5. CASE /\ stage' = "collect" /\ written' = written
           /\ jsargs' = IF at \in Inputs THEN Append(jsargs, at) ELSE jsargs
           /\ n_outargs' = n_outargs + (IF counted THEN 1 ELSE 0)
  <2>1. n_outargs' = Cardinality(OutArguments(callable, at))
    <3>1. Cardinality(OutArguments(callable, at)) =
            Cardinality(OutArguments(callable, at - 1))
            + (IF callable.args[at].kind # "void" /\ callable.args[at].dir # "in" THEN 1 ELSE 0)
      BY <1>2, OneMoreOut
    <3> QED
      BY <1>1, <1>5, <3>1 DEF Collected
  <2>2. Inputs \subseteq Nat /\ {p \in Inputs : p < at'} =
            (IF at \in Inputs THEN {p \in Inputs : p < at} \union {at} ELSE {p \in Inputs : p < at})
    <3>1. Inputs \subseteq 1..n
      BY <1>1 DEF Inputs
    <3>2. \A p \in 1..n : (p < at') <=> (p < at \/ p = at)
      BY <1>1
    <3>3. Inputs \subseteq Nat
      BY <1>1, <3>1
    <3>4. ASSUME at \in Inputs PROVE {p \in Inputs : p < at'} = {p \in Inputs : p < at} \union {at}
      BY <3>1, <3>2, <3>4
    <3>5. ASSUME at \notin Inputs PROVE {p \in Inputs : p < at'} = {p \in Inputs : p < at}
      BY <3>1, <3>2, <3>5
    <3> QED
      BY <3>3, <3>4, <3>5
  <2>3. jsargs' \in Seq(Nat) /\ Enumerates(jsargs', {p \in Inputs : p < at'})
    <3>1. jsargs \in Seq(Nat) /\ Enumerates(jsargs, {p \in Inputs : p < at})
      BY <1>1 DEF Collected
    <3>2. CASE at \in Inputs
      <4> DEFINE S == {p \in Inputs : p < at}
      <4>1. \A x \in S : x < at
        OBVIOUS
      <4>2. Append(jsargs, at) \in Seq(Nat) /\ Enumerates(Append(jsargs, at), S \union {at})
        <5> HIDE DEF S
        <5> QED
          BY <1>2, <3>1, <4>1, EnumeratesOneMore DEF S
      <4> QED
        BY <1>5, <2>2, <3>2, <4>2
    <3>3. CASE at \notin Inputs
      BY <1>5, <2>2, <3>1, <3>3
    <3> QED
      BY <3>2, <3>3
  <2>4. Collected'
    <3>1. {p \in Inputs' : p < at'} = {p \in Inputs : p < at'} /\ elem_idx' = 0
      BY <1>1, SameCallable
    <3>2. n_outargs' = Cardinality(OutArguments(callable', at' - 1))
      BY <1>1, <1>2, <2>1
    <3> QED
      BY <2>3, <3>1, <3>2 DEF Collected
  <2>5. CallbackMatches'
    <3>1. ASSUME at' \notin Params'
          PROVE  /\ {jsargs'[k] : k \in DOMAIN jsargs'} = Inputs'
                 /\ \A j, k \in DOMAIN jsargs' : j < k => jsargs'[j] < jsargs'[k]
      <4>1. at' = n + 1
        BY <1>1, <1>2, <3>1, SameCallable
      <4>2. {p \in Inputs : p < at'} = Inputs
        <5>1. Inputs \subseteq 1..n
          BY <1>1 DEF Inputs
        <5>2. \A p \in 1..n : p < at'
          BY <1>1, <4>1
        <5> QED
          BY <5>1, <5>2
      <4> QED
        BY <1>1, <2>3, <4>2, SameCallable DEF Enumerates
    <3> QED
      BY <1>5, <3>1 DEF CallbackMatches
  <2>6. written' \in [Params' \union {0} -> Int]
    BY <1>1, <1>5, SameCallable
  <2> QED
    BY <1>1, <1>2, <1>5, <2>4, <2>5, <2>6 DEF CInv
<1>6. CASE Fail
  BY <1>1, <1>2, <1>6, FailStep
<1>7. CASE stage' = "crashed" /\ UNCHANGED written
  <2>1. CallbackMatches'
    BY <1>7 DEF CallbackMatches
  <2>2. written' \in [Params' \union {0} -> Int]
    BY <1>1, <1>7, SameCallable
  <2> QED
    BY <1>1, <1>2, <1>7, <2>1, <2>2 DEF CInv
<1>8. CASE collect_void
  <2>1. at \notin Inputs /\ ~counted /\ n_outargs \in Nat
    <3>1. IsFiniteSet(1..(at - 1))
      BY <1>2, FS_Interval
    <3>2. Cardinality(OutArguments(callable, at - 1)) \in Nat
      BY <3>1, FS_Subset, FS_CardinalityType DEF OutArguments
    <3> QED
      BY <1>1, <1>4, <1>8, <3>2 DEF collect_void, Collected
  <2>2. stage' = stage /\ jsargs' = jsargs /\ written' = written /\ n_outargs' = n_outargs
    BY <1>8 DEF collect_void, PassNothing
  <2> QED
    BY <1>1, <1>5, <2>1, <2>2
<1>9. CASE collect_out
  BY <1>1, <1>4, <1>5, <1>9 DEF collect_out, PassNothing
<1>10. CASE collect_skipped
  BY <1>1, <1>4, <1>5, <1>10 DEF collect_skipped, PassNothing, Counted
<1>11. CASE collect_value
  <2>1. CASE Pass
    BY <1>1, <1>4, <1>5, <1>11, <2>1 DEF collect_value, Pass, Counted
  <2> QED
    BY <1>6, <1>7, <1>11, <2>1 DEF collect_value
<1> QED
  BY <1>8, <1>9, <1>10, <1>11 DEF collect

LEMMA CollectedCounted ==
    ASSUME CInv, stage = "collect", at \notin Params
    PROVE  /\ at = Len(callable.args) + 1 /\ CountedResults
           /\ Cardinality(OutArguments(callable, Len(callable.args))) \in Nat
<1>1. at = Len(callable.args) + 1 /\ at - 1 = Len(callable.args) /\ Len(callable.args) \in Nat
  <2>1. callable \in Callables /\ at \in 0..(Len(callable.args) + 1) /\ at > 0
    BY DEF CInv
  <2>2. Len(callable.args) \in Nat
    BY <2>1, CallableFacts
  <2>3. at \notin 1..Len(callable.args)
    BY DEF Params
  <2> QED
    BY ONLY <2>1, <2>2, <2>3
<1>2. IsFiniteSet(1..Len(callable.args))
  BY <1>1, FS_Interval
<1>3. Cardinality(OutArguments(callable, Len(callable.args))) \in Nat
  BY <1>2, FS_Subset, FS_CardinalityType DEF OutArguments
<1> QED
  BY <1>1, <1>3 DEF CInv, Collected, CountedResults

LEMMA CallJSStep == CInv /\ call => CInv'
<1> SUFFICES ASSUME CInv, call PROVE CInv'
  OBVIOUS
<1> DEFINE n == Len(callable.args)
<1>1. /\ callable \in Callables /\ n \in Nat /\ stage = "collect" /\ at = n + 1
      /\ CountedResults /\ n_outargs \in Nat /\ elem_idx = 0
      /\ Typed(callable, types, n) /\ callable.returns \in BOOLEAN
      /\ callable' = callable /\ types' = types /\ n_outargs' = n_outargs /\ elem_idx' = elem_idx
      /\ written \in [Params \union {0} -> Int]
  BY CallableFacts, CollectedCounted DEF call, CInv, CountedResults, Collected
<1>2. CASE Fail /\ UNCHANGED at
  BY <1>1, <1>2, FailStep
<1>3. CASE /\ stage' = ResultIs /\ written' = written
           /\ at' = IF ResultIs = "elements" /\ callable.returns THEN 0 ELSE 1
  <2>1. stage' \in {"return", "argument", "elements"} /\ ResultIs' = ResultIs /\ CountedResults'
    BY <1>1, <1>3 DEF ResultIs, CountedResults
  <2>2. at' \in 0..(n + 1)
    BY <1>1, <1>3
  <2>3. stage' = "argument" => \A p \in Params' : p < at' => callable'.args[p].dir = "in"
    BY <1>1, <1>3, SameCallable DEF Params
  <2>4. stage' = "elements" => WrittenResults'
    <3> SUFFICES ASSUME stage' = "elements" PROVE WrittenResults'
      OBVIOUS
    <3>1. \A q \in Outputs : ~(q < at')
      BY <1>1, <1>3 DEF Outputs, Params
    <3>2. {q \in Outputs : q < at'} = {}
      BY <3>1
    <3>3. elem_idx' = Cardinality({q \in Outputs' : q < at'})
      BY <1>1, <3>2, SameCallable, FS_EmptySet
    <3>4. at' = 0 => callable'.returns
      BY <1>1, <1>3
    <3>5. \A q \in Outputs' : ~(q < at')
      BY <1>1, <3>1, SameCallable
    <3> QED
      BY <3>3, <3>4, <3>5 DEF WrittenResults
  <2>5. CallbackMatches'
    BY <2>1 DEF CallbackMatches
  <2>6. written' \in [Params' \union {0} -> Int]
    BY <1>1, <1>3, SameCallable
  <2> QED
    BY <1>1, <1>3, <2>1, <2>2, <2>3, <2>4, <2>5, <2>6 DEF CInv
<1> QED
  BY <1>2, <1>3 DEF call

LEMMA WhatResultIs ==
    /\ ResultIs = "return" => n_outargs = 0 /\ callable.returns
    /\ ResultIs = "argument" => n_outargs = 1 /\ ~callable.returns
    /\ ResultIs = "elements" => ~(n_outargs = 0 /\ callable.returns) /\ ~(n_outargs = 1 /\ ~callable.returns)
BY DEF ResultIs

(* What returned with all of its results in place.                         *)
LEMMA MatchesWhen ==
    ASSUME stage' = "returned", callable' = callable,
           callable.returns => written'[0] # Unwritten,
           ~VoidOutput => \A p \in Outputs :
                written'[p] = IF Cardinality(Outputs) = 1 THEN Whole ELSE Place(p)
    PROVE  CallbackMatches'
<1>1. ~VoidOutput' => \A p \in Outputs' :
            written'[p] = IF Cardinality(Outputs') = 1 THEN Whole ELSE Place(p)'
  BY SameCallable, SamePlaces
<1> QED
  BY <1>1 DEF CallbackMatches

LEMMA WriteReturnStep == CInv /\ write_return => CInv'
<1> SUFFICES ASSUME CInv, write_return PROVE CInv'
  OBVIOUS
<1>1. /\ callable \in Callables /\ Len(callable.args) \in Nat /\ stage = "return"
      /\ n_outargs = 0 /\ callable.returns /\ CountedResults
      /\ Typed(callable, types, Len(callable.args))
      /\ callable' = callable /\ types' = types /\ at' = at
      /\ at \in 0..(Len(callable.args) + 1)
      /\ written \in [Params \union {0} -> Int]
  BY CallableFacts, WhatResultIs DEF write_return, CInv
<1>2. CASE Fail
  BY <1>1, <1>2, FailStep
<1>3. CASE stage' = "returned" /\ written' = [written EXCEPT ![0] = Whole]
  <2>1. written'[0] = Whole /\ Whole # Unwritten /\ written' \in [Params' \union {0} -> Int]
    BY <1>1, <1>3, SameCallable DEF Whole, Unwritten
  <2>2. ~VoidOutput => \A p \in Outputs :
            written'[p] = IF Cardinality(Outputs) = 1 THEN Whole ELSE Place(p)
    <3> SUFFICES ASSUME ~VoidOutput
                 PROVE  \A p \in Outputs :
                            written'[p] = IF Cardinality(Outputs) = 1 THEN Whole ELSE Place(p)
      OBVIOUS
    <3>1. Cardinality(OutArguments(callable, Len(callable.args))) = 0
      BY <1>1 DEF CountedResults
    <3>2. Cardinality(Outputs) = 1
      BY <1>1, <3>1, ResultsCounted
    <3>3. IsFiniteSet(1..Len(callable.args)) /\ OutArguments(callable, Len(callable.args)) \subseteq 1..Len(callable.args)
      BY <1>1, FS_Interval DEF OutArguments
    <3>4. IsFiniteSet(OutArguments(callable, Len(callable.args)))
      BY <3>3, FS_Subset
    <3>5. OutArguments(callable, Len(callable.args)) = {}
      BY <3>1, <3>4, FS_EmptySet
    <3>6. Outputs \subseteq {0}
      BY <3>5 DEF Outputs, OutArguments, Params, VoidOutput
    <3> QED
      BY <2>1, <3>2, <3>6
  <2>3. CallbackMatches'
    BY <1>1, <1>3, <2>1, <2>2, MatchesWhen
  <2> QED
    BY <1>1, <1>3, <2>1, <2>3 DEF CInv
<1> QED
  BY <1>2, <1>3 DEF write_return

LEMMA WriteArgumentStep == CInv /\ write_argument => CInv'
<1> SUFFICES ASSUME CInv, write_argument PROVE CInv'
  OBVIOUS
<1>1. /\ callable \in Callables /\ Len(callable.args) \in Nat /\ stage = "argument"
      /\ n_outargs = 1 /\ ~callable.returns /\ CountedResults /\ ResultIs = "argument"
      /\ Typed(callable, types, Len(callable.args))
      /\ callable' = callable /\ types' = types /\ n_outargs' = n_outargs
      /\ at \in Params /\ Params = 1..Len(callable.args)
      /\ written \in [Params \union {0} -> Int]
      /\ \A p \in Params : p < at => callable.args[p].dir = "in"
      /\ param = callable.args[at]
  BY CallableFacts, WhatResultIs DEF write_argument, CInv, Params, param
<1>2. CASE Fail /\ at' = at
  BY <1>1, <1>2, FailStep
<1>3. CASE param.dir # "in" /\ stage' = "returned" /\ written' = [written EXCEPT ![at] = Whole] /\ at' = at
  <2>1. written'[at] = Whole /\ written' \in [Params' \union {0} -> Int]
    BY <1>1, <1>3, SameCallable DEF Whole
  <2>2. ~VoidOutput => \A p \in Outputs :
            written'[p] = IF Cardinality(Outputs) = 1 THEN Whole ELSE Place(p)
    <3> SUFFICES ASSUME ~VoidOutput
                 PROVE  \A p \in Outputs :
                            written'[p] = IF Cardinality(Outputs) = 1 THEN Whole ELSE Place(p)
      OBVIOUS
    <3>1. Cardinality(Outputs) = 1
      BY <1>1, ResultsCounted DEF CountedResults
    <3>2. at \in Outputs
      BY <1>1, <1>3 DEF Outputs
    <3>3. IsFiniteSet(Outputs)
      BY <1>1, OutputsFinite
    <3>4. \E x : Outputs = {x}
      BY <3>1, <3>3, FS_Singleton
    <3>5. Outputs = {at}
      BY <3>2, <3>4
    <3> QED
      BY <2>1, <3>1, <3>5
  <2>3. CallbackMatches'
    BY <1>1, <1>3, <2>2, MatchesWhen
  <2> QED
    BY <1>1, <1>3, <2>1, <2>3 DEF CInv
<1>4. CASE param.dir = "in" /\ at' = at + 1 /\ UNCHANGED <<stage, written>>
  <2>1. at' \in 0..(Len(callable.args) + 1)
    BY <1>1, <1>4
  <2>2. \A p \in Params : p < at' => callable.args[p].dir = "in"
    <3>1. \A p \in Params : p < at' => p < at \/ p = at
      BY <1>1, <1>4
    <3> QED
      BY <1>1, <1>4, <3>1
  <2>3. ResultIs' = ResultIs /\ CountedResults'
    BY <1>1 DEF ResultIs, CountedResults
  <2>4. written' \in [Params' \union {0} -> Int]
    BY <1>1, <1>4, SameCallable
  <2>5. CallbackMatches'
    BY <1>1, <1>4 DEF CallbackMatches
  <2> QED
    BY <1>1, <1>4, <2>1, <2>2, <2>3, <2>4, <2>5, SameCallable DEF CInv
<1> QED
  BY <1>2, <1>3, <1>4 DEF write_argument

LEMMA WriteElementStep == CInv /\ write_element => CInv'
<1> SUFFICES ASSUME CInv, write_element PROVE CInv'
  OBVIOUS
<1>1. /\ callable \in Callables /\ Len(callable.args) \in Nat /\ stage = "elements"
      /\ CountedResults /\ ResultIs = "elements" /\ WrittenResults
      /\ Typed(callable, types, Len(callable.args))
      /\ callable' = callable /\ types' = types /\ n_outargs' = n_outargs
      /\ at \in Params \union {0} /\ Params = 1..Len(callable.args)
      /\ written \in [Params \union {0} -> Int]
      /\ param = callable.args[at]
  BY CallableFacts DEF write_element, CInv, Params, param
<1>2. at + 1 \in 0..(Len(callable.args) + 1) /\ at + 1 # 0 /\ at \in Nat
  BY <1>1
<1>3. ResultIs' = ResultIs /\ CountedResults'
  BY <1>1 DEF ResultIs, CountedResults
<1>4. Outputs \subseteq Nat /\ \A q \in Outputs : (q < at + 1) <=> (q < at \/ q = at)
  BY <1>1, <1>2 DEF Outputs
<1>5. CASE Given /\ at' = at + 1 /\ UNCHANGED <<stage, written, elem_idx>>
  <2>1. at \notin Outputs
    BY <1>1, <1>5 DEF Given, Outputs
  <2>2. {q \in Outputs : q < at + 1} = {q \in Outputs : q < at}
    BY <1>4, <2>1
  <2>3. WrittenResults'
    <3>1. elem_idx' = Cardinality({q \in Outputs' : q < at'})
      BY <1>1, <1>5, <2>2, SameCallable DEF WrittenResults
    <3>2. \A q \in Outputs' : q < at' => written'[q] = Place(q)'
      <4>1. \A q \in Outputs : q < at + 1 => written[q] = Place(q)
        BY <1>1, <1>4, <2>1 DEF WrittenResults
      <4> QED
        BY <1>1, <1>5, <4>1, SameCallable, SamePlaces
    <3> QED
      BY <1>2, <1>5, <3>1, <3>2 DEF WrittenResults
  <2>4. written' \in [Params' \union {0} -> Int]
    BY <1>1, <1>5, SameCallable
  <2>5. CallbackMatches'
    BY <1>1, <1>5 DEF CallbackMatches
  <2> QED
    BY <1>1, <1>2, <1>3, <1>5, <2>3, <2>4, <2>5 DEF CInv
<1>6. CASE stage' = "crashed" /\ UNCHANGED <<at, written, elem_idx>>
  <2>1. written' \in [Params' \union {0} -> Int]
    BY <1>1, <1>6, SameCallable
  <2>2. CallbackMatches'
    BY <1>6 DEF CallbackMatches
  <2> QED
    BY <1>1, <1>6, <2>1, <2>2 DEF CInv
<1>7. CASE Fail /\ UNCHANGED at
  BY <1>1, <1>7, FailStep DEF CInv
<1>8. CASE /\ ~Given /\ elem_idx' = elem_idx + 1 /\ at' = at + 1 /\ UNCHANGED stage
           /\ written' = [written EXCEPT ![at] = elem_idx + 1]
  <2>1. at \in Outputs
    BY <1>1, <1>8 DEF Given, Outputs, WrittenResults
  <2> DEFINE S == {q \in Outputs : q < at}
  <2>2. IsFiniteSet(S) /\ Cardinality(S) \in Nat /\ at \notin S
    <3>1. S \in SUBSET Outputs /\ at \notin S
      BY <1>2
    <3> QED
      BY <1>1, <3>1, OutputsFinite
  <2>3. {q \in Outputs : q < at + 1} = S \union {at} /\ {q \in Outputs : q <= at} = S \union {at}
    <3>1. \A q \in Outputs : (q <= at) <=> (q < at \/ q = at)
      BY <1>2, <1>4
    <3> QED
      BY <1>4, <2>1, <3>1
  <2>4. Cardinality(S \union {at}) = Cardinality(S) + 1
    BY <2>2, FS_AddElement
  <2>5. elem_idx = Cardinality(S)
    BY <1>1 DEF WrittenResults
  <2>6. Place(at) = elem_idx + 1 /\ elem_idx \in Nat
    BY <2>2, <2>3, <2>4, <2>5 DEF Place
  <2>7. WrittenResults'
    <3>1. elem_idx' = Cardinality({q \in Outputs' : q < at'})
      BY <1>1, <1>8, <2>3, <2>4, <2>5, SameCallable
    <3>2. ASSUME NEW q \in Outputs, q < at + 1 PROVE written'[q] = Place(q)
      <4>1. q \in Params \union {0}
        BY DEF Outputs
      <4> QED
        BY <1>1, <1>4, <1>8, <2>6, <3>2, <4>1 DEF WrittenResults
    <3>3. \A q \in Outputs' : q < at' => written'[q] = Place(q)'
      BY <1>1, <1>8, <3>2, SameCallable, SamePlaces
    <3> QED
      BY <1>2, <1>8, <3>1, <3>3 DEF WrittenResults
  <2>8. written' \in [Params' \union {0} -> Int]
    BY <1>1, <1>8, <2>6, SameCallable
  <2>9. CallbackMatches'
    BY <1>1, <1>8 DEF CallbackMatches
  <2> QED
    BY <1>1, <1>2, <1>3, <1>8, <2>7, <2>8, <2>9 DEF CInv
<1> QED
  BY <1>5, <1>6, <1>7, <1>8 DEF write_element

LEMMA WriteDoneStep == CInv /\ write_done => CInv'
<1> SUFFICES ASSUME CInv, write_done PROVE CInv'
  OBVIOUS
<1>1. /\ callable \in Callables /\ Len(callable.args) \in Nat /\ stage = "elements"
      /\ CountedResults /\ ResultIs = "elements" /\ WrittenResults
      /\ Typed(callable, types, Len(callable.args))
      /\ callable' = callable /\ types' = types /\ at' = at /\ written' = written
      /\ stage' = "returned"
      /\ at = Len(callable.args) + 1
      /\ written \in [Params \union {0} -> Int]
  BY CallableFacts DEF write_done, CInv, Params
<1>2. \A q \in Outputs : q < at
  BY <1>1 DEF Outputs, Params
<1>3. \A q \in Outputs : written[q] = Place(q)
  BY <1>1, <1>2 DEF WrittenResults
<1>4. callable.returns => written[0] # Unwritten
  <2> SUFFICES ASSUME callable.returns PROVE written[0] # Unwritten
    OBVIOUS
  <2>1. 0 \in Outputs
    BY DEF Outputs
  <2>2. {q \in Outputs : q <= 0} \in SUBSET Outputs
    OBVIOUS
  <2>3. Place(0) \in Nat
    BY <1>1, <2>2, OutputsFinite DEF Place
  <2> QED
    BY <1>3, <2>1, <2>3 DEF Unwritten
<1>5. ~VoidOutput => Cardinality(Outputs) # 1
  <2> SUFFICES ASSUME ~VoidOutput PROVE Cardinality(Outputs) # 1
    OBVIOUS
  <2>1. Cardinality(Outputs) = n_outargs + (IF callable.returns THEN 1 ELSE 0)
    BY <1>1, ResultsCounted DEF CountedResults
  <2>2. n_outargs \in Nat
    <3>1. IsFiniteSet(1..Len(callable.args)) /\ OutArguments(callable, Len(callable.args)) \subseteq 1..Len(callable.args)
      BY <1>1, FS_Interval DEF OutArguments
    <3> QED
      BY <1>1, <3>1, FS_Subset, FS_CardinalityType DEF CountedResults
  <2> QED
    BY <1>1, <2>1, <2>2, WhatResultIs
<1>6. CallbackMatches'
  BY <1>1, <1>3, <1>4, <1>5, MatchesWhen
<1>7. written' \in [Params' \union {0} -> Int]
  BY <1>1, SameCallable
<1> QED
  BY <1>1, <1>6, <1>7 DEF CInv

(* However many arguments a callback has: JavaScript gets what C passes,   *)
(* in order, and C finds each result in the place of its position.         *)
THEOREM CallbacksAlwaysMatch == CallbackSpec => []CallbackMatches
<1>1. CInv /\ [CallbackNext]_callbackVars => CInv'
  <2> SUFFICES ASSUME CInv, [CallbackNext]_callbackVars PROVE CInv'
    OBVIOUS
  <2>1. CASE UNCHANGED callbackVars
    <3>1. UNCHANGED <<callable, stage, at, types, jsargs, n_outargs, elem_idx, written>>
      BY <2>1 DEF callbackVars
    <3>2. Params' = Params /\ Inputs' = Inputs /\ Outputs' = Outputs /\ VoidOutput' = VoidOutput
      BY <3>1, SameCallable
    <3>3. \A p : Place(p)' = Place(p)
      BY <3>1, SamePlaces
    <3>4. (stage = "collect" => Collected)'
      BY <3>1, <3>2 DEF CInv, Collected
    <3>5. ResultIs' = ResultIs /\ CountedResults' = CountedResults
      BY <3>1 DEF ResultIs, CountedResults
    <3>6. (stage = "elements" => WrittenResults)'
      BY <3>1, <3>2, <3>3 DEF CInv, WrittenResults
    <3>7. CallbackMatches'
      BY <3>1, <3>2, <3>3 DEF CInv, CallbackMatches
    <3> QED
      BY <3>1, <3>2, <3>4, <3>5, <3>6, <3>7 DEF CInv
  <2> QED
    BY <2>1, NewStep, ClosureStep, CollectStep, CallJSStep, WriteReturnStep, WriteArgumentStep,
       WriteElementStep, WriteDoneStep DEF CallbackNext
<1>2. CInv => CallbackMatches
  BY DEF CInv
<1> QED
  BY <1>1, <1>2, InitCInv, PTL DEF CallbackSpec


-----------------------------------------------------------------------------
(* Trampolines, for any number of them and any depth of calls and          *)
(* callbacks.                                                              *)

(* How often an element is in a sequence, at both ends of a push.          *)
LEMMA OccurrencesTyped ==
    ASSUME NEW S, NEW s \in Seq(S), NEW x
    PROVE  /\ IsFiniteSet({k \in DOMAIN s : s[k] = x})
           /\ Occurrences(s, x) \in Nat
           /\ Occurrences(s, x) = 0 <=> \A k \in DOMAIN s : s[k] # x
<1> DEFINE K == {k \in DOMAIN s : s[k] = x}
<1>1. IsFiniteSet(DOMAIN s)
  BY FS_Interval
<1>2. IsFiniteSet(K)
  BY <1>1, FS_Subset
<1>3. Cardinality(K) \in Nat /\ (Cardinality(K) = 0 <=> K = {})
  BY <1>2, FS_CardinalityType, FS_EmptySet
<1> QED
  BY <1>2, <1>3 DEF Occurrences

LEMMA OccurrencesPushed ==
    ASSUME NEW S, NEW s \in Seq(S), NEW y \in S, NEW x
    PROVE  Occurrences(<<y>> \o s, x) = Occurrences(s, x) + (IF x = y THEN 1 ELSE 0)
<1> DEFINE K == {k \in DOMAIN s : s[k] = x}
           L == {k + 1 : k \in K}
           t == <<y>> \o s
           M == {k \in DOMAIN t : t[k] = x}
<1>1. Occurrences(s, x) = Cardinality(K) /\ Occurrences(t, x) = Cardinality(M)
  BY DEF Occurrences
<1>2. IsFiniteSet(K)
  BY OccurrencesTyped
<1>3. /\ Len(t) = Len(s) + 1 /\ DOMAIN t = 1..(Len(s) + 1)
      /\ t[1] = y /\ \A k \in DOMAIN s : t[k + 1] = s[k]
  BY ConcatProperties, <<y>> \in Seq(S), Len(<<y>>) = 1
<1>4. ExistsBijection(K, L)
  <2> DEFINE f == [k \in K |-> k + 1]
  <2>1. f \in Bijection(K, L)
    BY DEF Bijection, Injection, Surjection, IsInjective
  <2> QED
    BY <2>1 DEF ExistsBijection
<1>5. IsFiniteSet(L) /\ Cardinality(L) = Cardinality(K) /\ 1 \notin L
  BY <1>2, <1>4, FS_Bijection
<1>6. M \ {1} = L
  BY <1>3
<1>7. CASE x = y
  <2>1. M = L \union {1}
    BY <1>3, <1>6, <1>7
  <2>2. Cardinality(M) = Cardinality(K) + 1
    BY <1>5, <2>1, FS_AddElement
  <2> QED
    BY <1>7, <1>1, <2>2
<1>8. CASE x # y
  <2>1. M = L
    BY <1>3, <1>5, <1>6, <1>8
  <2>2. Cardinality(K) \in Nat
    BY <1>2, FS_CardinalityType
  <2> HIDE DEF K, L, M
  <2> QED
    BY <1>5, <1>8, <1>1, <2>1, <2>2
<1> QED
  BY <1>7, <1>8

LEMMA OccurrencesPopped ==
    ASSUME NEW S, NEW s \in Seq(S), s # <<>>, NEW x
    PROVE  /\ Tail(s) \in Seq(S) /\ Head(s) \in S
           /\ Occurrences(s, x) = Occurrences(Tail(s), x) + (IF x = Head(s) THEN 1 ELSE 0)
<1> DEFINE t == <<Head(s)>> \o Tail(s)
<1>1. /\ Head(s) \in S /\ Tail(s) \in Seq(S)
      /\ Len(Tail(s)) = Len(s) - 1
      /\ \A i \in 1..Len(Tail(s)) : Tail(s)[i] = s[i + 1]
  BY HeadTailProperties
<1>2. /\ t \in Seq(S) /\ Len(t) = Len(s)
      /\ t[1] = Head(s) /\ \A i \in 1..Len(Tail(s)) : t[i + 1] = Tail(s)[i]
  BY <1>1, ConcatProperties, <<Head(s)>> \in Seq(S), Len(<<Head(s)>>) = 1
<1>3. \A i \in 1..Len(s) : t[i] = s[i]
  <2> SUFFICES ASSUME NEW i \in 1..Len(s) PROVE t[i] = s[i]
    OBVIOUS
  <2>1. CASE i = 1
    BY <1>2, <2>1
  <2>2. CASE i # 1
    <3>1. i - 1 \in 1..Len(Tail(s))
      BY <1>1, <2>2
    <3> QED
      BY <1>1, <1>2, <3>1
  <2> QED
    BY <2>1, <2>2
<1>4. t = s
  BY <1>2, <1>3, SeqEqual
<1>5. Occurrences(t, x) = Occurrences(Tail(s), x) + (IF x = Head(s) THEN 1 ELSE 0)
  <2> DEFINE h == Head(s)
             r == Tail(s)
  <2>1. h \in S /\ r \in Seq(S)
    BY <1>1
  <2> HIDE DEF h, r
  <2>2. Occurrences(<<h>> \o r, x) = Occurrences(r, x) + (IF x = h THEN 1 ELSE 0)
    BY <2>1, OccurrencesPushed
  <2> QED
    BY <2>2 DEF h, r
<1> HIDE DEF t
<1> QED
  BY <1>1, <1>4, <1>5

LEMMA OccurrencesEmpty == \A x : Occurrences(<<>>, x) = 0
BY FS_EmptySet DEF Occurrences

-----------------------------------------------------------------------------
Waiting(tr) == Occurrences(completed_trampolines, tr)

(* What holds of one trampoline, of any scope, passed or not.  That the    *)
(* closure of an asynchronous call runs once, and waits once, is what      *)
(* makes its last reference go only once.                                  *)
TrampolineInvAt(tr) ==
    /\ tr \in passed => scope[tr] # "unborn" /\ ref_count[tr] = Claims(tr)
    /\ tr \notin passed => Passing(tr) = 0 /\ Running(tr) = 0 /\ Waiting(tr) = 0
    /\ Passing(tr) <= 1
    /\ tr \in heldByC /\ scope[tr] = "CALL" => Passing(tr) = 1
    /\ scope[tr] = "ASYNC" => (IF tr \in heldByC THEN 1 ELSE 0) + Running(tr) + Waiting(tr) <= 1
    /\ scope[tr] # "ASYNC" => Waiting(tr) = 0
    /\ tr \in freed => scope[tr] # "unborn" /\ ref_count[tr] = 0

TrampolineInv == TrampolineTypeOK /\ \A tr \in Trampolines : TrampolineInvAt(tr)

LEMMA ReferencesTyped ==
    ASSUME TrampolineTypeOK, NEW tr \in Trampolines
    PROVE  Passing(tr) \in Nat /\ Running(tr) \in Nat /\ Waiting(tr) \in Nat
BY OccurrencesTyped DEF TrampolineTypeOK, Passing, Running, Waiting

(* Calls and returns change the counts of one trampoline.                  *)
LEMMA PushCounts ==
    ASSUME TrampolineTypeOK, NEW what \in {"c_function", "closure", "returning"},
           NEW tr \in Trampolines \union {NoTrampoline},
           what = "c_function" \/ tr \in Trampolines,
           calls' = <<[in |-> what, tr |-> tr]>> \o calls
    PROVE  /\ calls' \in Seq(Calls)
           /\ \A t \in Trampolines :
                /\ Passing(t)' = Passing(t) + (IF what = "c_function" /\ t = tr THEN 1 ELSE 0)
                /\ Running(t)' = Running(t) + (IF what = "closure" /\ t = tr THEN 1 ELSE 0)
<1> DEFINE f == [in |-> what, tr |-> tr]
<1>1. f \in Calls
  BY DEF Calls
<1>2. calls \in Seq(Calls)
  BY DEF TrampolineTypeOK
<1>3. calls' \in Seq(Calls)
  BY <1>1, <1>2, ConcatProperties, <<f>> \in Seq(Calls)
<1>4. ASSUME NEW t \in Trampolines, NEW w \in {"c_function", "closure"}
      PROVE  Occurrences(calls', [in |-> w, tr |-> t])
             = Occurrences(calls, [in |-> w, tr |-> t]) + (IF what = w /\ t = tr THEN 1 ELSE 0)
  <2>1. Occurrences(<<f>> \o calls, [in |-> w, tr |-> t])
        = Occurrences(calls, [in |-> w, tr |-> t]) + (IF [in |-> w, tr |-> t] = f THEN 1 ELSE 0)
    <3> HIDE DEF f
    <3> QED
      BY <1>1, <1>2, OccurrencesPushed
  <2>2. [in |-> w, tr |-> t] = f <=> what = w /\ t = tr
    OBVIOUS
  <2> QED
    BY <2>1, <2>2
<1> QED
  BY <1>3, <1>4 DEF Passing, Running

LEMMA PopCounts ==
    ASSUME TrampolineTypeOK, calls # <<>>
    PROVE  /\ Tail(calls) \in Seq(Calls) /\ Head(calls) \in Calls
           /\ \A t \in Trampolines, w \in {"c_function", "closure"} :
                Occurrences(calls, [in |-> w, tr |-> t])
                = Occurrences(Tail(calls), [in |-> w, tr |-> t])
                  + (IF Head(calls).in = w /\ Head(calls).tr = t THEN 1 ELSE 0)
<1>1. calls \in Seq(Calls)
  BY DEF TrampolineTypeOK
<1>2. Tail(calls) \in Seq(Calls) /\ Head(calls) \in Calls
  BY <1>1, HeadTailProperties
<1>3. ASSUME NEW t \in Trampolines, NEW w \in {"c_function", "closure"}
      PROVE  Occurrences(calls, [in |-> w, tr |-> t])
             = Occurrences(Tail(calls), [in |-> w, tr |-> t])
               + (IF Head(calls).in = w /\ Head(calls).tr = t THEN 1 ELSE 0)
  <2> DEFINE h == Head(calls)
             x == [in |-> w, tr |-> t]
  <2>1. Occurrences(calls, x) = Occurrences(Tail(calls), x) + (IF x = h THEN 1 ELSE 0)
    <3> HIDE DEF x
    <3> QED
      BY <1>1, OccurrencesPopped
  <2>2. x = h <=> h.in = w /\ h.tr = t
    BY <1>2 DEF Calls
  <2> QED
    BY <2>1, <2>2
<1> QED
  BY <1>2, <1>3

(* gwkjs_callback_trampoline_unref of some that have a reference to give.  *)
LEMMA UnrefCounts ==
    ASSUME freed \in SUBSET Trampolines,
           NEW refs \in [Trampolines -> Nat], NEW s \in SUBSET Trampolines,
           \A t \in s : refs[t] >= 1, UnrefEach(refs, s)
    PROVE  /\ ref_count' \in [Trampolines -> Nat] /\ freed' \in SUBSET Trampolines
           /\ \A t \in Trampolines :
                /\ ref_count'[t] = refs[t] - (IF t \in s THEN 1 ELSE 0)
                /\ t \in freed' => t \in freed \/ (t \in s /\ ref_count'[t] = 0)
BY DEF UnrefEach

(* The list of completed trampolines has each of its members once.         *)
LEMMA CompletedOnce ==
    ASSUME TrampolineInv
    PROVE  /\ ToSet(completed_trampolines) \in SUBSET Trampolines
           /\ \A t \in Trampolines :
                /\ Waiting(t) = (IF t \in ToSet(completed_trampolines) THEN 1 ELSE 0)
                /\ t \in ToSet(completed_trampolines) => t \in passed /\ ref_count[t] >= 1
<1>1. completed_trampolines \in Seq(Trampolines)
  BY DEF TrampolineInv, TrampolineTypeOK
<1>2. ToSet(completed_trampolines) \in SUBSET Trampolines
  BY <1>1 DEF ToSet
<1>3. ASSUME NEW t \in Trampolines
      PROVE  /\ Waiting(t) = (IF t \in ToSet(completed_trampolines) THEN 1 ELSE 0)
             /\ t \in ToSet(completed_trampolines) => t \in passed /\ ref_count[t] >= 1
  <2>1. /\ Passing(t) \in Nat /\ Running(t) \in Nat /\ Waiting(t) \in Nat
        /\ TrampolineInvAt(t)
    BY ReferencesTyped DEF TrampolineInv
  <2>2. Waiting(t) = 0 <=> t \notin ToSet(completed_trampolines)
    BY <1>1, OccurrencesTyped DEF Waiting, ToSet
  <2>3. Waiting(t) <= 1
    BY <2>1 DEF TrampolineInvAt
  <2>4. Waiting(t) = 1 => t \in passed /\ ref_count[t] >= 1
    BY <2>1 DEF TrampolineInvAt, Claims, Waiting
  <2> QED
    BY <2>1, <2>2, <2>3, <2>4
<1> QED
  BY <1>2, <1>3

-----------------------------------------------------------------------------
(* Each operation keeps the invariant.                                     *)
LEMMA PlainStep ==
    ASSUME TrampolineInv, gwkjs_invoke_c_function_plain PROVE TrampolineInv'
<1> DEFINE D == ToSet(completed_trampolines)
<1>1. /\ UnrefEach(ref_count, D) /\ completed_trampolines' = <<>>
      /\ Push("c_function", NoTrampoline)
      /\ UNCHANGED <<scope, passed, heldByC>>
  BY DEF gwkjs_invoke_c_function_plain
<1>2. /\ ref_count' \in [Trampolines -> Nat] /\ freed' \in SUBSET Trampolines
      /\ \A t \in Trampolines :
            /\ ref_count'[t] = ref_count[t] - Waiting(t)
            /\ t \in freed' => t \in freed \/ (t \in passed /\ ref_count'[t] = 0)
  <2> HIDE DEF D
  <2> QED
    BY ZenonT(40), <1>1, CompletedOnce, UnrefCounts DEF TrampolineInv, TrampolineTypeOK, D
<1>3. /\ calls' \in Seq(Calls)
      /\ \A t \in Trampolines : Passing(t)' = Passing(t) /\ Running(t)' = Running(t)
  <2>1. \A t \in Trampolines :
          /\ Passing(t)' = Passing(t) + (IF t = NoTrampoline THEN 1 ELSE 0)
          /\ Running(t)' = Running(t) + 0
    BY <1>1, PushCounts DEF Push, TrampolineInv
  <2>2. calls' \in Seq(Calls)
    BY <1>1, PushCounts DEF Push, TrampolineInv
  <2> QED
    BY <2>1, <2>2, ReferencesTyped, NoTrampolineAssumption DEF TrampolineInv
<1>4. TrampolineTypeOK'
  BY <1>1, <1>2, <1>3 DEF TrampolineInv, TrampolineTypeOK
<1>5. ASSUME NEW t \in Trampolines PROVE TrampolineInvAt(t)'
  <2>1. Waiting(t)' = 0
    BY <1>1, OccurrencesEmpty DEF Waiting
  <2>2. Passing(t) \in Nat /\ Running(t) \in Nat /\ Waiting(t) \in Nat /\ ref_count[t] \in Nat
    BY ReferencesTyped DEF TrampolineInv, TrampolineTypeOK
  <2>3. ref_count'[t] \in Nat
    BY <1>2
  <2>4. Claims(t)' = Claims(t) - Waiting(t)
    BY <1>1, <1>3, <2>1, <2>2 DEF Claims, Waiting
  <2> QED
    BY <1>1, <1>2, <1>3, <2>1, <2>2, <2>3, <2>4 DEF TrampolineInv, TrampolineInvAt
<1> QED
  BY <1>4, <1>5 DEF TrampolineInv

(* A trampoline that was not made yet has no part in anything.             *)
LEMMA Unborn ==
    ASSUME TrampolineInv, NEW tr \in Trampolines, scope[tr] = "unborn"
    PROVE  /\ tr \notin passed /\ tr \notin heldByC /\ tr \notin freed
           /\ Passing(tr) = 0 /\ Running(tr) = 0 /\ Waiting(tr) = 0
           /\ tr \notin ToSet(completed_trampolines)
<1>1. TrampolineInvAt(tr) /\ heldByC \subseteq passed
  BY DEF TrampolineInv, TrampolineTypeOK
<1> QED
  BY <1>1, CompletedOnce DEF TrampolineInvAt

LEMMA InvokeStep ==
    ASSUME TrampolineInv, NEW tr \in Trampolines, NEW s \in Scopes, gwkjs_invoke_c_function(tr, s)
    PROVE  TrampolineInv'
<1> DEFINE D == ToSet(completed_trampolines)
           refs == [ref_count EXCEPT ![tr] = InitialCount(s)]
<1>1. /\ scope[tr] = "unborn" /\ scope' = [scope EXCEPT ![tr] = s]
      /\ UnrefEach(refs, D) /\ completed_trampolines' = <<>>
      /\ passed' = passed \union {tr} /\ heldByC' = heldByC \union {tr}
      /\ Push("c_function", tr)
  BY DEF gwkjs_invoke_c_function
<1>2. /\ refs \in [Trampolines -> Nat] /\ refs[tr] = InitialCount(s)
      /\ \A t \in Trampolines \ {tr} : refs[t] = ref_count[t]
  BY DEF TrampolineInv, TrampolineTypeOK, InitialCount
<1>3. /\ ref_count' \in [Trampolines -> Nat] /\ freed' \in SUBSET Trampolines
      /\ \A t \in Trampolines :
            /\ ref_count'[t] = refs[t] - Waiting(t)
            /\ t \in freed' => t \in freed \/ (t \in passed /\ ref_count'[t] = 0)
  <2>1. D \in SUBSET Trampolines /\ \A t \in D : refs[t] >= 1
    BY <1>1, <1>2, CompletedOnce, Unborn
  <2>2. /\ ref_count' \in [Trampolines -> Nat] /\ freed' \in SUBSET Trampolines
        /\ \A t \in Trampolines :
              /\ ref_count'[t] = refs[t] - (IF t \in D THEN 1 ELSE 0)
              /\ t \in freed' => t \in freed \/ (t \in D /\ ref_count'[t] = 0)
    <3> HIDE DEF D, refs
    <3> QED
      BY <1>1, <1>2, <2>1, UnrefCounts DEF TrampolineInv, TrampolineTypeOK
  <2> QED
    BY <2>2, CompletedOnce
<1> HIDE DEF refs
<1>4. /\ calls' \in Seq(Calls)
      /\ \A t \in Trampolines :
            /\ Passing(t)' = Passing(t) + (IF t = tr THEN 1 ELSE 0)
            /\ Running(t)' = Running(t)
  <2>1. \A t \in Trampolines :
          /\ Passing(t)' = Passing(t) + (IF t = tr THEN 1 ELSE 0)
          /\ Running(t)' = Running(t) + 0
    BY <1>1, PushCounts DEF Push, TrampolineInv
  <2>2. calls' \in Seq(Calls)
    BY <1>1, PushCounts DEF Push, TrampolineInv
  <2> QED
    BY <2>1, <2>2, ReferencesTyped DEF TrampolineInv
<1>5. TrampolineTypeOK'
  BY <1>1, <1>3, <1>4, EmptySeq DEF TrampolineInv, TrampolineTypeOK
<1>6. ASSUME NEW t \in Trampolines PROVE TrampolineInvAt(t)'
  <2>1. Waiting(t)' = 0
    BY <1>1, OccurrencesEmpty DEF Waiting
  <2>2. Passing(t) \in Nat /\ Running(t) \in Nat /\ Waiting(t) \in Nat /\ ref_count[t] \in Nat
    BY ReferencesTyped DEF TrampolineInv, TrampolineTypeOK
  <2>3. ref_count'[t] \in Nat
    BY <1>3
  <2>4. CASE t = tr
    <3>0. /\ t \notin passed /\ t \notin freed
          /\ Passing(t) = 0 /\ Running(t) = 0 /\ Waiting(t) = 0
      BY <1>1, <2>4, Unborn
    <3>1. /\ t \in passed' /\ t \in heldByC' /\ t \notin freed' /\ scope'[t] = s
          /\ Passing(t)' = 1 /\ Running(t)' = 0 /\ ref_count'[t] = InitialCount(s)
      <4>1. t \in passed' /\ t \in heldByC' /\ t \notin freed' /\ scope'[t] = s
        BY <1>1, <1>3, <2>4, <3>0 DEF TrampolineInv, TrampolineTypeOK
      <4>2. Passing(t)' = 1 /\ Running(t)' = 0
        BY <1>4, <2>4, <3>0
      <4>3. ref_count'[t] = InitialCount(s)
        BY <1>2, <1>3, <2>4, <3>0 DEF InitialCount
      <4> QED
        BY <4>1, <4>2, <4>3
    <3>2. Claims(t)' = InitialCount(s)
      BY <2>1, <3>1 DEF Claims, Waiting, InitialCount
    <3> QED
      BY <2>1, <3>1, <3>2 DEF TrampolineInvAt, Scopes
  <2>5. CASE t # tr
    <3>1. /\ t \in passed' <=> t \in passed
          /\ t \in heldByC' <=> t \in heldByC
          /\ scope'[t] = scope[t] /\ Passing(t)' = Passing(t) /\ Running(t)' = Running(t)
          /\ ref_count'[t] = ref_count[t] - Waiting(t)
      BY <1>1, <1>2, <1>3, <1>4, <2>2, <2>5 DEF TrampolineInv, TrampolineTypeOK
    <3>2. Claims(t)' = Claims(t) - Waiting(t)
      BY <2>1, <2>2, <3>1 DEF Claims, Waiting
    <3> QED
      BY <1>3, <2>1, <2>2, <2>3, <3>1, <3>2 DEF TrampolineInv, TrampolineInvAt
  <2> QED
    BY <2>4, <2>5
<1> QED
  BY <1>5, <1>6 DEF TrampolineInv

LEMMA FailsStep ==
    ASSUME TrampolineInv, NEW tr \in Trampolines, NEW s \in Scopes, gwkjs_invoke_c_function_fails(tr, s)
    PROVE  TrampolineInv'
<1> DEFINE D == ToSet(completed_trampolines)
           refs == [ref_count EXCEPT ![tr] = InitialCount(s)]
<1>1. /\ scope[tr] = "unborn" /\ scope' = [scope EXCEPT ![tr] = s]
      /\ UnrefEach(refs, D \union {tr}) /\ completed_trampolines' = <<>>
      /\ UNCHANGED <<passed, heldByC, calls>>
  BY DEF gwkjs_invoke_c_function_fails
<1>2. /\ refs \in [Trampolines -> Nat] /\ refs[tr] >= 1
      /\ \A t \in Trampolines \ {tr} : refs[t] = ref_count[t]
  BY DEF TrampolineInv, TrampolineTypeOK, InitialCount
<1>3. D \in SUBSET Trampolines /\ \A t \in D \union {tr} : refs[t] >= 1
  BY <1>1, <1>2, CompletedOnce, Unborn
<1>4. /\ ref_count' \in [Trampolines -> Nat] /\ freed' \in SUBSET Trampolines
      /\ \A t \in Trampolines \ {tr} :
            /\ ref_count'[t] = ref_count[t] - Waiting(t)
            /\ t \in freed' => t \in freed \/ (t \in passed /\ ref_count'[t] = 0)
      /\ tr \in freed' => ref_count'[tr] = 0
  <2> DEFINE R == D \union {tr}
  <2>1. R \in SUBSET Trampolines
    BY <1>3
  <2>2. /\ ref_count' \in [Trampolines -> Nat] /\ freed' \in SUBSET Trampolines
        /\ \A t \in Trampolines :
              /\ ref_count'[t] = refs[t] - (IF t \in R THEN 1 ELSE 0)
              /\ t \in freed' => t \in freed \/ (t \in R /\ ref_count'[t] = 0)
    <3> HIDE DEF R, refs
    <3> QED
      BY <1>1, <1>2, <1>3, <2>1, UnrefCounts DEF TrampolineInv, TrampolineTypeOK, R
  <2> QED
    BY <1>1, <1>2, <2>2, CompletedOnce, Unborn
<1> HIDE DEF refs
<1>5. TrampolineTypeOK'
  BY <1>1, <1>4, EmptySeq DEF TrampolineInv, TrampolineTypeOK
<1>6. ASSUME NEW t \in Trampolines PROVE TrampolineInvAt(t)'
  <2>1. Waiting(t)' = 0
    BY <1>1, OccurrencesEmpty DEF Waiting
  <2>2. /\ Passing(t) \in Nat /\ Running(t) \in Nat /\ Waiting(t) \in Nat /\ ref_count[t] \in Nat
        /\ ref_count'[t] \in Nat
        /\ Passing(t)' = Passing(t) /\ Running(t)' = Running(t)
    BY <1>1, <1>4, ReferencesTyped DEF TrampolineInv, TrampolineTypeOK, Passing, Running
  <2>3. CASE t = tr
    <3>1. /\ t \notin passed' /\ t \notin heldByC' /\ scope'[t] = s
          /\ Passing(t)' = 0 /\ Running(t)' = 0
      BY <1>1, <2>2, <2>3, Unborn DEF TrampolineInv, TrampolineTypeOK
    <3> QED
      BY <1>4, <2>1, <2>3, <3>1 DEF TrampolineInvAt, Scopes
  <2>4. CASE t # tr
    <3>1. /\ t \in passed' <=> t \in passed
          /\ t \in heldByC' <=> t \in heldByC
          /\ scope'[t] = scope[t]
          /\ ref_count'[t] = ref_count[t] - Waiting(t)
      BY <1>1, <1>4, <2>4 DEF TrampolineInv, TrampolineTypeOK
    <3>2. Claims(t)' = Claims(t) - Waiting(t)
      BY <2>1, <2>2, <3>1 DEF Claims, Waiting
    <3> QED
      BY <1>4, <2>1, <2>2, <2>4, <3>1, <3>2 DEF TrampolineInv, TrampolineInvAt
  <2> QED
    BY <2>3, <2>4
<1> QED
  BY <1>5, <1>6 DEF TrampolineInv

LEMMA CallReleasesStep ==
    ASSUME TrampolineInv, release PROVE TrampolineInv'
<1> DEFINE tr == Head(calls).tr
           R == {tr} \ {NoTrampoline}
<1>1. /\ calls # <<>> /\ Head(calls).in = "c_function" /\ UnrefEach(ref_count, R)
      /\ heldByC' = heldByC \ {t \in R : scope[t] = "CALL"}
      /\ calls' = Tail(calls)
      /\ UNCHANGED <<scope, passed, completed_trampolines>>
  BY DEF release
<1>2. /\ calls' \in Seq(Calls) /\ R \in SUBSET Trampolines
      /\ \A t \in Trampolines :
            /\ Passing(t) = Passing(t)' + (IF t \in R THEN 1 ELSE 0)
            /\ Running(t) = Running(t)' + 0
  <2>1. /\ Tail(calls) \in Seq(Calls) /\ Head(calls) \in Calls
        /\ \A t \in Trampolines, w \in {"c_function", "closure"} :
              Occurrences(calls, [in |-> w, tr |-> t])
              = Occurrences(Tail(calls), [in |-> w, tr |-> t])
                + (IF Head(calls).in = w /\ Head(calls).tr = t THEN 1 ELSE 0)
    BY <1>1, PopCounts DEF TrampolineInv
  <2>2. R \in SUBSET Trampolines /\ \A t \in Trampolines : t \in R <=> tr = t
    BY <2>1, NoTrampolineAssumption DEF Calls
  <2> QED
    BY <1>1, <2>1, <2>2 DEF Passing, Running
<1>3. TrampolineTypeOK' /\ \A t \in Trampolines :
                    /\ ref_count'[t] = ref_count[t] - (IF t \in R THEN 1 ELSE 0)
                    /\ t \in freed' => t \in freed \/ (t \in R /\ ref_count'[t] = 0)
  <2>1. ASSUME NEW t \in R PROVE ref_count[t] >= 1
    <3>0. t \in Trampolines /\ Passing(t)' \in Nat
      BY <1>2, OccurrencesTyped DEF Passing
    <3>1. TrampolineInvAt(t) /\ Passing(t) >= 1
      BY <1>2, <3>0 DEF TrampolineInv
    <3>2. Passing(t) \in Nat /\ Running(t) \in Nat /\ Waiting(t) \in Nat
      BY <3>0, ReferencesTyped DEF TrampolineInv
    <3> QED
      BY <3>1, <3>2 DEF TrampolineInvAt, Claims, Waiting
  <2>2. /\ ref_count' \in [Trampolines -> Nat] /\ freed' \in SUBSET Trampolines
        /\ \A t \in Trampolines :
              /\ ref_count'[t] = ref_count[t] - (IF t \in R THEN 1 ELSE 0)
              /\ t \in freed' => t \in freed \/ (t \in R /\ ref_count'[t] = 0)
    <3> HIDE DEF R
    <3> QED
      BY <1>1, <1>2, <2>1, UnrefCounts DEF TrampolineInv, TrampolineTypeOK
  <2> QED
    BY <1>1, <1>2, <2>2 DEF TrampolineInv, TrampolineTypeOK
<1> HIDE DEF R
<1>4. ASSUME NEW t \in Trampolines PROVE TrampolineInvAt(t)'
  <2>1. /\ Passing(t) \in Nat /\ Running(t) \in Nat /\ Waiting(t) \in Nat /\ ref_count[t] \in Nat
        /\ Waiting(t)' = Waiting(t) /\ TrampolineInvAt(t)
    BY <1>1, ReferencesTyped DEF TrampolineInv, TrampolineTypeOK, Waiting
  <2>2. /\ Passing(t)' \in Nat /\ Running(t)' \in Nat /\ ref_count'[t] \in Nat
    BY <1>2, <1>3, OccurrencesTyped DEF TrampolineTypeOK, Passing, Running
  <2>3. t \in heldByC' <=> t \in heldByC /\ ~(t \in R /\ scope[t] = "CALL")
    BY <1>1
  <2>4. Claims(t)' = Claims(t) - (IF t \in R THEN 1 ELSE 0)
    <3>1. Passing(t) = Passing(t)' + (IF t \in R THEN 1 ELSE 0) /\ Running(t) = Running(t)'
      BY <1>2, <2>2
    <3> QED
      BY SMTT(30), <1>1, <2>1, <2>2, <2>3, <3>1 DEF Claims, Waiting
  <2>5. CASE t \in R
    <3>1. /\ Passing(t)' = 0 /\ Running(t)' = Running(t) /\ t \in passed
          /\ ref_count'[t] = ref_count[t] - 1 /\ Claims(t)' = Claims(t) - 1
          /\ t \in heldByC' <=> t \in heldByC /\ scope[t] # "CALL"
      BY <1>2, <1>3, <2>1, <2>2, <2>3, <2>4, <2>5 DEF TrampolineInvAt
    <3>2. t \notin freed
      BY <2>1, <2>2, <3>1 DEF TrampolineInvAt
    <3> QED
      BY <1>1, <1>3, <2>1, <3>1, <3>2 DEF TrampolineInvAt
  <2>6. CASE t \notin R
    <3>1. /\ Passing(t)' = Passing(t) /\ Running(t)' = Running(t)
          /\ ref_count'[t] = ref_count[t] /\ Claims(t)' = Claims(t)
          /\ t \in heldByC' <=> t \in heldByC
      BY <1>2, <1>3, <2>1, <2>2, <2>3, <2>4, <2>6 DEF Claims, Waiting
    <3> QED
      BY <1>1, <1>3, <2>1, <2>6, <3>1 DEF TrampolineInvAt
  <2> QED
    BY <2>5, <2>6
<1> QED
  BY <1>3, <1>4 DEF TrampolineInv

LEMMA CalledBackStep ==
    ASSUME TrampolineInv, NEW tr \in Trampolines, gwkjs_callback_closure(tr) PROVE TrampolineInv'
<1>1. /\ tr \in heldByC /\ ref_count' = [ref_count EXCEPT ![tr] = @ + 1]
      /\ heldByC' = heldByC \ (IF scope[tr] = "ASYNC" THEN {tr} ELSE {})
      /\ Push("closure", tr)
      /\ UNCHANGED <<scope, freed, passed, completed_trampolines>>
  BY DEF gwkjs_callback_closure
<1>2. \A t \in Trampolines : /\ Passing(t)' = Passing(t) + 0
                             /\ Running(t)' = Running(t) + (IF t = tr THEN 1 ELSE 0)
  BY <1>1, PushCounts DEF Push, TrampolineInv
<1>3. calls' \in Seq(Calls)
  BY <1>1, PushCounts DEF Push, TrampolineInv
<1>4. TrampolineTypeOK'
  BY <1>1, <1>3 DEF TrampolineInv, TrampolineTypeOK
<1>5. ASSUME NEW t \in Trampolines PROVE TrampolineInvAt(t)'
  <2>1. /\ Passing(t) \in Nat /\ Running(t) \in Nat /\ Waiting(t) \in Nat /\ ref_count[t] \in Nat
        /\ Waiting(t)' = Waiting(t) /\ TrampolineInvAt(t)
        /\ t \in heldByC => t \in passed
    BY <1>1, ReferencesTyped DEF TrampolineInv, TrampolineTypeOK, Waiting
  <2>2. CASE t = tr
    <3>1. /\ Passing(t)' = Passing(t) /\ Running(t)' = Running(t) + 1
          /\ ref_count'[t] = ref_count[t] + 1
          /\ t \in heldByC' <=> scope[t] # "ASYNC"
      BY <1>1, <1>2, <2>1, <2>2 DEF TrampolineInv, TrampolineTypeOK
    <3>2. Claims(t)' = Claims(t) + 1
      BY <1>1, <2>1, <2>2, <3>1 DEF Claims, Waiting, TrampolineInvAt
    <3>3. t \notin freed
      BY <1>1, <2>1, <2>2 DEF TrampolineInvAt, Claims, Waiting
    <3> QED
      BY <1>1, <2>1, <2>2, <3>1, <3>2, <3>3 DEF TrampolineInvAt
  <2>3. CASE t # tr
    <3>1. /\ Passing(t)' = Passing(t) /\ Running(t)' = Running(t)
          /\ ref_count'[t] = ref_count[t]
          /\ t \in heldByC' <=> t \in heldByC
      BY <1>1, <1>2, <2>1, <2>3 DEF TrampolineInv, TrampolineTypeOK
    <3>2. Claims(t)' = Claims(t)
      BY <1>1, <2>1, <3>1 DEF Claims, Waiting
    <3> QED
      BY <1>1, <2>1, <3>1, <3>2 DEF TrampolineInvAt
  <2> QED
    BY <2>2, <2>3
<1> QED
  BY <1>4, <1>5 DEF TrampolineInv

LEMMA ClosureOutStep ==
    ASSUME TrampolineInv, gwkjs_callback_closure_out PROVE TrampolineInv'
<1> DEFINE tr == Head(calls).tr
           Returned(t) == IF t = tr THEN 1 ELSE 0
<1>1. /\ calls # <<>> /\ Head(calls).in = "closure"
      /\ completed_trampolines' = Completed(tr)
      /\ UnrefEach(ref_count, {tr})
      /\ calls' = <<[in |-> "returning", tr |-> tr]>> \o Tail(calls)
      /\ UNCHANGED <<scope, passed, heldByC>>
  BY DEF gwkjs_callback_closure_out
<1>2. /\ Tail(calls) \in Seq(Calls) /\ tr \in Trampolines
      /\ \A t \in Trampolines, w \in {"c_function", "closure"} :
            Occurrences(calls, [in |-> w, tr |-> t])
            = Occurrences(Tail(calls), [in |-> w, tr |-> t])
              + (IF Head(calls).in = w /\ Head(calls).tr = t THEN 1 ELSE 0)
  BY <1>1, PopCounts DEF TrampolineInv, Calls
<1>3. /\ calls' \in Seq(Calls)
      /\ \A t \in Trampolines :
            /\ Passing(t) = Passing(t)' + 0 /\ Running(t) = Running(t)' + Returned(t)
            /\ Passing(t)' \in Nat /\ Running(t)' \in Nat
  <2> DEFINE f == [in |-> "returning", tr |-> tr]
  <2>1. f \in Calls
    BY <1>2 DEF Calls
  <2>2. calls' \in Seq(Calls)
    BY <1>1, <1>2, <2>1, ConcatProperties, <<f>> \in Seq(Calls)
  <2>3. ASSUME NEW t \in Trampolines, NEW w \in {"c_function", "closure"}
        PROVE  /\ Occurrences(calls', [in |-> w, tr |-> t])
                  = Occurrences(Tail(calls), [in |-> w, tr |-> t])
               /\ Occurrences(calls', [in |-> w, tr |-> t]) \in Nat
    <3> DEFINE x == [in |-> w, tr |-> t]
    <3>1. x # f
      OBVIOUS
    <3> HIDE DEF f, x
    <3>2. calls' = <<f>> \o Tail(calls)
      BY <1>1 DEF f
    <3>3. Occurrences(calls', x) = Occurrences(Tail(calls), x) + (IF x = f THEN 1 ELSE 0)
      <4> DEFINE rest == Tail(calls)
      <4>1. rest \in Seq(Calls)
        BY <1>2
      <4> HIDE DEF rest
      <4>2. Occurrences(<<f>> \o rest, x) = Occurrences(rest, x) + (IF x = f THEN 1 ELSE 0)
        BY <2>1, <4>1, OccurrencesPushed
      <4> QED
        BY <3>2, <4>2 DEF rest
    <3>4. Occurrences(calls', x) \in Nat /\ Occurrences(Tail(calls), x) \in Nat
      BY <1>2, <2>2, OccurrencesTyped
    <3>5. Occurrences(calls', x) = Occurrences(Tail(calls), x)
      BY <3>1, <3>3, <3>4
    <3> QED
      BY <3>4, <3>5 DEF x
  <2> QED
    BY <1>1, <1>2, <2>2, <2>3 DEF Passing, Running
<1>4. tr \in Trampolines /\ Running(tr) >= 1 /\ tr \in passed /\ ref_count[tr] >= 1
  <2>1. tr \in Trampolines
    BY <1>2
  <2>2. TrampolineInvAt(tr) /\ Running(tr) >= 1
    BY <1>3, <2>1 DEF TrampolineInv
  <2>3. Passing(tr) \in Nat /\ Running(tr) \in Nat /\ Waiting(tr) \in Nat
    BY <2>1, ReferencesTyped DEF TrampolineInv
  <2> QED
    BY <2>1, <2>2, <2>3 DEF TrampolineInvAt, Claims, Waiting
<1>5. /\ ref_count' \in [Trampolines -> Nat] /\ freed' \in SUBSET Trampolines
      /\ \A t \in Trampolines :
            /\ ref_count'[t] = ref_count[t] - Returned(t)
            /\ t \in freed' => t \in freed \/ (t = tr /\ ref_count'[t] = 0)
  <2> HIDE DEF tr
  <2>1. {tr} \in SUBSET Trampolines /\ \A t \in {tr} : ref_count[t] >= 1
    BY <1>4
  <2> QED
    BY ZenonT(40), <1>1, <2>1, UnrefCounts DEF TrampolineInv, TrampolineTypeOK
<1>6. /\ completed_trampolines' \in Seq(Trampolines)
      /\ \A t \in Trampolines :
            Waiting(t)' = Waiting(t) + (IF t = tr /\ scope[tr] = "ASYNC" THEN 1 ELSE 0)
  <2> HIDE DEF tr
  <2>1. completed_trampolines \in Seq(Trampolines)
    BY DEF TrampolineInv, TrampolineTypeOK
  <2>2. CASE scope[tr] = "ASYNC"
    <3>1. completed_trampolines' = <<tr>> \o completed_trampolines
      BY <1>1, <2>2 DEF Completed
    <3>2. completed_trampolines' \in Seq(Trampolines)
      BY <1>4, <2>1, <3>1, ConcatProperties, <<tr>> \in Seq(Trampolines)
    <3>3. \A t \in Trampolines :
            Occurrences(<<tr>> \o completed_trampolines, t)
            = Occurrences(completed_trampolines, t) + (IF t = tr THEN 1 ELSE 0)
      BY <1>4, <2>1, OccurrencesPushed
    <3> QED
      BY <2>2, <3>1, <3>2, <3>3 DEF Waiting
  <2>3. CASE scope[tr] # "ASYNC"
    <3>1. completed_trampolines' = completed_trampolines
      BY <1>1, <2>3 DEF Completed
    <3>2. \A t \in Trampolines : Waiting(t)' = Waiting(t) /\ Waiting(t) \in Nat
      BY <3>1, ReferencesTyped DEF TrampolineInv, Waiting
    <3> QED
      BY <2>1, <2>3, <3>1, <3>2
  <2> QED
    BY <2>2, <2>3
<1>7. TrampolineTypeOK'
  BY <1>1, <1>3, <1>5, <1>6 DEF TrampolineInv, TrampolineTypeOK
<1> HIDE DEF tr
<1>8. ASSUME NEW t \in Trampolines PROVE TrampolineInvAt(t)'
  <2>1. /\ Passing(t) \in Nat /\ Running(t) \in Nat /\ Waiting(t) \in Nat /\ ref_count[t] \in Nat
        /\ TrampolineInvAt(t)
        /\ t \in heldByC' <=> t \in heldByC
        /\ t \in heldByC => t \in passed
    BY <1>1, ReferencesTyped DEF TrampolineInv, TrampolineTypeOK
  <2>2. CASE t = tr
    <3>1. /\ Passing(t)' = Passing(t) /\ Running(t)' = Running(t) - 1
          /\ ref_count'[t] = ref_count[t] - 1 /\ t \notin freed
          /\ Waiting(t)' = Waiting(t) + (IF scope[t] = "ASYNC" THEN 1 ELSE 0)
      <4>1. Passing(t)' = Passing(t) /\ Running(t)' = Running(t) - 1
        BY <1>3, <2>1, <2>2
      <4>2. ref_count'[t] = ref_count[t] - 1
        BY <1>5, <2>1, <2>2
      <4>3. t \notin freed
        BY <1>4, <2>1, <2>2 DEF TrampolineInvAt
      <4> QED
        BY <1>6, <2>2, <4>1, <4>2, <4>3
    <3>2. Claims(t)' = Claims(t) - 1
      <4>1. CASE scope[t] = "ASYNC"
        <5>1. Waiting(t)' = Waiting(t) + 1 /\ scope'[t] = "ASYNC"
          BY <1>1, <3>1, <4>1
        <5> QED
          BY <2>1, <3>1, <4>1, <5>1 DEF Claims, Waiting
      <4>2. CASE scope[t] # "ASYNC"
        BY <1>1, <2>1, <3>1, <4>2 DEF Claims, Waiting
      <4> QED
        BY <4>1, <4>2
    <3>3. t \in passed /\ passed' = passed /\ scope' = scope /\ ref_count[t] = Claims(t)
          /\ Running(t) >= 1 /\ Passing(t) <= 1
      BY <1>1, <1>4, <2>1, <2>2 DEF TrampolineInvAt
    <3>4. /\ t \in heldByC' /\ scope[t] = "CALL" => Passing(t) = 1
          /\ scope[t] = "ASYNC" => (IF t \in heldByC' THEN 1 ELSE 0) + Running(t) + Waiting(t) <= 1
          /\ scope[t] # "ASYNC" => Waiting(t) = 0
          /\ t \in freed' => ref_count'[t] = 0
      BY <1>5, <2>1, <2>2, <3>1 DEF TrampolineInvAt
    <3>5. scope[t] # "unborn" /\ ref_count'[t] = Claims(t)'
      BY <2>1, <3>1, <3>2, <3>3 DEF TrampolineInvAt
    <3>6. CASE scope[t] = "ASYNC"
      <4>1. Waiting(t)' = Waiting(t) + 1
        BY <3>1, <3>6
      <4>2. (IF t \in heldByC' THEN 1 ELSE 0) + Running(t)' + Waiting(t)' <= 1
        BY <2>1, <3>1, <3>4, <3>6, <4>1
      <4> QED
        BY <3>1, <3>3, <3>4, <3>5, <3>6, <4>2 DEF TrampolineInvAt
    <3>7. CASE scope[t] # "ASYNC"
      <4>1. Waiting(t)' = 0
        BY <2>1, <3>1, <3>4, <3>7
      <4> QED
        BY <3>1, <3>3, <3>4, <3>5, <3>7, <4>1 DEF TrampolineInvAt
    <3> QED
      BY <3>6, <3>7
  <2>3. CASE t # tr
    <3>1. /\ Passing(t)' = Passing(t) /\ Running(t)' = Running(t)
          /\ ref_count'[t] = ref_count[t] /\ Waiting(t)' = Waiting(t)
          /\ t \in freed' => t \in freed
      BY <1>3, <1>5, <1>6, <2>1, <2>3
    <3>2. Claims(t)' = Claims(t)
      BY <1>1, <2>1, <3>1 DEF Claims, Waiting
    <3> QED
      BY <1>1, <2>1, <3>1, <3>2 DEF TrampolineInvAt
  <2> QED
    BY <2>2, <2>3
<1> QED
  BY <1>7, <1>8 DEF TrampolineInv

LEMMA ClosureReturnsStep ==
    ASSUME TrampolineInv, ClosureReturns PROVE TrampolineInv'
<1>1. /\ calls # <<>> /\ Head(calls).in = "returning" /\ calls' = Tail(calls)
      /\ UNCHANGED <<scope, ref_count, freed, passed, heldByC, completed_trampolines>>
  BY DEF ClosureReturns
<1>2. /\ calls' \in Seq(Calls)
      /\ \A t \in Trampolines : Passing(t) = Passing(t)' + 0 /\ Running(t) = Running(t)' + 0
  <2>1. /\ Tail(calls) \in Seq(Calls)
        /\ \A t \in Trampolines, w \in {"c_function", "closure"} :
              Occurrences(calls, [in |-> w, tr |-> t])
              = Occurrences(Tail(calls), [in |-> w, tr |-> t])
                + (IF Head(calls).in = w /\ Head(calls).tr = t THEN 1 ELSE 0)
    BY <1>1, PopCounts DEF TrampolineInv
  <2> QED
    BY <1>1, <2>1 DEF Passing, Running
<1>3. TrampolineTypeOK'
  BY <1>1, <1>2 DEF TrampolineInv, TrampolineTypeOK
<1>4. ASSUME NEW t \in Trampolines PROVE TrampolineInvAt(t)'
  <2>1. Passing(t)' \in Nat /\ Running(t)' \in Nat
    BY <1>2, OccurrencesTyped DEF Passing, Running
  <2>2. Passing(t)' = Passing(t) /\ Running(t)' = Running(t) /\ Waiting(t)' = Waiting(t)
    BY <1>1, <1>2, <2>1 DEF Waiting
  <2>3. Claims(t)' = Claims(t)
    BY <1>1, <2>2 DEF Claims, Waiting
  <2> QED
    BY <1>1, <2>2, <2>3 DEF TrampolineInv, TrampolineInvAt
<1> QED
  BY <1>3, <1>4 DEF TrampolineInv

LEMMA DestroyStep ==
    ASSUME TrampolineInv, NEW tr \in Trampolines, gwkjs_destroy_notify_callback(tr) PROVE TrampolineInv'
<1>1. /\ tr \in heldByC /\ scope[tr] = "NOTIFIED" /\ heldByC' = heldByC \ {tr}
      /\ UnrefEach(ref_count, {tr})
      /\ UNCHANGED <<scope, passed, completed_trampolines, calls>>
  BY DEF gwkjs_destroy_notify_callback
<1>2. tr \in passed /\ ref_count[tr] >= 1
  <2>1. /\ Passing(tr) \in Nat /\ Running(tr) \in Nat /\ Waiting(tr) \in Nat
        /\ TrampolineInvAt(tr) /\ tr \in passed
    BY <1>1, ReferencesTyped DEF TrampolineInv, TrampolineTypeOK
  <2> QED
    BY <1>1, <2>1 DEF TrampolineInvAt, Claims, Waiting
<1>3. /\ ref_count' \in [Trampolines -> Nat] /\ freed' \in SUBSET Trampolines
      /\ \A t \in Trampolines :
            /\ ref_count'[t] = ref_count[t] - (IF t = tr THEN 1 ELSE 0)
            /\ t \in freed' => t \in freed \/ (t = tr /\ ref_count'[t] = 0)
  <2>1. {tr} \in SUBSET Trampolines /\ \A t \in {tr} : ref_count[t] >= 1
    BY <1>2
  <2> QED
    BY <1>1, <2>1, UnrefCounts DEF TrampolineInv, TrampolineTypeOK
<1>4. TrampolineTypeOK'
  BY <1>1, <1>3 DEF TrampolineInv, TrampolineTypeOK
<1>5. ASSUME NEW t \in Trampolines PROVE TrampolineInvAt(t)'
  <2>1. /\ Passing(t) \in Nat /\ Running(t) \in Nat /\ Waiting(t) \in Nat /\ ref_count[t] \in Nat
        /\ Passing(t)' = Passing(t) /\ Running(t)' = Running(t) /\ Waiting(t)' = Waiting(t)
        /\ TrampolineInvAt(t)
    BY <1>1, ReferencesTyped DEF TrampolineInv, TrampolineTypeOK, Passing, Running, Waiting
  <2>2. CASE t = tr
    <3>1. ref_count'[t] = ref_count[t] - 1 /\ t \notin heldByC' /\ t \notin freed
      BY <1>1, <1>2, <1>3, <2>1, <2>2 DEF TrampolineInvAt
    <3>2. Claims(t)' = Claims(t) - 1
      BY <1>1, <2>1, <2>2, <3>1 DEF Claims, Waiting
    <3>3. /\ scope'[t] = "NOTIFIED" /\ scope[t] = "NOTIFIED" /\ t \in passed' /\ t \in passed
          /\ t \in freed' => ref_count'[t] = 0
      BY <1>1, <1>2, <1>3, <2>2, <3>1
    <3> QED
      BY <2>1, <3>1, <3>2, <3>3 DEF TrampolineInvAt
  <2>3. CASE t # tr
    <3>1. /\ ref_count'[t] = ref_count[t]
          /\ t \in heldByC' <=> t \in heldByC
          /\ t \in freed' => t \in freed
      BY <1>1, <1>3, <2>1, <2>3
    <3>2. Claims(t)' = Claims(t)
      BY <1>1, <2>1, <3>1 DEF Claims, Waiting
    <3> QED
      BY <1>1, <2>1, <3>1, <3>2 DEF TrampolineInvAt
  <2> QED
    BY <2>2, <2>3
<1> QED
  BY <1>4, <1>5 DEF TrampolineInv

-----------------------------------------------------------------------------
LEMMA InitTrampolineInv == TrampolineInit => TrampolineInv
<1> SUFFICES ASSUME TrampolineInit PROVE TrampolineInv
  OBVIOUS
<1>1. TrampolineTypeOK
  BY EmptySeq DEF TrampolineInit, TrampolineTypeOK
<1>2. \A t \in Trampolines : Passing(t) = 0 /\ Running(t) = 0 /\ Waiting(t) = 0
  BY OccurrencesEmpty DEF TrampolineInit, Passing, Running, Waiting
<1> QED
  BY <1>1, <1>2 DEF TrampolineInit, TrampolineInv, TrampolineInvAt

LEMMA NextTrampolineInv == TrampolineInv /\ [TrampolineNext]_trampolineVars => TrampolineInv'
<1> SUFFICES ASSUME TrampolineInv, [TrampolineNext]_trampolineVars PROVE TrampolineInv'
  OBVIOUS
<1>1. ASSUME NEW tr \in Trampolines, NEW s \in Scopes, gwkjs_invoke_c_function(tr, s) PROVE TrampolineInv'
  BY <1>1, InvokeStep
<1>2. ASSUME NEW tr \in Trampolines, NEW s \in Scopes, gwkjs_invoke_c_function_fails(tr, s)
      PROVE TrampolineInv'
  BY <1>2, FailsStep
<1>3. CASE gwkjs_invoke_c_function_plain
  BY <1>3, PlainStep
<1>4. CASE release
  BY <1>4, CallReleasesStep
<1>5. ASSUME NEW tr \in Trampolines, gwkjs_callback_closure(tr) PROVE TrampolineInv'
  BY <1>5, CalledBackStep
<1>6. ASSUME NEW tr \in Trampolines, gwkjs_destroy_notify_callback(tr) PROVE TrampolineInv'
  BY <1>6, DestroyStep
<1>7. CASE gwkjs_callback_closure_out
  BY <1>7, ClosureOutStep
<1>8. CASE ClosureReturns
  BY <1>8, ClosureReturnsStep
<1>9. CASE UNCHANGED trampolineVars
  BY <1>9 DEF trampolineVars, TrampolineInv, TrampolineTypeOK, TrampolineInvAt, Claims, Passing, Running, Waiting
<1> QED
  BY <1>1, <1>2, <1>3, <1>4, <1>5, <1>6, <1>7, <1>8, <1>9 DEF TrampolineNext

(* Nobody meets a trampoline that is gone: neither C, nor a release loop,  *)
(* nor JavaScript that runs in it, nor the list of completed ones.         *)
LEMMA NoneMet == TrampolineInv => NoUseAfterFree
<1> SUFFICES ASSUME TrampolineInv, NEW tr \in freed
             PROVE  /\ tr \notin heldByC
                    /\ ~Contains(completed_trampolines, tr)
                    /\ \A k \in DOMAIN calls : calls[k].tr = tr => calls[k].in = "returning"
  BY DEF NoUseAfterFree
<1>1. /\ tr \in Trampolines /\ TrampolineInvAt(tr)
      /\ calls \in Seq(Calls) /\ completed_trampolines \in Seq(Trampolines)
      /\ tr \in heldByC => tr \in passed
  BY DEF TrampolineInv, TrampolineTypeOK
<1>2. Passing(tr) \in Nat /\ Running(tr) \in Nat /\ Waiting(tr) \in Nat
  BY <1>1, ReferencesTyped DEF TrampolineInv
<1>3. Passing(tr) = 0 /\ Running(tr) = 0 /\ Waiting(tr) = 0 /\ tr \notin heldByC
  BY <1>1, <1>2 DEF TrampolineInvAt, Claims, Waiting
<1>4. ~Contains(completed_trampolines, tr)
  <2>1. \A k \in DOMAIN completed_trampolines : completed_trampolines[k] # tr
    BY <1>1, <1>3, OccurrencesTyped DEF Waiting
  <2> QED
    BY <1>1, <2>1 DEF Contains
<1>5. \A k \in DOMAIN calls : /\ calls[k] # [in |-> "c_function", tr |-> tr]
                              /\ calls[k] # [in |-> "closure", tr |-> tr]
  BY <1>1, <1>3, OccurrencesTyped DEF Passing, Running
<1>6. \A k \in DOMAIN calls : calls[k].tr = tr => calls[k].in = "returning"
  <2> SUFFICES ASSUME NEW k \in DOMAIN calls, calls[k].tr = tr PROVE calls[k].in = "returning"
    OBVIOUS
  <2>1. calls[k] \in Calls
    BY <1>1, ElementOfSeq
  <2> QED
    BY <1>5, <2>1 DEF Calls
<1> QED
  BY <1>3, <1>4, <1>6

(* gi/function.cpp: however calls, callbacks and destroy notifications     *)
(* nest, no trampoline is used after it was freed.                         *)
THEOREM NeverUsedAfterFree == TrampolineSpec => []NoUseAfterFree
<1> QED
  BY InitTrampolineInv, NextTrampolineInv, NoneMet, PTL DEF TrampolineSpec

(* gi/function.cpp: the references of every trampoline C was given are     *)
(* those that the calls, C and the list of completed ones give back.       *)
THEOREM ReferencesClaimed == TrampolineSpec => []EveryReferenceClaimed
<1>1. TrampolineInv => EveryReferenceClaimed
  BY DEF TrampolineInv, TrampolineInvAt, TrampolineTypeOK, EveryReferenceClaimed
<1> QED
  BY <1>1, InitTrampolineInv, NextTrampolineInv, PTL DEF TrampolineSpec
=============================================================================
