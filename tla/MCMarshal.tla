----------------------------- MODULE MCMarshal -----------------------------
(***************************************************************************)
(* Arguments of every type, and containers of every kind of element, with  *)
(* widths of 3, 4, 5 and 7 bits; and variants: one or the other.           *)
(***************************************************************************)
EXTENDS Variants, TLC

MCHalf == 8 :> 4 @@ 16 :> 8 @@ 32 :> 16 @@ 64 :> 64
MCEnumValues == "enum" :> {-2, 0, 3} @@ "unsigned_enum" :> {0, 3, 17}
MCFlagValues == 0..3

T(tag)        == [tag |-> tag, iface |-> "none", array |-> "none", sub |-> << >>]
I(iface)      == [T("interface") EXCEPT !.iface = iface]
L(tag, e)     == [T(tag) EXCEPT !.sub = <<e>>]
H(k, e)       == [T("ghash") EXCEPT !.sub = <<k, e>>]
A(array, e)   == [T("array") EXCEPT !.array = array, !.sub = <<e>>]

Scalars == {T(tag) : tag \in IntegerTags \union {"float", "double", "boolean", "unichar", "gtype"}}
           \union {I(i) : i \in {"enum", "unsigned_enum", "flags"}}
Pointers == {T(tag) : tag \in {"utf8", "filename", "error", "void"}}
            \union {I(i) : i \in {"gvalue", "object", "param", "union", "foreign", "struct", "closure"}}
Elements == {T("utf8"), T("filename"), T("uint8"), T("int8"), T("int32"), T("uint32"), T("int64"),
             T("double"), T("gtype"), I("object"), I("gvalue"), I("gvalue_flat"), I("enum"), L("glist", T("utf8"))}
ListElements == {T("utf8"), I("object"), I("foreign"), L("glist", T("utf8"))}
Arrays == {A(a, e) : a \in {"length", "zero", "GArray"}, e \in Elements}
          \union {A(a, e) : a \in {"fixed", "GPtrArray"}, e \in {T("utf8"), I("object")}}
          \union {A("fixed", T("int32"))}
Collections == Arrays \union {L(tag, e) : tag \in {"glist", "gslist"}, e \in ListElements}
               \union {H(T("utf8"), e) : e \in ListElements}

Argument(t, dir, transfer, nullable) ==
    [type |-> t, dir |-> dir, transfer |-> transfer, nullable |-> nullable]
Dirs == {"in", "out", "inout", "return", "parameter", "callback"}
Instances == {I(i) : i \in {"object", "param", "union", "struct", "fundamental", "gtype_struct"}}

MCArguments ==
    {Argument(t, dir, "nothing", FALSE) : t \in Scalars, dir \in Dirs}
    \union {Argument(t, dir, transfer, nullable) :
                t \in Pointers, dir \in Dirs, transfer \in {"nothing", "everything"}, nullable \in BOOLEAN}
    \union {Argument(t, "instance", transfer, FALSE) :
                t \in Instances, transfer \in {"nothing", "everything"}}
    \union {Argument(t, dir, transfer, FALSE) :
                t \in Collections, dir \in Dirs, transfer \in {"nothing", "container", "everything"}}

(* JavaScript values: every number at and around the boundaries for a      *)
(* number, a few of each kind otherwise.                                   *)
Kinds == {NaN, Null, Undefined, JS("boolean", 1, << >>), Number(2), Number(3), Number(32),
          JS("string", 1, << >>),
          JS("object", 1, << >>), JS("param", 1, << >>),
          JS("foreign", 1, << >>), JS("array", 0, << >>), JS("dict", 0, << >>)}
Borders == {0} \union UNION {{-Half[w], Half[w], 2 * Half[w]} : w \in Widths}
Numbers_ == {Number(2 * b + k) : b \in Borders, k \in -3..3}

RECURSIVE Some(_), Made(_)
(* One or two values of a type, and one that is not.                       *)
Some(t) ==
    CASE t.tag \in {"utf8", "filename"} -> {JS("string", 1, << >>), Null}
      [] t.tag \in {"int8", "int32", "int64"} -> {Number(2), Number(-6), Number(10)}
      [] t.tag \in {"uint8", "uint32"} -> {Number(2), Number(10)}
      [] t.tag = "double" -> {Number(3), NaN}
      [] t.tag = "gtype" -> {JS("object", 1, << >>)}
      [] t.tag = "interface" /\ t.iface = "enum" -> {Number(6), Number(2)}
      [] t.tag = "interface" /\ t.iface \in {"object", "foreign"} -> {JS(t.iface, 1, << >>), Null}
      [] t.tag = "interface" /\ t.iface \in {"gvalue", "gvalue_flat"} -> {JS("string", 1, << >>), Undefined}
      [] t.tag = "glist" -> {JS("array", 0, << >>), JS("array", 0, <<JS("string", 1, << >>)>>), Null}

Seqs(S) == {<< >>} \union {<<a>> : a \in S} \union {<<a, b>> : a, b \in S}

MCInputs(arg_) ==
    IF arg_.dir \in {"out", "return", "parameter"} THEN {Undefined}
    ELSE IF arg_.dir = "instance" THEN {v \in Kinds : IsObject(v)}
    ELSE IF arg_.type \in Scalars THEN Kinds \union Numbers_
    ELSE IF arg_.type \in Collections
         THEN {Null, JS("string", 0, << >>), JS("string", 1, << >>)} \union
              (IF arg_.type.tag = "ghash"
               THEN {JS("dict", 0, <<JS("string", 1, << >>), a>> \o s) :
                        a \in Some(arg_.type.sub[2]),
                        s \in {<< >>} \union {<<JS("string", 2, << >>), b>> : b \in Some(arg_.type.sub[2])}}
               ELSE {JS("array", 0, s) : s \in Seqs(Some(arg_.type.sub[1]))})
    ELSE Kinds

(* C values of a type.                                                     *)
Made(t) ==
    CASE t.tag \in IntegerTags -> {C("int", i, << >>) : i \in {0, 1, 3, -2} \intersect RangeOf(t.tag)}
      [] t.tag \in {"float", "double"} -> {C("double", 3, << >>), C("NaN", 0, << >>)}
      [] t.tag \in {"boolean", "unichar", "gtype"} -> {C("int", 1, << >>)}
      [] t.tag \in {"utf8", "filename"} -> {C("string", 1, << >>)}
      [] t.tag \in {"error"} -> {C("error", 1, << >>)}
      [] t.tag = "void" -> {C("int", 1, << >>)}
      [] t.tag = "interface" /\ t.iface = "enum" -> {C("int", i, << >>) : i \in {-2, 3, 1}}
      [] t.tag = "interface" /\ t.iface = "unsigned_enum" -> {C("int", i, << >>) : i \in {3, Wrap(17, 32)}}
      [] t.tag = "interface" /\ t.iface = "flags" -> {C("int", i, << >>) : i \in {3, 4}}
      [] t.tag = "interface" /\ t.iface \in {"gvalue", "gvalue_flat"} ->
            {C("gvalue", 0, <<C("STRING", 0, <<C("string", 1, << >>)>>)>>),
             C("gvalue", 0, <<C("STRING", 0, <<NULL>>)>>),
             C("gvalue", 0, <<C("HASH", 0, <<C("hash", 1, << >>)>>)>>)}
      [] t.tag = "interface" -> {C(t.iface, 1, << >>)}
      [] t.tag \in {"glist", "gslist"} -> {NULL} \union {C("list", 0, s) : s \in Seqs(Made(t.sub[1])) \ {<< >>}}
      [] t.tag = "ghash" -> {C("hash", 0, << >>)} \union
                            {C("hash", 0, <<C(is, 1, << >>), a>>) : is \in {"string", "bytes"}, a \in Made(t.sub[2])}
      [] t.tag = "array" ->
            {NULL} \union {C("array", 0, s) : s \in Seqs(Made(t.sub[1]) \ (IF t.array = "zero" THEN {NULL} ELSE {}))}

MCOutputs(arg_) ==
    IF arg_.dir \in {"in", "instance", "callback"} THEN {NULL}
    ELSE Made(arg_.type) \union
         (IF arg_.type.tag \in Strings THEN {C("bytes", 1, << >>)} ELSE {}) \union
         (IF arg_.nullable /\ arg_.type \in Pointers THEN {NULL} ELSE {})

-----------------------------------------------------------------------------
Ty(kind, sub) == [kind |-> kind, sub |-> sub]
Simple == {Ty(k, << >>) : k \in {"b", "y", "i", "s"}}
Leaf == Simple \union {Ty("v", << >>)}

(* Every type around a type, twice, and pairs of them.                     *)
Around(S) ==
    {Ty(k, <<t>>) : k \in {"m", "a", "("}, t \in S}
    \union {Ty("{", <<k, t>>) : k \in {Ty("s", << >>), Ty("v", << >>)}, t \in S}
    \union {Ty("a", <<Ty("{", <<Ty("s", << >>), t>>)>>) : t \in S}
    \union {Ty("(", <<a, b>>) : a \in S, b \in {Ty("s", << >>)}}
Few == {Ty("b", << >>), Ty("s", << >>)}
MCTypes == Leaf \union {Ty("(", << >>)} \union Around(Leaf) \union Around(Around(Few))

(* Also signatures that end too early, go on, or never were a type.        *)
Spelt == {Spell(t) : t \in MCTypes}
MCSignatures ==
    Spelt \union {SubSeq(s, 1, Len(s) - 1) : s \in Spelt}
    \union {Append(Spell(t), c) : t \in Around(Few), c \in {"s", ")", "}", "a"}}

Texts(n) == JS("string", n, << >>)
Wrapped == VariantJS(Variant("b", C("int", 1, << >>), << >>))
Atoms == {JS("boolean", 1, << >>), Number(2), Texts(1), Wrapped, Null, Undefined}
Pairs(S) == {JS("array", 0, << >>)} \union {JS("array", 0, <<a>>) : a \in S}
            \union {JS("array", 0, <<a, b>>) : a \in S, b \in {Texts(1), JS("boolean", 0, << >>)}}
            \union {JS("dict", 0, << >>)} \union {JS("dict", 0, <<Texts(1), a>>) : a \in S}
            \union {JS("dict", 0, <<Texts(1), a, Texts(2), Texts(1)>>) : a \in S}
Flat == Atoms \union Pairs(Atoms)
Nested == Pairs({JS("array", 0, << >>), JS("array", 0, <<Texts(1)>>), Null}
                \union {JS("array", 0, <<Texts(1), a>>) : a \in Atoms}
                \union {JS("dict", 0, <<Texts(1), a>>) : a \in {Texts(1), JS("boolean", 1, << >>)}})
MCPacked(s) == Flat \union (IF Len(s) < 3 THEN {} ELSE Nested)

(* Elements are converted like values.  The LETs keep the profiler of TLC  *)
(* from going round this circle.                                           *)
MCToC(t, transfer, nullable, v) == LET r == ToC(t, transfer, nullable, v) IN r
MCFromC(t, c) == LET r == FromC(t, c) IN r
MCRelease(t, transfer, c) == LET r == Release(t, transfer, c) IN r
MCBelongings(t, transfer, c) == LET r == Belongings(t, transfer, c) IN r
MCCarries(t, v) == LET r == Carries(t, v) IN r

MCInit ==
    \/ MarshalInit /\ at = "no" /\ sig = << >> /\ given = Undefined /\ packed = NotPacked /\ got = Undefined
    \/ /\ VariantInit
       /\ pc = "no" /\ input = Undefined /\ in = NULL /\ out = NULL /\ echoed = FALSE
       /\ owned = {} /\ stray = {} /\ failed = FALSE /\ js = Undefined
       /\ arg = Argument(T("boolean"), "return", "nothing", FALSE)

MCNext ==
    \/ MarshalNext /\ UNCHANGED variantVars
    \/ VariantNext /\ UNCHANGED marshalVars

MCSpec == MCInit /\ [][MCNext]_<<marshalVars, variantVars>>
=============================================================================
