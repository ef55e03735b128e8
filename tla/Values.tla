------------------------------- MODULE Values -------------------------------
(***************************************************************************)
(* gi/value.cpp: JavaScript values to and from GValues, whose type is      *)
(* known at run time.  A conversion is a set of results, because a cast of *)
(* a double that does not fit has several.                                 *)
(*                                                                         *)
(* C values have the shape of the JavaScript ones: integers count ones,    *)
(* doubles halves, and "NULL" is the null pointer.  Boxed structures,      *)
(* errors and GTypes only go one way or none: their type checks and        *)
(* constructors are not implemented in this port and always fail.          *)
(***************************************************************************)
EXTENDS Numbers, Sequences

C(is, n, sub) == [is |-> is, n |-> n, sub |-> sub]
NULL == C("NULL", 0, << >>)

(* INT64 stands for the integer types value.cpp has no case for, HASH for  *)
(* the containers whose elements a GValue does not describe.               *)
GTypes == {"STRING", "CHAR", "UCHAR", "INT", "UINT", "INT64", "DOUBLE", "FLOAT",
           "BOOLEAN", "OBJECT", "STRV", "BOXED", "UNION", "FOREIGN", "VARIANT",
           "ENUM", "FLAGS", "PARAM", "GTYPE", "POINTER", "HASH"}

ValueIs(cs)  == {[ok |-> TRUE, c |-> c] : c \in cs}
ValueRefused == {[ok |-> FALSE, c |-> NULL]}
Ints(ns)     == ValueIs({C("int", i, << >>) : i \in ns})

IntsIn(results, valid(_)) ==
    {IF r.ok /\ valid(r.n) THEN [ok |-> TRUE, c |-> C("int", r.n, << >>)]
     ELSE [ok |-> FALSE, c |-> NULL] : r \in results}

AnyInt(i) == TRUE

JsIs(js)   == [ok |-> TRUE, js |-> js]
JsRefused  == [ok |-> FALSE, js |-> Undefined]
Crashes    == [ok |-> FALSE, js |-> JS("crash", 0, << >>)]

-----------------------------------------------------------------------------
(* gwkjs/jsapi-util-string.cpp.  A C string that is not UTF-8 is "bytes"; a *)
(* file name that the file system's encoding lacks is refused.             *)
gwkjs_string_to_utf8(v) ==
    IF v.is = "string" THEN ValueIs({C("string", v.n, << >>)}) ELSE ValueRefused

gwkjs_string_from_utf8(c) == IF c.is = "bytes" THEN JsRefused ELSE JsIs(JS("string", c.n, << >>))

gwkjs_string_to_filename(v) ==
    UNION {IF r.ok THEN {r} \union ValueRefused ELSE {r} : r \in gwkjs_string_to_utf8(v)}

gwkjs_string_from_filename(c) == gwkjs_string_from_utf8(c)

(* The 16 bit units of a string, at most one of them here; the copy of an  *)
(* empty string is NULL, which is not an error.                            *)
gwkjs_string_get_uint16_data(v) ==
    CASE v.is # "string" -> ValueRefused
      [] v.is = "string" /\ v.n = 0 -> ValueIs({NULL})
      [] v.is = "string" /\ v.n # 0 -> ValueIs({C("array", 0, <<C("int", v.n, << >>)>>)})

(* The first character, 0 of an empty string.                              *)
gwkjs_unichar_from_string(v) ==
    {[r EXCEPT !.c = C("int", @.n, << >>)] : r \in gwkjs_string_to_utf8(v)}

-----------------------------------------------------------------------------
(* _is_int: a number is in halves, and casting it to 64 bits gives it back. *)
_is_int(v) == v.is = "number" /\ v.n % 2 = 0 /\ v.n \div 2 \in SInt(64)

(* gi/gtype.cpp: looking for the GType of an object is not implemented, it *)
(* only warns and is the invalid one.                                      *)
gwkjs_gtype_get_actual_gtype == "INVALID"

(* gwkjs_value_guess_g_type.                                               *)
gwkjs_value_guess_g_type(v) ==
    CASE v.is = "null"    -> "POINTER"
      [] v.is = "string"  -> "STRING"
      [] v.is \in {"number", "NaN"} -> IF _is_int(v) THEN "INT" ELSE "DOUBLE"
      [] v.is = "boolean" -> "BOOLEAN"
      [] OTHER -> IF IsObject(v) THEN gwkjs_gtype_get_actual_gtype ELSE "INVALID"

(* gwkjs_object_require_property, asked for the length: arrays have one,   *)
(* and strings, whose elements are their characters.                       *)
gwkjs_object_require_property(v) == v.is \in {"array", "string"}
ElementsOf(v) ==
    IF v.is = "array" THEN v.sub ELSE IF v.n = 0 THEN << >> ELSE <<v>>

(* gwkjs_array_to_strv: every element must be a string.                    *)
gwkjs_array_to_strv(v) ==
    LET strings == ElementsOf(v) IN
    IF \A i \in DOMAIN strings : strings[i].is = "string"
    THEN ValueIs({C("strv", 0, [i \in DOMAIN strings |-> C("string", strings[i].n, << >>)])})
    ELSE ValueRefused

(* gwkjs_array_from_strv.  It reads the first element of NULL.             *)
gwkjs_array_from_strv(c) ==
    LET elems == [i \in DOMAIN c.sub |-> gwkjs_string_from_utf8(c.sub[i])] IN
    CASE c.is = "NULL" -> Crashes
      [] c.is # "NULL" /\ \A i \in DOMAIN c.sub : elems[i].ok ->
            JsIs(JS("array", 0, [i \in DOMAIN c.sub |-> elems[i].js]))
      [] OTHER -> JsRefused

(* A pointer to what a wrapper of the right kind holds, or none.           *)
Pointer(v, is) ==
    CASE v.is = "null" -> ValueIs({NULL})
      [] v.is = is     -> ValueIs({C(is, v.n, << >>)})
      [] OTHER         -> ValueRefused

CharValue(v) ==
    IntsIn(Converted(gwkjs_value_to_int32(v)), LAMBDA i : i \in SInt(8))

(* A guint16 holds the unsigned character before it is checked.            *)
UCharValue(v) ==
    IntsIn({[r EXCEPT !.n = UWrap(@, 16)] : r \in gwkjs_jsvalue_to_uint(v)},
           LAMBDA i : i \in UInt(8))

Double(d) == C(IF d.is = "NaN" THEN "NaN" ELSE "double", d.n, << >>)

DoubleValue(gtype, v) ==
    LET r == IF gtype = "FLOAT" THEN gwkjs_value_to_float(v) ELSE gwkjs_value_to_double(v)
    IN IF r.ok THEN ValueIs({Double(r.d)}) ELSE ValueRefused

BooleanValue(v) ==
    LET r == gwkjs_value_to_boolean(v)
    IN IF r.ok THEN Ints({IF r.b THEN 1 ELSE 0}) ELSE ValueRefused

(* The class of an enumeration knows ints.                                 *)
EnumValue(v) ==
    IntsIn(Converted({Wrap(i, 32) : i \in gwkjs_value_to_int64(v)}),
           LAMBDA i : i \in {Wrap(e, 32) : e \in EnumValues["enum"]})

FlagsValue(v) ==
    {IF _gwkjs_flags_value_is_valid(i)
     THEN [ok |-> TRUE, c |-> C("int", i, << >>)]
     ELSE [ok |-> FALSE, c |-> NULL] : i \in gwkjs_value_to_int64(v)}

StringValue(v) == IF v.is = "null" THEN ValueIs({NULL}) ELSE gwkjs_string_to_utf8(v)
IntValue(v) == IntsIn(gwkjs_jsvalue_to_int(v), AnyInt)
UIntValue(v) == Ints(gwkjs_value_to_uint32(v))
ParamValue(v) == Pointer(v, "param")

StrvValue(v) ==
    CASE v.is = "null" -> ValueIs({NULL})
      [] gwkjs_object_require_property(v) -> gwkjs_array_to_strv(v)
      [] OTHER -> ValueRefused

(* gi/union.cpp.  A wrapper of a union is one when it holds a pointer, which *)
(* its prototype does not; wrapping one that C made is not implemented.    *)
gwkjs_typecheck_union(v) == v.is = "union"
gwkjs_c_union_from_union(v) == C("union", v.n, << >>)
gwkjs_union_from_c_union == Null

(* A foreign structure, or a union, or else a boxed structure, whose type  *)
(* check is not implemented.                                               *)
BoxedValue(gtype, v) ==
    CASE gtype = "FOREIGN" -> Pointer(v, "foreign")
      [] gtype = "UNION" /\ gwkjs_typecheck_union(v) -> ValueIs({gwkjs_c_union_from_union(v)})
      [] OTHER -> Pointer(v, "none")

VariantValue(v) == Pointer(v, "none")
PointerValue(v) == IF v.is = "null" THEN ValueIs({NULL}) ELSE ValueRefused

(* The invalid GType is 0.                                                 *)
GTypeValue(v) == IF IsObject(v) THEN ValueIs({NULL}) ELSE ValueRefused

(* An integer type without a case of its own takes what an int becomes.    *)
TransformedValue(gtype, v) ==
    IF gtype = "INT64" /\ v.is \in {"number", "NaN"}
    THEN Ints(gwkjs_value_to_int32(v)) ELSE ValueRefused

(* gwkjs_value_to_g_value_internal, for a GValue that has its type.        *)
ToTypedGValue(gtype, v) ==
    CASE gtype = "STRING"  -> StringValue(v)
      [] gtype = "CHAR"    -> CharValue(v)
      [] gtype = "UCHAR"   -> UCharValue(v)
      [] gtype = "INT"     -> IntValue(v)
      [] gtype = "UINT"    -> UIntValue(v)
      [] gtype \in {"DOUBLE", "FLOAT"} -> DoubleValue(gtype, v)
      [] gtype = "BOOLEAN" -> BooleanValue(v)
      [] gtype = "OBJECT"  -> Pointer(v, "object")
      [] gtype = "PARAM"   -> ParamValue(v)
      [] gtype = "STRV"    -> StrvValue(v)
      [] gtype \in {"BOXED", "UNION", "FOREIGN", "HASH"} -> BoxedValue(gtype, v)
      [] gtype = "VARIANT" -> VariantValue(v)
      [] gtype = "ENUM"    -> EnumValue(v)
      [] gtype = "FLAGS"   -> FlagsValue(v)
      [] gtype = "GTYPE"   -> GTypeValue(v)
      [] gtype = "POINTER" -> PointerValue(v)
      [] OTHER             -> TransformedValue(gtype, v)

(* The same for a GValue without a type: it gets the guess, if there is one. *)
gwkjs_value_to_g_value_internal(v) ==
    LET gtype == gwkjs_value_guess_g_type(v) IN
    IF gtype = "INVALID" THEN ValueRefused
    ELSE {[r EXCEPT !.c = C(gtype, 0, <<@>>)] : r \in ToTypedGValue(gtype, v)}

gwkjs_value_to_g_value(v) == gwkjs_value_to_g_value_internal(v)

-----------------------------------------------------------------------------
(* convert_int_to_enum: an int that is negative or 0 may be an unsigned    *)
(* value of the enumeration.                                               *)
convert_int_to_enum(i) ==
    Number(2 * (IF i \in 1..(Highest(32) - 1) THEN i
                ELSE _gwkjs_enum_from_int("enum", i)))

FromPointer(c) == IF c.is = "NULL" THEN Null ELSE JS(c.is, c.n, << >>)

(* gwkjs_value_from_g_value_internal.  A string that is NULL is undefined. *)
FromGValue(gtype, c) ==
    CASE gtype = "STRING" ->
            IF c.is = "NULL" THEN JsIs(Undefined) ELSE gwkjs_string_from_utf8(c)
      [] gtype \in {"CHAR", "UCHAR", "INT", "UINT", "INT64"} -> JsIs(Number(2 * c.n))
      [] gtype \in {"DOUBLE", "FLOAT"} -> JsIs(IF c.is = "NaN" THEN NaN ELSE Number(c.n))
      [] gtype = "BOOLEAN" -> JsIs(JS("boolean", IF c.n = 0 THEN 0 ELSE 1, << >>))
      [] gtype \in {"OBJECT", "PARAM", "FOREIGN"} -> JsIs(FromPointer(c))
      [] gtype = "STRV" -> gwkjs_array_from_strv(c)
      [] gtype = "HASH" -> JsRefused
      [] gtype = "UNION" -> JsIs(gwkjs_union_from_c_union)
      [] gtype \in {"BOXED", "VARIANT"} -> JsIs(Null)
      [] gtype = "ENUM"  -> JsIs(convert_int_to_enum(c.n))
      [] gtype = "FLAGS" -> JsIs(Number(2 * Wrap(c.n, 32)))
      [] gtype \in {"POINTER", "GTYPE"} -> IF c.is = "NULL" THEN JsIs(Undefined) ELSE JsRefused
      [] OTHER -> JsRefused
=============================================================================
