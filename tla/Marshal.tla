------------------------------ MODULE Marshal ------------------------------
(***************************************************************************)
(* gi/arg.cpp and its callers in gi/function.cpp: one argument or return   *)
(* value of a call between JavaScript and C, from its conversion to its    *)
(* release.  What a conversion allocates, and every reference it takes, is *)
(* a block, named by the path to it in the value: << >> is the value       *)
(* itself, <<i>> its element i, and so on; the keys and values of a hash   *)
(* table are elements one after the other.                                 *)
(*                                                                         *)
(* A type is [tag, iface, array, sub]; array tells how the length of an    *)
(* array is known: by another argument ("length"), by the type ("fixed"),  *)
(* by a terminator ("zero") or because it is a GLib array.                 *)
(*                                                                         *)
(* The conversions call themselves for the elements of a container.  Here  *)
(* these calls go to the operators ElementToC, ..., which an instance ties *)
(* to ToC, ... (ElementToC <- ToC): what is proved of one level then holds *)
(* of every type, however deep.                                            *)
(***************************************************************************)
EXTENDS Values

CONSTANTS
    Arguments,          \* [type, dir, transfer, nullable]: what is declared
    Inputs(_),          \* the JavaScript values tried for an argument
    Outputs(_),         \* the C values the callee may produce for one
    ElementToC(_, _, _, _),         \* ToC, of an element
    ElementFromC(_, _),             \* FromC
    ElementRelease(_, _, _),        \* Release
    ElementBelongings(_, _, _),     \* Belongings
    ElementCarries(_, _)            \* Carries


Containers == {"glist", "gslist", "ghash", "array"}
Strings    == {"utf8", "filename"}

(* Only of a container can the elements stay behind, and what a method is  *)
(* called on is not one.                                                   *)
ASSUME MarshalAssumption ==
    \A a \in Arguments :
        /\ a.transfer \in {"nothing", "container", "everything"}
        /\ a.transfer = "container" => a.type.tag \in Containers
        /\ a.dir = "instance" => a.type.tag = "interface"
        /\ \A v \in Inputs(a) : v.is = "number" => v.n \in Int

(* The type of the element at position i, and whether it may be null.      *)
ElementType(t, i)  == IF t.tag = "ghash" /\ i % 2 = 0 THEN t.sub[2] ELSE t.sub[1]
ElementNull(t, i)  == t.tag = "ghash" /\ i % 2 = 0

Below(i, blocks) == {<<i>> \o b : b \in blocks}
Root == {<< >>}
IfAny(condition, blocks) == IF condition THEN blocks ELSE {}

-----------------------------------------------------------------------------
(* type_needs_release and type_needs_out_release.  A closure is never      *)
(* made, see gwkjs_closure_new_marshaled.                                  *)
type_needs_release(t) ==
    \/ t.tag \in Strings \union Containers \union {"error"}
    \/ t.tag = "interface" /\ t.iface \in {"closure", "gvalue"}

type_needs_out_release(t) ==
    \/ t.tag \in Strings \union Containers \union {"error"}
    \/ t.tag = "interface" /\ t.iface \notin {"enum", "unsigned_enum", "flags", "gvalue_flat"}

IsFlat(t) == t.tag = "interface" /\ t.iface = "gvalue_flat"

(* Enumerations and flags in an array are their storage type.              *)
StorageTag(t) ==
    IF t.tag # "interface" THEN t.tag
    ELSE IF t.iface = "enum" THEN "int32"
    ELSE IF t.iface \in {"unsigned_enum", "flags"} THEN "uint32"
    ELSE "interface"

(* Elements of a container passed in are converted with its own transfer,  *)
(* or with none when only the container is given away.                     *)
OfElements(transfer) == IF transfer = "container" THEN "nothing" ELSE transfer

-----------------------------------------------------------------------------
(* JavaScript to C: a set of [ok, c, made], made being the blocks that     *)
(* exist afterwards, also when the conversion failed.                      *)
To(c, made)  == [ok |-> TRUE, c |-> c, made |-> made]
Fails(made)  == [ok |-> FALSE, c |-> NULL, made |-> made]

NumberToC(t, v) ==
    {IF r.ok THEN To(C("int", r.n, << >>), {}) ELSE Fails({}) : r \in IntegerArgument(t.tag, v)}

DoubleToC(t, v) ==
    LET d == JSValueToNumber(v) IN
    IF t.tag = "float" /\ ~FloatRange(d) THEN {Fails({})}
    ELSE {To(Double(d), {})}

BooleanToC(v) == {To(C("int", IF JSValueToBoolean(v) THEN 1 ELSE 0, << >>), {})}

(* A string is converted into a block of its own.                          *)
StringToC(t, v) ==
    IF v.is = "null" THEN {To(NULL, {})}
    ELSE {IF r.ok THEN To(r.c, Root) ELSE Fails({}) :
            r \in IF t.tag = "filename" THEN gwkjs_string_to_filename(v) ELSE gwkjs_string_to_utf8(v)}

UnicharToC(v) == {IF r.ok THEN To(r.c, {}) ELSE Fails({}) : r \in gwkjs_unichar_from_string(v)}

ErrorToC(v) == {IF v.is = "null" THEN To(NULL, {}) ELSE Fails({})}

EnumToC(t, v) ==
    {IF r.ok THEN To(C("int", r.n, << >>), {}) ELSE Fails({}) : r \in EnumArgument(t.iface, v)}

(* The value is copied into a boxed GValue.                                *)
GValueToC(v) ==
    {IF r.ok THEN To(C("gvalue", 0, <<r.c>>), Root) ELSE Fails({}) : r \in gwkjs_value_to_g_value(v)}

(* gwkjs_struct_foreign_convert_to_g_argument: a module that registers a   *)
(* foreign type takes a reference only for a full transfer.                *)
ForeignToC(transfer, nullable, v) ==
    CASE v.is = "null" /\ nullable -> {To(NULL, {})}
      [] v.is = "foreign" -> {To(C("foreign", v.n, << >>), IfAny(transfer = "everything", Root))}
      [] OTHER -> {Fails({})}

(* Objects and parameters, then unions: null is refused here although the  *)
(* types are nullable, because null is not an object to JavaScriptCore.    *)
WrapperToC(t, transfer, v) ==
    {IF v.is = t.iface THEN To(C(t.iface, v.n, << >>), IfAny(transfer # "nothing", Root))
     ELSE Fails({})}

UnionToC(transfer, v) ==
    {IF gwkjs_typecheck_union(v)
     THEN To(gwkjs_c_union_from_union(v), IfAny(transfer # "nothing", Root)) ELSE Fails({})}

(* The type checks of structures, errors and fundamental types are not     *)
(* implemented, and closures are not made: the pointer stays NULL.         *)
NotImplementedToC == {Fails({})}

InterfaceToC(t, transfer, nullable, v) ==
    CASE t.iface \in {"enum", "unsigned_enum", "flags"} -> EnumToC(t, v)
      [] t.iface \in {"gvalue", "gvalue_flat"} -> GValueToC(v)
      [] t.iface = "foreign" -> ForeignToC(transfer, nullable, v)
      [] t.iface \in {"object", "param"} -> WrapperToC(t, transfer, v)
      [] t.iface = "union"   -> UnionToC(transfer, v)
      [] OTHER -> NotImplementedToC

(* A GType object is looked for and never found in this port; an array of  *)
(* none is converted.                                                      *)
GTypeToC(v) == {Fails({})}

gwkjs_gtypearray_to_array(vs) ==
    {IF vs = << >> THEN To(C("array", 0, << >>), Root) ELSE Fails({})}

(* A flat array of numbers; every element is read as a number and cut.     *)
NumbersToC(tag, vs) ==
    LET choices == [i \in DOMAIN vs |-> IntegerElement(tag, vs[i])] IN
    IF \E i \in DOMAIN vs : \E r \in choices[i] : ~r.ok THEN {Fails({})}
    ELSE {To(C("array", 0, [i \in DOMAIN vs |-> C("int", ns[i], << >>)]), Root) :
            ns \in {f \in [DOMAIN vs -> UNION {{r.n : r \in choices[i]} : i \in DOMAIN vs}] :
                        \A i \in DOMAIN vs : \E r \in choices[i] : f[i] = r.n}}

DoublesToC(vs) ==
    LET d(i) == JSValueToNumber(vs[i]) IN
    {To(C("array", 0, [i \in DOMAIN vs |-> Double(d(i))]), Root)}

(* gwkjs_array_to_strv gives everything back when it fails.                *)
StrvToC(v) ==
    {IF r.ok THEN To(C("array", 0, r.c.sub), Root \union {<<i>> : i \in DOMAIN r.c.sub})
     ELSE Fails({}) : r \in gwkjs_array_to_strv(v)}

(* A string is its bytes, or its 16 bit units.                             *)
gwkjs_string_to_intarray(t, v) ==
    CASE t.sub[1].tag \in {"int8", "uint8"} ->
            {To(C("array", 0, IF r.c.n = 0 THEN << >> ELSE <<C("int", r.c.n, << >>)>>), Root) :
                r \in gwkjs_string_to_utf8(v)}
      [] t.sub[1].tag \in {"int16", "uint16"} ->
            {To(r.c, IfAny(r.c.is # "NULL", Root)) : r \in gwkjs_string_get_uint16_data(v)}
      [] OTHER -> {Fails({})}

(* The elements in order, up to the first that does not convert; what the  *)
(* others made stays.                                                      *)
ElementsToC(t, transfer, vs) ==
    LET result(i) == ElementToC(ElementType(t, i), transfer, ElementNull(t, i), vs[i])
        ended(r)  == LET bad   == {i \in DOMAIN vs : ~r[i].ok}
                         tried == {i \in DOMAIN vs : \A b \in bad : i <= b}
                     IN [ok |-> bad = {}, cs |-> [i \in tried |-> r[i].c],
                         made |-> UNION {Below(i, r[i].made) : i \in tried}]
    IN {ended(r) : r \in {r \in [DOMAIN vs -> UNION {result(i) : i \in DOMAIN vs}] :
                                \A i \in DOMAIN vs : r[i] \in result(i)}}

(* The cells of a list that is not finished stay too.                      *)
gwkjs_array_to_g_list(t, transfer, vs) ==
    IF transfer = "container" /\ type_needs_release(t.sub[1]) THEN {Fails({})} ELSE
    {IF r.ok THEN To(IF r.cs = << >> THEN NULL ELSE C("list", 0, r.cs),
                     IfAny(r.cs # << >>, Root) \union r.made)
     ELSE Fails(IfAny(Len(r.cs) > 1, Root) \union r.made) :
        r \in ElementsToC(t, OfElements(transfer), vs)}

(* null is not the empty list here.                                        *)
ListToC(t, transfer, v) ==
    IF v.is = "array" THEN gwkjs_array_to_g_list(t, transfer, v.sub) ELSE {Fails({})}

(* A table that is not finished is destroyed, its elements stay.           *)
gwkjs_object_to_g_hash(t, transfer, vs) ==
    IF transfer = "container" /\ \E i \in {1, 2} : type_needs_release(t.sub[i]) THEN {Fails({})} ELSE
    {IF r.ok THEN To(C("hash", 0, r.cs), Root \union r.made) ELSE Fails(r.made) :
        r \in ElementsToC(t, OfElements(transfer), vs)}

HashToC(t, transfer, nullable, v) ==
    CASE v.is = "null" -> {IF nullable THEN To(NULL, {}) ELSE Fails({})}
      [] v.is = "dict" -> gwkjs_object_to_g_hash(t, transfer, v.sub)
      [] OTHER -> {Fails({})}

(* gwkjs_array_to_ptrarray and gwkjs_array_to_flat_gvalue_array: when an   *)
(* element fails, the first frees the array and not what is in it; the     *)
(* second frees nothing.                                                   *)
PointersToC(t, transfer, vs) ==
    {IF r.ok THEN To(C("array", 0, r.cs), Root \union r.made) ELSE Fails(r.made) :
        r \in ElementsToC(t, OfElements(transfer), vs)}

FlatValuesToC(t, vs) ==
    {IF r.ok THEN To(IF vs = << >> THEN NULL ELSE C("array", 0, r.cs), IfAny(vs # << >>, Root) \union r.made)
     ELSE Fails(Root \union r.made) : r \in ElementsToC(t, "nothing", vs)}

(* gwkjs_array_to_array.                                                   *)
ElementArrayToC(t, transfer, v) ==
    LET elem == t.sub[1]
        tag == StorageTag(elem)
    IN CASE IsFlat(elem)    -> FlatValuesToC(t, v.sub)
         [] tag = "utf8"    -> StrvToC(v)
         [] tag \in IntegerTags \ {"int64", "uint64"} -> NumbersToC(tag, v.sub)
         [] tag \in {"float", "double"} -> DoublesToC(v.sub)
         [] tag = "gtype"   -> gwkjs_gtypearray_to_array(v.sub)
         [] ~IsFlat(elem) /\ tag \in Containers \union {"interface", "error", "filename"} ->
                PointersToC(t, transfer, v.sub)
         [] OTHER -> {Fails({})}

(* The elements of an array: a C array, NULL for null.                     *)
gwkjs_array_to_explicit_array_internal(t, transfer, nullable, v) ==
    CASE v.is = "null"   -> {IF nullable THEN To(NULL, {}) ELSE Fails({})}
      [] v.is = "string" -> gwkjs_string_to_intarray(t, v)
      [] v.is = "array"  -> ElementArrayToC(t, transfer, v)
      [] OTHER           -> {Fails({})}

(* A GArray must know the size of its elements; a table cannot be freed    *)
(* when it does not, and the elements stay.                                *)
gwkjs_g_array_new_for_type(elem, made) ==
    IF StorageTag(elem) \in IntegerTags \union Strings \union Containers
                            \union {"float", "double", "gtype", "interface", "error"}
    THEN made \union Root ELSE made \ Root

(* Explicit elements are put into a GLib array if the type is one, which   *)
(* then is never NULL.  Those of a GPtrArray are pointers: of smaller ones *)
(* the copy would read past the end.                                       *)
ArrayToC(t, transfer, nullable, v) ==
    LET elements == gwkjs_array_to_explicit_array_internal(t, transfer, nullable, v)
        made(r)  == IF t.array = "GArray" THEN gwkjs_g_array_new_for_type(t.sub[1], r.made)
                    ELSE r.made \union Root
    IN IF t.array \in {"length", "fixed", "zero"} THEN elements
       ELSE {IF ~r.ok THEN r
             ELSE IF Root \subseteq made(r) THEN To(C("array", 0, r.c.sub), made(r))
             ELSE Fails(made(r)) : r \in elements}

(* gwkjs_value_to_g_argument.  The C types that no conversion is for end   *)
(* in its default case.                                                    *)
ValueToC(t, transfer, nullable, v) ==
    CASE t.tag = "void"           -> {To(NULL, {})}
      [] t.tag \in IntegerTags    -> NumberToC(t, v)
      [] t.tag \in {"float", "double"} -> DoubleToC(t, v)
      [] t.tag = "boolean"        -> BooleanToC(v)
      [] t.tag = "unichar"        -> UnicharToC(v)
      [] t.tag \in Strings        -> StringToC(t, v)
      [] t.tag = "gtype"          -> GTypeToC(v)
      [] t.tag = "error"          -> ErrorToC(v)
      [] t.tag = "interface"      -> InterfaceToC(t, transfer, nullable, v)
      [] t.tag \in {"glist", "gslist"} -> ListToC(t, transfer, v)
      [] t.tag = "ghash"          -> HashToC(t, transfer, nullable, v)
      [] t.tag = "array"          -> ArrayToC(t, transfer, nullable, v)
      [] OTHER                    -> {Fails({})}

(* What may be NULL in C is checked against the annotation at the end.     *)
ToC(t, transfer, nullable, v) ==
    LET nullable_type == t.tag \in Strings \union {"void", "error"} IN
    {IF r.ok /\ r.c.is = "NULL" /\ nullable_type /\ ~nullable THEN Fails(r.made) ELSE r :
        r \in ValueToC(t, transfer, nullable, v)}

(* The length of an array in another argument is passed along.             *)
Explicit(t) == t.tag = "array" /\ t.array = "length"

gwkjs_value_to_arg(a, v) == ToC(a.type, a.transfer, a.nullable, v)
gwkjs_value_to_explicit_array(a, v) ==
    gwkjs_array_to_explicit_array_internal(a.type, a.transfer, a.nullable, v)

(* The instance a method is called on; what it is copied or referenced for *)
(* is C's.  The class structure of a GType is never found, which is not    *)
(* noticed, because the type looked for is invalid instead of none.        *)
gwkjs_fill_method_instance(t, transfer, v) ==
    CASE t.iface = "gtype_struct" -> {To(NULL, {})}
      [] t.iface \in {"object", "param", "union"} /\ v.is = t.iface ->
            {To(C(t.iface, v.n, << >>), IfAny(transfer = "everything", Root))}
      [] OTHER -> {Fails({})}

(* What C gets from a callback whose result does not convert, or that      *)
(* throws: a neutral value.                                                *)
gwkjs_g_argument_init_default(t) ==
    CASE t.tag \in IntegerTags \union {"boolean", "unichar", "gtype"} -> C("int", 0, << >>)
      [] t.tag \in {"float", "double"} -> C("double", 0, << >>)
      [] t.tag = "interface" /\ t.iface \in {"enum", "unsigned_enum", "flags"} -> C("int", 0, << >>)
      [] OTHER -> NULL

(* What a callback returns goes through a register of 64 bits, widened     *)
(* with its sign; the case of interfaces falls through to that of pointers *)
(* and writes all 64 bits of a union of which 32 were set.                 *)
set_return_ffi_arg_from_giargument(t, c) ==
    IF c.is # "int" THEN {c}
    ELSE IF t.tag = "interface" THEN {[c EXCEPT !.n = UWrap(@, 32) + high] : high \in {0, 2 * Half[32]}}
    ELSE {[c EXCEPT !.n = UWrap(@, 64)]}

(* What C takes of it.                                                     *)
Returned(t, c) ==
    IF c.is # "int" THEN c ELSE
    CASE t.tag \in IntegerTags ->
            [c EXCEPT !.n = IF t.tag \in SignedTags THEN Wrap(@, Width(t.tag)) ELSE UWrap(@, Width(t.tag))]
      [] t.tag = "interface" /\ t.iface = "enum" -> [c EXCEPT !.n = Wrap(@, 32)]
      [] t.tag = "interface" /\ t.iface # "enum" -> [c EXCEPT !.n = UWrap(@, 32)]
      [] OTHER -> c

-----------------------------------------------------------------------------
(* C to JavaScript: [ok, js], or the end of the process.                   *)
Js(js)  == [ok |-> TRUE, js |-> js]
NoJs    == [ok |-> FALSE, js |-> Undefined]

(* Mutant: an unsigned value is not widened.                               *)
mutant_enum_not_widened(t, c) ==
    IF ValidEnum(t.iface, c.n) THEN Js(Number(2 * c.n)) ELSE NoJs

EnumFromC(t, c) ==
    LET i == _gwkjs_enum_from_int(t.iface, c.n)
    IN IF ValidEnum(t.iface, i) THEN Js(Number(2 * i)) ELSE NoJs

(* undefined stands for a conversion that failed, so that a GValue that    *)
(* holds a NULL string fails without an exception.                         *)
UnlessVoid(r) == IF r.js = Undefined THEN NoJs ELSE r

(* Structures, unions, errors and fundamental types have no constructor in *)
(* this port.                                                              *)
InterfaceFromC(t, c) ==
    IF t.iface \in {"enum", "unsigned_enum", "flags"} THEN EnumFromC(t, c)
    ELSE IF c.is = "NULL" THEN Js(Null) ELSE
    CASE t.iface \in {"gvalue", "gvalue_flat"} -> UnlessVoid(FromGValue(c.sub[1].is, c.sub[1].sub[1]))
      [] t.iface \in {"object", "param"} -> UnlessVoid(Js(JS(t.iface, c.n, << >>)))
      [] t.iface = "foreign" -> Js(JS(t.iface, c.n, << >>))
      [] OTHER -> NoJs

(* Elements are converted in order: the first one that does not convert    *)
(* ends it.                                                                *)
ElementsFromC(t, is, cs) ==
    LET r   == [i \in DOMAIN cs |-> ElementFromC(ElementType(t, i), cs[i])]
        bad == {i \in DOMAIN cs : ~r[i].ok}
    IN IF bad = {} THEN Js(JS(is, 0, [i \in DOMAIN cs |-> r[i].js]))
       ELSE r[CHOOSE i \in bad : \A k \in bad : i <= k]

(* The cells of a list, none for NULL.                                     *)
gwkjs_array_from_g_list(t, c) == ElementsFromC(t, "array", c.sub)

(* NULL is null.  The string of the last key is released at the end, and   *)
(* there is none in an empty table, nor if the first key does not convert: *)
(* JSStringRelease does not take NULL.                                     *)
gwkjs_object_from_g_hash(t, c) ==
    IF c.is = "NULL" THEN Js(Null)
    ELSE IF c.sub = << >> \/ ~ElementFromC(ElementType(t, 1), c.sub[1]).ok THEN Crashes
    ELSE ElementsFromC(t, "dict", c.sub)

(* Arrays of bytes would become ByteArrays, which are not        *)
(* implemented; booleans, characters and pointers to anything are unknown. *)
gwkjs_array_from_flat_gvalue_array(t, cs) == ElementsFromC(t, "array", cs)

gwkjs_array_from_carray_internal(t, cs) ==
    CASE IsFlat(t.sub[1]) -> gwkjs_array_from_flat_gvalue_array(t, cs)
      [] t.sub[1].tag \in {"uint8", "boolean", "unichar", "void"} -> NoJs
      [] OTHER -> ElementsFromC(t, "array", cs)

(* Up to the terminator: a zero, or NULL.                                  *)
UpToZero(cs) ==
    LET zeros == {i \in DOMAIN cs : cs[i].is = "NULL" \/ (cs[i].is # "string" /\ cs[i].n = 0
                                                          /\ cs[i].sub = << >>)}
    IN SubSeq(cs, 1, IF zeros = {} THEN Len(cs)
                     ELSE (CHOOSE i \in zeros : \A j \in zeros : i <= j) - 1)

gwkjs_array_from_zero_terminated_c_array(t, cs) ==
    CASE t.sub[1].tag \in {"uint8", "boolean", "unichar", "void"} -> NoJs
      [] t.sub[1].tag = "interface" -> ElementsFromC(t, "array", cs)
      [] OTHER -> ElementsFromC(t, "array", UpToZero(cs))

(* An explicit length, 0 for NULL; the size of the type; the length that a *)
(* GLib array knows.                                                       *)
gwkjs_value_from_explicit_array(t, c)   == gwkjs_array_from_carray_internal(t, c.sub)
gwkjs_array_from_fixed_size_array(t, c) == gwkjs_array_from_carray_internal(t, c.sub)
gwkjs_array_from_boxed_array(t, c) ==
    IF t.array = "GByteArray" THEN NoJs ELSE gwkjs_array_from_carray_internal(t, c.sub)

(* NULL is undefined, whatever its elements.                               *)
ArrayFromC(t, c) ==
    CASE t.array = "length" -> gwkjs_value_from_explicit_array(t, c)
      [] t.array # "length" /\ c.is = "NULL" -> Js(Undefined)
      [] t.array = "zero"   /\ c.is # "NULL" -> gwkjs_array_from_zero_terminated_c_array(t, c.sub)
      [] t.array = "fixed"  /\ c.is # "NULL" -> gwkjs_array_from_fixed_size_array(t, c)
      [] OTHER -> gwkjs_array_from_boxed_array(t, c)

ContainerFromC(t, c) ==
    CASE t.tag \in {"glist", "gslist"} -> gwkjs_array_from_g_list(t, c)
      [] t.tag = "ghash" -> gwkjs_object_from_g_hash(t, c)
      [] t.tag = "array" -> ArrayFromC(t, c)

(* gwkjs_value_from_g_argument.  A NULL string is undefined.               *)
FromC(t, c) ==
    CASE t.tag = "void" -> Js(Undefined)
      [] t.tag = "boolean" -> Js(JS("boolean", IF c.n = 0 THEN 0 ELSE 1, << >>))
      [] t.tag \in IntegerTags -> Js(Number(2 * c.n))
      [] t.tag \in {"float", "double"} -> Js(IF c.is = "NaN" THEN NaN ELSE Number(c.n))
      [] t.tag = "unichar" -> Js(JS("string", c.n, << >>))
      [] t.tag \in Strings ->
            CASE c.is = "NULL" -> Js(Undefined)
              [] c.is # "NULL" /\ t.tag = "filename" -> gwkjs_string_from_filename(c)
              [] OTHER -> gwkjs_string_from_utf8(c)
      [] t.tag = "error" -> IF c.is = "NULL" THEN Js(Undefined) ELSE NoJs
      [] t.tag = "interface" -> InterfaceFromC(t, c)
      [] t.tag = "gtype" -> Js(JS("gtype", c.n, << >>))
      [] t.tag \in Containers -> ContainerFromC(t, c)
      [] OTHER -> NoJs

-----------------------------------------------------------------------------
(* gwkjs_g_arg_release_internal: [ok, freed].  The transfer is container,  *)
(* everything, or in_nothing, for what was made only for the call.         *)
Freed(blocks) == [ok |-> TRUE, freed |-> blocks]
Keeps         == [ok |-> FALSE, freed |-> {}]

InterfaceRelease(t, transfer, c) ==
    IF t.iface \in {"enum", "unsigned_enum", "flags"} \/ c.is = "NULL" THEN Freed({}) ELSE
    CASE t.iface \in {"foreign", "gvalue", "gvalue_flat", "closure"} -> Freed(Root)
      [] t.iface = "struct" /\ transfer # "in_nothing" -> Keeps
      [] OTHER -> Freed(IfAny(transfer # "in_nothing", Root))

ReleaseAmong(these, t, transfer, c) ==
    LET r == [i \in DOMAIN c.sub |-> ElementRelease(ElementType(t, i), transfer, c.sub[i])]
    IN [ok |-> \A i \in these : r[i].ok, freed |-> UNION {Below(i, r[i].freed) : i \in these}]

ReleaseElements(t, transfer, c) == ReleaseAmong(DOMAIN c.sub, t, transfer, c)

(* The elements before the first NULL: an empty list is NULL.              *)
BeforeNull(c) == {i \in DOMAIN c.sub : \A j \in 1..i : c.sub[j].is # "NULL"}

With(block, r) == [r EXCEPT !.freed = @ \union block]

GListRelease(t, transfer, c) ==
    IF c.is = "NULL" THEN Freed({})
    ELSE With(Root, IF transfer = "container" THEN Freed({}) ELSE ReleaseElements(t, transfer, c))

GSListRelease(t, transfer, c) ==
    IF c.is = "NULL" THEN Freed({})
    ELSE With(Root, IF transfer = "container" THEN Freed({}) ELSE ReleaseElements(t, transfer, c))

(* gwkjs_ghr_helper, for every key and its value.                          *)
gwkjs_ghr_helper(t, transfer, c) == ReleaseElements(t, transfer, c)

(* The elements are stolen before the table is destroyed.                  *)
GHashRelease(t, transfer, c) ==
    IF c.is = "NULL" THEN Freed({})
    ELSE With(Root, IF transfer = "container" THEN Freed({}) ELSE gwkjs_ghr_helper(t, transfer, c))

(* A C array whose length is in another argument only gets here when it is *)
(* inside another container.  The elements of an array of pointers are     *)
(* released as if they were owned, whatever the transfer; strings, and     *)
(* elements of an array that NULL ends, as far as the first NULL.          *)
CArrayRelease(t, transfer, c) ==
    LET elem == t.sub[1] IN
    IF IsFlat(elem)
    THEN IF transfer # "container" /\ t.array # "fixed" THEN Keeps
         ELSE With(Root, IF transfer = "container" THEN Freed({})
                         ELSE ReleaseElements(t, transfer, c))
    ELSE CASE elem.tag \in Strings ->
            With(Root, IF transfer = "container" THEN Freed({})
                       ELSE ReleaseAmong(BeforeNull(c), t, transfer, c))
      [] elem.tag \in {"uint8", "uint16", "uint32", "int8", "int16", "int32", "gtype"} -> Freed(Root)
      [] elem.tag \in Containers \union {"interface", "error"} ->
            With(Root, IF transfer # "container" /\ type_needs_out_release(elem)
                       THEN ReleaseAmong(IF t.array = "zero" THEN BeforeNull(c) ELSE DOMAIN c.sub,
                                         t, "everything", c)
                       ELSE Freed({}))
      [] OTHER -> Keeps

(* A GArray of enumerations or flags is not freed.                         *)
GArrayRelease(t, transfer, c) ==
    LET elem == t.sub[1] IN
    CASE elem.tag \in IntegerTags \union {"gtype"} -> Freed(Root)
      [] elem.tag \in Strings \union Containers \union {"interface", "error"} ->
            CASE transfer = "container" -> Freed(Root)
              [] transfer # "container" /\ type_needs_out_release(elem) ->
                    With(Root, Freed(ReleaseElements(t, transfer, c).freed))
              [] OTHER -> Freed({})
      [] OTHER -> Keeps

GPtrArrayRelease(t, transfer, c) ==
    With(Root, IF transfer = "container" THEN Freed({})
               ELSE Freed(ReleaseElements(t, transfer, c).freed))

ArrayRelease(t, transfer, c) ==
    IF c.is = "NULL" THEN Freed({}) ELSE
    CASE t.array = "GArray" -> GArrayRelease(t, transfer, c)
      [] t.array = "GByteArray" -> Freed(Root)
      [] t.array = "GPtrArray" -> GPtrArrayRelease(t, transfer, c)
      [] OTHER -> CArrayRelease(t, transfer, c)

Release(t, transfer, c) ==
    CASE t.tag \in Strings -> Freed(IfAny(c.is # "NULL", Root))
      [] t.tag = "error" -> Freed(IfAny(transfer # "in_nothing" /\ c.is # "NULL", Root))
      [] t.tag = "interface" -> InterfaceRelease(t, transfer, c)
      [] t.tag = "glist" -> GListRelease(t, transfer, c)
      [] t.tag = "gslist" -> GSListRelease(t, transfer, c)
      [] t.tag = "ghash" -> GHashRelease(t, transfer, c)
      [] t.tag = "array" -> ArrayRelease(t, transfer, c)
      [] OTHER -> Freed({})

(* Mutant: what C has taken is released as well.                           *)
mutant_release_transferred(t, transfer, c) ==
    IF type_needs_release(t) THEN Release(t, "everything", c) ELSE Freed({})

(* What was made for an argument is released when C was not given it.      *)
gwkjs_g_argument_release_in_arg(t, transfer, c) ==
    IF transfer # "nothing" \/ ~type_needs_release(t) THEN Freed({})
    ELSE Release(t, "in_nothing", c)

gwkjs_g_argument_release_in_array(t, transfer, c) ==
    IF transfer # "nothing" \/ c.is = "NULL" THEN Freed({})
    ELSE With(Root,
              IF IsFlat(t.sub[1]) \/ type_needs_release(t.sub[1])
              THEN ReleaseElements(t, "in_nothing", c) ELSE Freed({}))

(* What C gave away is.                                                    *)
gwkjs_g_argument_release(t, transfer, c) ==
    IF transfer = "nothing" THEN Freed({}) ELSE Release(t, transfer, c)

gwkjs_g_argument_release_out_array(t, transfer, c) ==
    IF transfer = "nothing" \/ c.is = "NULL" THEN Freed({})
    ELSE With(Root,
              IF transfer # "container" /\ type_needs_out_release(t.sub[1])
              THEN ReleaseElements(t, "everything", c) ELSE Freed({}))

-----------------------------------------------------------------------------
(* One call.  Its direction is in, out or inout for an argument,           *)
(* "instance" for the object of a method, "return" for what a C function   *)
(* returns; "parameter" for what a JavaScript callback is passed by C, and *)
(* "callback" for what it returns.                                         *)
VARIABLES
    arg,                \* the argument, a member of Arguments
    input,              \* what JavaScript passes
    pc,
    in,                 \* its C value
    out,                \* the C value the callee produced
    echoed,             \* the callee gave the same value back
    owned,              \* blocks the call has still to release: <<side, path>>
    stray,              \* blocks released, or taken by C, without being owned
    failed,
    js                  \* what JavaScript gets

marshalVars == <<arg, input, pc, in, out, echoed, owned, stray, failed, js>>

Side(side, blocks) == {<<side, b>> : b \in blocks}

(* What goes with a value according to its transfer, by the annotations of *)
(* GObject introspection.                                                  *)
Belongings(t, transfer, c) ==
    IF transfer = "nothing" \/ c.is = "NULL" THEN {} ELSE
    CASE t.tag \in Containers ->
            Root \union (IF transfer = "container" THEN {} ELSE
                UNION {Below(i, ElementBelongings(ElementType(t, i), transfer, c.sub[i])) : i \in DOMAIN c.sub})
      [] t.tag \in Strings \union {"error"} -> Root
      [] t.tag = "interface" /\ t.iface \notin {"enum", "unsigned_enum", "flags"} -> Root
      [] OTHER -> {}

Takes == arg.dir \in {"in", "inout", "instance", "callback"}
Gives == arg.dir \in {"out", "inout", "return", "parameter"}

MarshalInit ==
    /\ arg \in Arguments
    /\ input \in Inputs(arg)
    /\ pc = IF Takes THEN "convert" ELSE "call"
    /\ in = NULL /\ out = NULL /\ echoed = FALSE
    /\ owned = {} /\ stray = {}
    /\ failed = FALSE /\ js = Undefined

(* A callback may return null for anything.                                *)
Incoming ==
    CASE arg.dir = "instance" -> gwkjs_fill_method_instance(arg.type, arg.transfer, input)
      [] arg.dir = "callback" -> ToC(arg.type, arg.transfer, TRUE, input)
      [] arg.dir \in {"in", "inout"} /\ Explicit(arg.type) -> gwkjs_value_to_explicit_array(arg, input)
      [] OTHER -> gwkjs_value_to_arg(arg, input)

(* An argument that does not convert is not released: the release loop     *)
(* ends before it.  A callback's result that does not is replaced by 0 or  *)
(* NULL.                                                                   *)
ConvertIn ==
    /\ pc = "convert"
    /\ \E r \in Incoming :
        /\ IF arg.dir = "callback"
           THEN \E ffi \in set_return_ffi_arg_from_giargument(arg.type, r.c) :
                    in' = IF r.ok THEN Returned(arg.type, ffi) ELSE gwkjs_g_argument_init_default(arg.type)
           ELSE in' = r.c
        /\ owned' = Side("in", r.made)
        /\ failed' = ~r.ok
        /\ pc' = IF r.ok THEN "call" ELSE "done"
    /\ UNCHANGED <<arg, input, out, echoed, stray, js>>

Gone(blocks) ==
    /\ owned' = owned \ blocks
    /\ stray' = stray \union (blocks \ owned)

(* C takes what is passed with a transfer, and produces its outputs.  What *)
(* it gets for an inout argument stays the caller's ("the temporary C      *)
(* value we allocated, clearly we're responsible for freeing it"); it may  *)
(* give an equal value back.                                               *)
Call ==
    /\ pc = "call"
    /\ \/ /\ Takes /\ arg.dir # "inout"
          /\ Gone(Side("in", Belongings(arg.type, arg.transfer, in)))
          /\ pc' = IF arg.dir = "in" THEN "release" ELSE "done"
          /\ UNCHANGED <<out, echoed>>
       \/ /\ Gives
          /\ \/ out' \in Outputs(arg) /\ echoed' = FALSE
             \/ arg.dir = "inout" /\ out' = in /\ echoed' = TRUE
          /\ owned' = owned \union Side("out", Belongings(arg.type, arg.transfer, out'))
          /\ pc' = IF arg.dir = "inout" THEN "release" ELSE "convert out"
          /\ UNCHANGED stray
    /\ UNCHANGED <<arg, input, in, failed, js>>

(* The call set a GError: there is nothing to convert, only to release.    *)
Throws ==
    /\ pc = "call" /\ arg.dir \notin {"callback", "parameter"}
    /\ failed' = TRUE
    /\ Gone(IF arg.dir \in {"in", "instance"} THEN Side("in", Belongings(arg.type, arg.transfer, in)) ELSE {})
    /\ pc' = IF arg.dir \in {"in", "inout"} THEN "release" ELSE "done"
    /\ UNCHANGED <<arg, input, in, out, echoed, js>>

(* Mutant: the temporary of an inout argument is released by its transfer. *)
mutant_inout_by_transfer == arg.transfer

(* The temporary of an inout argument is released as passed with none.     *)
InTransfer == IF arg.dir = "inout" THEN "nothing" ELSE arg.transfer

ReleaseArgument ==
    /\ pc = "release"
    /\ Gone(Side("in", LET t == arg.type
                       r == IF Explicit(t) THEN gwkjs_g_argument_release_in_array(t, InTransfer, in)
                            ELSE gwkjs_g_argument_release_in_arg(t, InTransfer, in)
                   IN r.freed))
    /\ pc' = IF arg.dir = "inout" /\ ~failed THEN "convert out" ELSE "done"
    /\ UNCHANGED <<arg, input, in, out, echoed, failed, js>>

(* What does not convert is not released, nor what a callback is passed.   *)
ConvertOut ==
    /\ pc = "convert out"
    /\ LET r == FromC(arg.type, out) IN
        /\ js' = r.js
        /\ failed' = ~r.ok
        /\ pc' = CASE r = Crashes -> "crashed"
                   [] r.ok /\ arg.dir # "parameter" -> "release out"
                   [] OTHER -> "done"
    /\ UNCHANGED <<arg, input, in, out, echoed, owned, stray>>

ReleaseOutput ==
    /\ pc = "release out"
    /\ LET r == IF Explicit(arg.type)
                THEN gwkjs_g_argument_release_out_array(arg.type, arg.transfer, out)
                ELSE gwkjs_g_argument_release(arg.type, arg.transfer, out)
       IN
        /\ Gone(Side("out", r.freed))
        /\ failed' = (arg.dir = "return" /\ ~r.ok)
    /\ pc' = "done"
    /\ UNCHANGED <<arg, input, in, out, echoed, js>>

MarshalNext == ConvertIn \/ Call \/ Throws \/ ReleaseArgument \/ ConvertOut \/ ReleaseOutput

MarshalSpec == MarshalInit /\ [][MarshalNext]_marshalVars

-----------------------------------------------------------------------------
(* Types whose release is known to go wrong.                               *)
PointerElement(t) == t.tag = "interface" /\ t.iface \in {"object", "param", "union", "foreign"}

(* The elements of a C array that ends with NULL or has a fixed size are   *)
(* released as if everything had been transferred (release_internal), and  *)
(* foreign structures in a container always.                               *)
ElementsNotOwned(t) ==
    \/ t.tag = "array" /\ t.array \in {"fixed", "zero"} /\ PointerElement(t.sub[1])
    \/ t.tag \in Containers /\ ~Explicit(t)
       /\ \E i \in {1, 2} : ElementType(t, i).tag = "interface" /\ ElementType(t, i).iface = "foreign"

(* Arrays that the release does not know how to free, as a whole or in     *)
(* part: floating point and 64 bit elements outside of a GArray, a GArray  *)
(* of enumerations, GValues laid out flat.                                 *)
ArrayNotFreed(t) ==
    /\ t.tag = "array"
    /\ \/ t.array \in {"fixed", "zero"} /\ t.sub[1].tag \in {"float", "double", "int64", "uint64"}
       \/ t.array = "GArray" /\ t.sub[1].tag \in {"float", "double"}
       \/ t.array = "GArray" /\ StorageTag(t.sub[1]) \in {"int32", "uint32"} /\ t.sub[1].tag = "interface"
       \/ IsFlat(t.sub[1])

(* Only the container is given to C, and nothing releases elements made    *)
(* for it.                                                                 *)
ElementsForgotten(a) ==
    /\ a.transfer = "container" /\ a.dir \in {"in", "callback"}
    /\ a.type.tag = "array" /\ type_needs_release(a.type.sub[1])

(* The reference that is taken for an inout value is kept when the         *)
(* temporary is released as passed with no transfer.                       *)
ReferenceKept(a) ==
    /\ a.dir = "inout" /\ a.transfer = "everything"
    /\ \/ PointerElement(a.type)
       \/ a.type.tag = "array" /\ a.type.array \notin {"fixed", "zero"} /\ PointerElement(a.type.sub[1])
       \/ a.type.tag \in {"glist", "gslist"} /\ PointerElement(a.type.sub[1])
       \/ a.type.tag = "ghash" /\ PointerElement(a.type.sub[2])

(* What a callback returns without a transfer belongs to nobody.           *)
ResultKept(a) == a.dir = "callback" /\ a.transfer = "nothing"

(* What a callback is given with a transfer is never released.             *)
ParameterKept(a) == a.dir = "parameter" /\ a.transfer # "nothing"

(* Nothing is released twice, and nothing that C took or never gave, on    *)
(* any path of a call: conversion, GError, release of the temporaries and  *)
(* of what C returned.                                                     *)
NothingReleasedTwice ==
    stray # {} => ElementsNotOwned(arg.type) /\ arg.dir \in {"in", "inout"} /\ InTransfer = "nothing"

(* A container whose conversion stops at an element keeps the elements     *)
(* before it; arrays of numbers and of strings are freed.                  *)
FirstElementsKept(t) ==
    t.tag \in Containers /\ (t.tag = "array" => t.sub[1].tag \in Containers \union {"filename", "interface"})

(* The lists behind an empty one, in an array that NULL ends.              *)
BehindNull(t, c) == t.array = "zero" /\ BeforeNull(c) # DOMAIN c.sub

(* A call leaves nothing allocated for its arguments, also when C threw or *)
(* when the argument was refused: what C was not given is released.  What  *)
(* C gives away with a value is released once it has been converted.       *)
TemporariesKept ==
    /\ \E b \in owned : b[1] = "in"
    /\ ~(ElementsForgotten(arg) \/ ReferenceKept(arg) \/ ResultKept(arg) \/ BehindNull(arg.type, in))
    /\ ~(failed /\ in = NULL /\ FirstElementsKept(arg.type))

OutputsKept ==
    /\ \E b \in owned : b[1] = "out"
    /\ ~failed /\ ~ParameterKept(arg) /\ ~BehindNull(arg.type, out)

NothingKept ==
    pc = "done" /\ ~ArrayNotFreed(arg.type) => ~TemporariesKept /\ ~OutputsKept

-----------------------------------------------------------------------------
(* The JavaScript values that a type stands for and that the port carries  *)
(* through C unchanged.  Left out: negative values of an enumeration,      *)
(* which are rounded towards zero after a half was added; a whole number   *)
(* in a GValue that is not an int; arrays of bytes, of 64 bit integers, of *)
(* enumerations and of GValues; a zero inside an array that a zero ends;   *)
(* an unsigned element that is not an int.                                 *)
CarriesElements(is, t, v) ==
    /\ v = JS(is, 0, v.sub) /\ v.sub \in Seq({v.sub[i] : i \in DOMAIN v.sub})
    /\ \A i \in DOMAIN v.sub : ElementCarries(ElementType(t, i), v.sub[i])

CarriesGValue(v) ==
    \/ v \in {NaN, JS("string", v.n, << >>)} \union {JS("boolean", b, << >>) : b \in {0, 1}}
    \/ v = Number(v.n) /\ (_is_int(v) => v.n \in {2 * i : i \in SInt(32)})

Carries(t, v) ==
    CASE t.tag \in IntegerTags -> v \in {Number(2 * i) : i \in RangeOf(t.tag)}
      [] t.tag \in {"float", "double"} -> v \in {NaN, Number(v.n)} /\ (t.tag = "float" => FloatRange(v))
      [] t.tag = "boolean" -> v \in {JS("boolean", b, << >>) : b \in {0, 1}}
      [] t.tag \in {"unichar", "utf8"} -> v = JS("string", v.n, << >>)
      [] t.tag = "interface" /\ t.iface \in {"enum", "unsigned_enum", "flags"} ->
            v \in {Number(2 * e) : e \in {e \in UInt(32) : ValidEnum(t.iface, e)}}
      [] t.tag = "interface" /\ t.iface = "gvalue" -> CarriesGValue(v)
      [] t.tag = "interface" /\ t.iface \in {"object", "param", "foreign"} -> v = JS(t.iface, v.n, << >>)
      [] t.tag \in {"glist", "gslist"} -> CarriesElements("array", t, v)
      [] t.tag = "ghash" -> CarriesElements("dict", t, v)
      [] t.tag = "array" ->
            /\ CarriesElements("array", t, v) /\ t.array # "GByteArray"
            /\ t.sub[1].tag \in {"int8", "int16", "int32", "uint16", "uint32", "double", "utf8"} \/ PointerElement(t.sub[1])
            /\ \A i \in DOMAIN v.sub :
                /\ t.sub[1].tag = "uint32" => v.sub[i].n \in {2 * n : n \in SInt(32)}
                /\ t.array = "zero" => v.sub[i].n # 0
      [] OTHER -> FALSE

(* A value that C gives back unchanged comes back unchanged: the two       *)
(* conversions and the release between them agree on every type.           *)
RoundTrip ==
    echoed /\ Carries(arg.type, input) =>
        /\ pc = "release out" => js = input
        /\ pc = "done" => ~failed

(* A number passed or returned for an integer is refused, or reaches C as  *)
(* its integer part.  Not so for 32 bits, which are cast unchecked, for    *)
(* uint8 and uint16 beyond 32 bits, which a cast wraps first, and for 2^63 *)
(* and 2^64.                                                               *)
IntegersExact ==
    LET tag == arg.type.tag
        i == Truncated(input.n)
        unchecked == \/ tag = "int32"
                     \/ tag \in {"uint8", "uint16"} /\ i \notin UInt(32)
                     \/ tag = "int64" /\ input.n = 2 * Half[64]
                     \/ tag = "uint64" /\ i > UHighest(64)
        refused == in = NULL \/ (arg.dir = "callback" /\ failed)
    IN arg.dir \in {"in", "callback"} /\ tag \in IntegerTags /\ input.is = "number" /\ pc # "convert" =>
        /\ ~refused => in.n = i \/ unchecked
        /\ refused => i \notin RangeOf(tag) \/ (tag \in {"int64", "uint64", "uint32"} /\ input.n \notin {2 * k : k \in RangeOf(tag)})
=============================================================================
